-------------------------------- MODULE Asm --------------------------------
(***************************************************************************)
(* The assembler: assemble (src/compiler/assembler.rkt), which collects    *)
(* the constants and globals of the program, and asm-assemble (asm.rkt),   *)
(* which chooses the form of each instruction that refers to a label.      *)
(*                                                                         *)
(* Which form reaches depends on where the labels are, and where they are  *)
(* depends on the forms.  The assembler starts as if those instructions    *)
(* had no length, and alternates two passes until no label moves: one      *)
(* gives each of them the first form that applies, the other computes the  *)
(* positions of the labels.  A form that was rejected is never tried again.*)
(***************************************************************************)
EXTENDS Constants

CONSTANTS
  Counts,     \* numbers of constants that no instruction of the model pushes
  Plain,      \* the instructions without a label
  Data,       \* what the programs with constants push
  Pushes,     \* how many they push at most
  Label,
  Kinds,      \* the referring instructions of the mixed programs
  Gaps,       \* bytes of straight code between two of these
  Distances,  \* between a reference and its label, in the programs with one
  Length,     \* of the mixed programs, in labels and references
  Trailing    \* bound on the references after the last label

ASSUME AsmAssumption ==
  /\ Counts \subseteq Nat /\ Gaps \subseteq Nat /\ Distances \subseteq Nat
  /\ \A i \in Plain : i.op \in PlainOps /\ "var" \notin DOMAIN i /\ Encodable(i)
  /\ Kinds \subseteq {Referring[k] : k \in DOMAIN Referring}
  /\ Length \in Nat /\ Trailing \in Nat /\ Pushes \in Nat

VARIABLES
  others,     \* the number of the constants that are left out
  pending,    \* the data that have not been added to the constants
  constants,  \* the descriptors of the other ones
  globals,    \* those of the variables that the code names
  rom,        \* their cells
  code,       \* the program: instructions, labels and blocks of straight code
  size,       \* of a reference: 0 at first, then its form (of that many bytes)
  label,      \* the positions of the labels
  phase,
  image       \* the bytes of each instruction

vars == <<others, pending, constants, globals, rom, code, size, label, phase, image>>

-----------------------------------------------------------------------------
(* The programs.                                                           *)

Here(l)   == [op |-> "label", to |-> l]
Block(n)  == [op |-> "block", n |-> n]
Ref(o, l) == [op |-> o, to |-> l]

Datum(d)  == [op |-> "datum", datum |-> d]

PlainPrograms == {<<i>> : i \in Plain}

DataPrograms == UNION {[1 .. n -> {Datum(d) : d \in Data}] : n \in 1 .. Pushes}

OneReference ==
  UNION {{<<Ref(Referring[k], l), Block(n), Here(l)>>, <<Here(l), Block(n), Ref(Referring[k], l)>>} :
           k \in DOMAIN Referring, n \in Distances, l \in {CHOOSE l \in Label : TRUE}}

\* Every label once, after an instruction that refers to it (linearize in
\* scheduling.rkt emits a procedure when it has met a reference to it), and no
\* more than Trailing references after the last label.
Shapes ==
  {s \in [1 .. Length -> {Here(l) : l \in Label} \cup {Ref(o, l) : o \in Kinds, l \in Label}] :
     /\ \A l \in Label : \E j \in 2 .. Length :
          /\ {k \in DOMAIN s : s[k] = Here(l)} = {j}
          /\ \E k \in 1 .. j-1 : s[k].to = l
     /\ \E k \in DOMAIN s : s[k].op = "label" /\ k >= Length - Trailing}

\* Straight code between one and the next.
MixedPrograms ==
  {[k \in 1 .. 2 * Length - 1 |-> IF k % 2 = 1 THEN s[(k + 1) \div 2] ELSE Block(g[k \div 2])] :
     s \in Shapes, g \in [1 .. Length - 1 -> Gaps]}

\* The small programs come with every number of constants.
Programs ==
  (Counts \X (PlainPrograms \cup OneReference)) \cup ({0} \X (DataPrograms \cup MixedPrograms))

-----------------------------------------------------------------------------
\* The header and the constants come first.
Start == 4 + 5 * (Len(constants) + others)

\* The instruction with the number of its global, if it names one.
Numbered(i) ==
  IF "var" \in DOMAIN i THEN [op |-> i.op, n |-> IndexOf(globals, i.var)] ELSE i

\* What is emitted for an instruction without a label.
Bytes(i) ==
  CASE i.op \in {"label", "block"} -> << >>
    [] i.op = "datum" -> PushConstant(EncodeConstant(i.datum, constants))
    [] i.op = "entry" -> EntryByte(i.n, i.rest)
    [] OTHER          -> PlainBytes(Numbered(i))

Width(k, sz) ==
  CASE Refers(code[k])      -> sz[k]
    [] code[k].op = "block" -> code[k].n
    [] OTHER                -> Len(Bytes(code[k]))

\* The positions of all items when the references have the given sizes.
Positions(sz) ==
  LET at[k \in 1 .. Len(code)] == IF k = 1 THEN Start ELSE at[k-1] + Width(k-1, sz)
  IN  at

Items      == DOMAIN code
References == {k \in Items : Refers(code[k])}
Labelled   == {k \in Items : code[k].op = "label"}
Pushed     == {k \in Items : code[k].op = "datum"}

\* The globals, when those in pool have been found before the instruction i.
Naming(pool, i) == IF "var" \in DOMAIN i THEN Counted(pool, i.var) ELSE pool

LabelsAt(at) ==
  [l \in {code[k].to : k \in Labelled} |-> at[CHOOSE k \in Items : code[k] = Here(l)]]

\* The first form that applies, among those not rejected yet.
Form(k, at) ==
  CHOOSE f \in 1 .. 3 :
    /\ f >= size[k] /\ Applies(code[k], f, at[k], label[code[k].to])
    /\ \A g \in 1 .. f-1 : g >= size[k] => ~Applies(code[k], g, at[k], label[code[k].to])

\* What the assembler takes for granted of a program c: every reference has a
\* label, and no label is there twice.
WellFormed(c) ==
  /\ c \in Seq(Range(c))
  /\ \A k \in DOMAIN c :
       \/ Refers(c[k]) /\ \E j \in DOMAIN c : c[j] = Here(c[k].to)
       \/ c[k].op = "label" /\ c[k] = Here(c[k].to)
       \/ c[k].op = "block" /\ c[k].n \in Nat
       \/ c[k].op \in {"datum", "entry"}
       \/ c[k].op \in PlainOps /\ ("var" \in DOMAIN c[k] => c[k].op \in {"push-global", "set-global"})
  /\ \A j, k \in DOMAIN c : c[j].op = "label" /\ c[j] = c[k] => j = k

-----------------------------------------------------------------------------
(* What the assembler starts with for a program c.                         *)

Pushing(data, i) ==
  IF i.op = "datum" THEN Append(data, [datum |-> i.datum, fromCode |-> TRUE]) ELSE data

PushedBy(c) == FoldLeft(Pushing, << >>, c)

NoSizes(c)  == [k \in DOMAIN c |-> 0]
NoLabels(c) == [l \in {c[k].to : k \in {k \in DOMAIN c : c[k].op = "label"}} |-> 0]

\* The code has been read.
Ready ==
  /\ pending = PushedBy(code)
  /\ constants = << >>
  /\ globals = << >>
  /\ rom = << >>
  /\ size = NoSizes(code)
  /\ label = NoLabels(code)
  /\ phase = "collect"
  /\ image = << >>

Init == (\E p \in Programs : others = p[1] /\ code = p[2]) /\ Ready

\* The constants are collected, in the order of the code.
Collect ==
  /\ phase = "collect" /\ pending # << >>
  /\ constants' = Added(constants, Head(pending).datum, Head(pending).fromCode)
  /\ pending' = Pending(pending, constants)
  /\ UNCHANGED <<others, globals, rom, code, size, label, phase, image>>

\* They are sorted and assembled; the globals are collected and sorted.
Layout ==
  /\ phase = "collect" /\ pending = << >>
  /\ constants' = SortConstants(constants)
  /\ globals' = SortConstants(FoldLeft(Naming, << >>, code))
  /\ rom' = [k \in DOMAIN constants |-> AssembleConstant(constants'[k].obj, constants')]
  /\ phase' = "pass1"
  /\ UNCHANGED <<others, pending, code, size, label, image>>

\* asm-pass1: the first approximation of the labels.
Pass1 ==
  /\ phase = "pass1"
  /\ label' = LabelsAt(Positions(size))
  /\ phase' = "size"
  /\ UNCHANGED <<others, pending, constants, globals, rom, code, size, image>>

\* loop2: the positions it goes by are those of the sizes before.
Size ==
  /\ phase = "size"
  /\ LET at == Positions(size)
     IN  size' = [k \in Items |-> IF k \in References THEN Form(k, at) ELSE 0]
  /\ phase' = "place"
  /\ UNCHANGED <<others, pending, constants, globals, rom, code, label, image>>

\* Mutant: the labels are placed once.
PlaceOnce ==
  /\ phase = "place"
  /\ label' = LabelsAt(Positions(size))
  /\ phase' = "emit"
  /\ UNCHANGED <<others, pending, constants, globals, rom, code, size, image>>

\* Mutant: as in asm-pass1, the references have no length.
PlaceFlat ==
  /\ phase = "place"
  /\ label' = LabelsAt(Positions([k \in Items |-> 0]))
  /\ phase' = IF label' = label THEN "emit" ELSE "size"
  /\ UNCHANGED <<others, pending, constants, globals, rom, code, size, image>>

\* loop4.
Place ==
  /\ phase = "place"
  /\ label' = LabelsAt(Positions(size))
  /\ phase' = IF label' = label THEN "emit" ELSE "size"
  /\ UNCHANGED <<others, pending, constants, globals, rom, code, size, image>>

\* loop5: the production procedures; a label that is not where it was placed
\* is an internal error.
Emit ==
  /\ phase = "emit"
  /\ LET at == Positions(size)
     IN  /\ image' = [k \in Items |->
                        IF k \in References
                        THEN ReferenceBytes(code[k], size[k], at[k], label[code[k].to])
                        ELSE Bytes(code[k])]
         /\ phase' = IF label = LabelsAt(at) THEN "done" ELSE "inconsistent"
  /\ UNCHANGED <<others, pending, constants, globals, rom, code, size, label>>

Next == Collect \/ Layout \/ Pass1 \/ Size \/ Place \/ Emit

Spec == Init /\ [][Next]_vars /\ WF_vars(Next)

-----------------------------------------------------------------------------
(***************************************************************************)
(* The virtual machine does with every instruction what the compiler meant,*)
(* and starts with the first one: the number of constants it skips is a    *)
(* byte of the header.                                                     *)
(***************************************************************************)
Meant(i) ==
  CASE i.op = "push-constant" -> [op |-> i.op, v |-> ToRomIndex(i.n)]
    [] i.op = "datum" -> [op |-> "push-constant", v |-> ToRomIndex(EncodeConstant(i.datum, constants))]
    [] OTHER -> [op |-> i.op, v |-> Numbered(i).n]

PlainDecoded ==
  phase = "done" =>
    /\ 4 + 5 * ((Len(constants) + others) % 256) = Start
    /\ LET at == Positions(size)
       IN  \A k \in Items \ References : code[k].op \notin {"label", "block", "entry"} =>
             Decode(image[k], at[k]) = Meant(code[k])

(***************************************************************************)
(* The code has all that the assembler takes for granted: linearize        *)
(* (scheduling.rkt) has emitted every procedure and every block that an    *)
(* instruction refers to, none of them twice, and nothing the assembler    *)
(* has no bytes for.                                                       *)
(***************************************************************************)
CodeIsWhole == phase = "collect" => WellFormed(code)

(***************************************************************************)
(* Every reference, as the virtual machine decodes it where it ended up,   *)
(* leads to its label: no form was chosen on account of a position that    *)
(* the later rounds have moved.                                            *)
(***************************************************************************)
ReferencesReach ==
  phase = "done" =>
    LET at == Positions(size)
    IN  \A k \in References : Decode(image[k], at[k]) = [op |-> code[k].op, v |-> label[code[k].to]]

(***************************************************************************)
(* The rounds come to an end, and the internal consistency check of the    *)
(* last one (asm.rkt:275-277) does not fail.                               *)
(***************************************************************************)
Assembles == <>(phase = "done")

=============================================================================
