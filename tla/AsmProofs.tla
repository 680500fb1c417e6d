----------------------------- MODULE AsmProofs -----------------------------
(***************************************************************************)
(* Of the assembler and the loader, for programs of any length with any    *)
(* number of constants.                                                    *)
(*                                                                         *)
(* First single instructions: what is written for one is what the machine  *)
(* reads, for every argument that the encoding has room for, every address *)
(* and every form of a reference.  Then whole programs.  Larger forms push *)
(* all that follows them further away, so that labels which have come to   *)
(* rest hold the references before them (Settled), and the forms that fit  *)
(* the positions of the round before fit (Rounds).  Data and globals that  *)
(* the code uses are found when they are collected, and stay (Laid).       *)
(* Last the way of a program through the file: the memory has the bytes of *)
(* the lines that were read, as long as they are sound (Loading).          *)
(***************************************************************************)
EXTENDS Loader, TLAPS, FiniteSetTheorems, SequenceTheorems, WellFoundedInduction

Does(name, v) == [op |-> name, v |-> v]

\* The opcode b is of the kind g, and of no other.
Only(b, g) ==
  /\ (b \div 16 \in {0, 1}) <=> g = "constant"
  /\ (b \div 16 \in {2, 3}) <=> g = "stack"
  /\ (b \div 16 = 4) <=> g = "global"
  /\ (b \div 16 = 5) <=> g = "set"
  /\ (b \div 16 = 6) <=> g = "call"
  /\ (b \div 16 = 7) <=> g = "jump"
  /\ (b \div 16 = 8) <=> g = "jump ahead"
  /\ (b \div 16 = 9) <=> g = "goto ahead"
  /\ (b \div 16 = 10) <=> g = "long constant"
  /\ (b \in 176 .. 180) <=> g = "absolute"
  /\ (b \in 181 .. 185) <=> g = "relative"
  /\ (b = 190) <=> g = "long global"
  /\ (b = 191) <=> g = "long set"
  /\ (b \div 16 >= 12) <=> g = "prim"

(* The number of bytes of an instruction, by its opcode.                   *)
LEMMA LengthIs ==
  ASSUME NEW b \in 0 .. 255
  PROVE  /\ b < 160 \/ b >= 192 => LengthOf(b) = 1
         /\ b \in 160 .. 175 => LengthOf(b) = 2
         /\ b \in 176 .. 180 => LengthOf(b) = 3
         /\ b \in 181 .. 185 => LengthOf(b) = 2
<1>1. ASSUME b < 160 \/ b >= 192 PROVE LengthOf(b) = 1
  <2>1. b \div 16 # 10 /\ b \notin 176 .. 180 /\ b \notin 181 .. 185 /\ b \notin {190, 191}
    BY <1>1
  <2> QED
    BY <2>1 DEF LengthOf
<1>2. ASSUME b \in 160 .. 175 PROVE LengthOf(b) = 2
  <2>1. b \div 16 = 10 /\ b \notin 176 .. 180 /\ b \notin 181 .. 185 /\ b \notin {190, 191}
    BY <1>2
  <2> QED
    BY <2>1 DEF LengthOf
<1>3. ASSUME b \in 176 .. 180 PROVE LengthOf(b) = 3
  <2>1. b \div 16 # 10 /\ b \notin 181 .. 185 /\ b \notin {190, 191}
    BY <1>3
  <2> QED
    BY <1>3, <2>1 DEF LengthOf
<1>4. ASSUME b \in 181 .. 185 PROVE LengthOf(b) = 2
  <2>1. b \div 16 # 10 /\ b \notin 176 .. 180 /\ b \notin {190, 191}
    BY <1>4
  <2> QED
    BY <1>4, <2>1 DEF LengthOf
<1> QED
  BY <1>1, <1>2, <1>3, <1>4

\* What the machine does with an opcode of the kind g.
Acts(bytes, b, pc, g) ==
  /\ g = "constant" => Decode(bytes, pc) = Does("push-constant", ToRomIndex(b % 32))
  /\ g = "stack" => Decode(bytes, pc) = Does("push-stack", b % 32)
  /\ g = "global" => Decode(bytes, pc) = Does("push-global", b % 16)
  /\ g = "set" => Decode(bytes, pc) = Does("set-global", b % 16)
  /\ g = "call" => Decode(bytes, pc) = Does("call", b % 16)
  /\ g = "jump" => Decode(bytes, pc) = Does("jump", b % 16)
  /\ g = "jump ahead" => Decode(bytes, pc) = Does("jump-toplevel", pc + 1 + (b % 16))
  /\ g = "goto ahead" => Decode(bytes, pc) = Does("goto-if-false", pc + 1 + (b % 16))
  /\ g = "long constant" => Decode(bytes, pc) = Does("push-constant", ToRomIndex((b % 16) * 256 + bytes[2]))
  /\ g = "absolute" => Decode(bytes, pc) = Does(Referring[b - 175], bytes[2] + 256 * bytes[3])
  /\ g = "relative" => Decode(bytes, pc) = Does(Referring[b - 180], pc + 2 + bytes[2] - 128)
  /\ g = "long global" => Decode(bytes, pc) = Does("push-global", bytes[2])
  /\ g = "long set" => Decode(bytes, pc) = Does("set-global", bytes[2])
  /\ g = "prim" => Decode(bytes, pc) = Does("prim", b - 192)

\* What the machine does goes by the kind of the opcode.
LEMMA OnlyDoes ==
  ASSUME NEW bytes, NEW b, bytes[1] = b, LengthOf(b) = Len(bytes), NEW pc, NEW g, Only(b, g)
  PROVE  Acts(bytes, b, pc, g)
<1>1. CASE g = "constant"
  BY <1>1, ZenonT(60) DEF Only, Decode, Does, Acts
<1>2. CASE g = "stack"
  BY <1>2, ZenonT(60) DEF Only, Decode, Does, Acts
<1>3. CASE g = "global"
  BY <1>3, ZenonT(60) DEF Only, Decode, Does, Acts
<1>4. CASE g = "set"
  BY <1>4, ZenonT(60) DEF Only, Decode, Does, Acts
<1>5. CASE g = "call"
  BY <1>5, ZenonT(60) DEF Only, Decode, Does, Acts
<1>6. CASE g = "jump"
  BY <1>6, ZenonT(60) DEF Only, Decode, Does, Acts
<1>7. CASE g = "jump ahead"
  BY <1>7, ZenonT(60) DEF Only, Decode, Does, Acts
<1>8. CASE g = "goto ahead"
  BY <1>8, ZenonT(60) DEF Only, Decode, Does, Acts
<1>9. CASE g = "long constant"
  BY <1>9, ZenonT(60) DEF Only, Decode, Does, Acts
<1>10. CASE g = "absolute"
  <2>1. /\ b \in 176 .. 180 /\ b \notin 181 .. 185 /\ ~(b \div 16 \in {0, 1}) /\ ~(b \div 16 \in {2, 3})
        /\ b \div 16 # 4 /\ b \div 16 # 5 /\ b \div 16 # 6 /\ b \div 16 # 7 /\ b \div 16 # 8
        /\ b \div 16 # 9 /\ b \div 16 # 10 /\ b # 190 /\ b # 191 /\ ~(b \div 16 >= 12)
    BY <1>10, SMT DEF Only
  <2>2. Decode(bytes, pc) = Does(Referring[b - 175], bytes[2] + 256 * bytes[3])
    BY <2>1, ZenonT(120) DEF Decode, Does
  <2> QED
    BY <1>10, <2>2, Zenon DEF Acts
<1>11. CASE g = "relative"
  <2>1. /\ b \in 181 .. 185 /\ b \notin 176 .. 180 /\ ~(b \div 16 \in {0, 1}) /\ ~(b \div 16 \in {2, 3})
        /\ b \div 16 # 4 /\ b \div 16 # 5 /\ b \div 16 # 6 /\ b \div 16 # 7 /\ b \div 16 # 8
        /\ b \div 16 # 9 /\ b \div 16 # 10 /\ b # 190 /\ b # 191 /\ ~(b \div 16 >= 12)
    BY <1>11, SMT DEF Only
  <2>2. Decode(bytes, pc) = Does(Referring[b - 180], pc + 2 + bytes[2] - 128)
    BY <2>1, ZenonT(120) DEF Decode, Does
  <2> QED
    BY <1>11, <2>2, Zenon DEF Acts
<1>12. CASE g = "long global"
  BY <1>12, ZenonT(60) DEF Only, Decode, Does, Acts
<1>13. CASE g = "long set"
  BY <1>13, ZenonT(60) DEF Only, Decode, Does, Acts
<1>14. CASE g = "prim"
  BY <1>14, ZenonT(60) DEF Only, Decode, Does, Acts
<1> QED
  BY <1>1, <1>2, <1>3, <1>4, <1>5, <1>6, <1>7, <1>8, <1>9, <1>10, <1>11, <1>12, <1>13, <1>14,
     Zenon DEF Acts

\* The kind of a byte.
LEMMA OpcodeKind ==
  ASSUME NEW b \in 0 .. 255
  PROVE  /\ b <= 31 => Only(b, "constant")
         /\ b \in 32 .. 63 => Only(b, "stack")
         /\ b \in 64 .. 79 => Only(b, "global")
         /\ b \in 80 .. 95 => Only(b, "set")
         /\ b \in 96 .. 111 => Only(b, "call")
         /\ b \in 112 .. 127 => Only(b, "jump")
         /\ b \in 128 .. 143 => Only(b, "jump ahead")
         /\ b \in 144 .. 159 => Only(b, "goto ahead")
         /\ b \in 160 .. 175 => Only(b, "long constant")
         /\ b \in 176 .. 180 => Only(b, "absolute")
         /\ b \in 181 .. 185 => Only(b, "relative")
         /\ b >= 192 => Only(b, "prim")
  BY SMT DEF Only

\* Instructions of one byte.
LEMMA ShortDoes ==
  ASSUME NEW b \in 0 .. 255, NEW pc \in Nat
  PROVE  /\ b <= 31 => Decode(<<b>>, pc) = Does("push-constant", ToRomIndex(b % 32))
         /\ b \in 32 .. 63 => Decode(<<b>>, pc) = Does("push-stack", b % 32)
         /\ b \in 64 .. 79 => Decode(<<b>>, pc) = Does("push-global", b % 16)
         /\ b \in 80 .. 95 => Decode(<<b>>, pc) = Does("set-global", b % 16)
         /\ b \in 96 .. 111 => Decode(<<b>>, pc) = Does("call", b % 16)
         /\ b \in 112 .. 127 => Decode(<<b>>, pc) = Does("jump", b % 16)
         /\ b \in 128 .. 143 => Decode(<<b>>, pc) = Does("jump-toplevel", pc + 1 + (b % 16))
         /\ b \in 144 .. 159 => Decode(<<b>>, pc) = Does("goto-if-false", pc + 1 + (b % 16))
         /\ b >= 192 => Decode(<<b>>, pc) = Does("prim", b - 192)
<1>1. PICK bytes : bytes = <<b>>
  OBVIOUS
<1>2. bytes[1] = b /\ Len(bytes) = 1
  BY <1>1
<1>3. ASSUME b <= 31 PROVE Decode(bytes, pc) = Does("push-constant", ToRomIndex(b % 32))
  <2>1. Only(b, "constant")
    BY <1>3, OpcodeKind
  <2>2. LengthOf(b) = Len(bytes)
    BY <1>2, <1>3, LengthIs
  <2>3. Acts(bytes, b, pc, "constant")
    BY <1>2, <2>1, <2>2, OnlyDoes
  <2> QED
    BY <2>3, Zenon DEF Acts
<1>4. ASSUME b \in 32 .. 63 PROVE Decode(bytes, pc) = Does("push-stack", b % 32)
  <2>1. Only(b, "stack")
    BY <1>4, OpcodeKind
  <2>2. LengthOf(b) = Len(bytes)
    BY <1>2, <1>4, LengthIs
  <2>3. Acts(bytes, b, pc, "stack")
    BY <1>2, <2>1, <2>2, OnlyDoes
  <2> QED
    BY <2>3, Zenon DEF Acts
<1>5. ASSUME b \in 64 .. 79 PROVE Decode(bytes, pc) = Does("push-global", b % 16)
  <2>1. Only(b, "global")
    BY <1>5, OpcodeKind
  <2>2. LengthOf(b) = Len(bytes)
    BY <1>2, <1>5, LengthIs
  <2>3. Acts(bytes, b, pc, "global")
    BY <1>2, <2>1, <2>2, OnlyDoes
  <2> QED
    BY <2>3, Zenon DEF Acts
<1>6. ASSUME b \in 80 .. 95 PROVE Decode(bytes, pc) = Does("set-global", b % 16)
  <2>1. Only(b, "set")
    BY <1>6, OpcodeKind
  <2>2. LengthOf(b) = Len(bytes)
    BY <1>2, <1>6, LengthIs
  <2>3. Acts(bytes, b, pc, "set")
    BY <1>2, <2>1, <2>2, OnlyDoes
  <2> QED
    BY <2>3, Zenon DEF Acts
<1>7. ASSUME b \in 96 .. 111 PROVE Decode(bytes, pc) = Does("call", b % 16)
  <2>1. Only(b, "call")
    BY <1>7, OpcodeKind
  <2>2. LengthOf(b) = Len(bytes)
    BY <1>2, <1>7, LengthIs
  <2>3. Acts(bytes, b, pc, "call")
    BY <1>2, <2>1, <2>2, OnlyDoes
  <2> QED
    BY <2>3, Zenon DEF Acts
<1>8. ASSUME b \in 112 .. 127 PROVE Decode(bytes, pc) = Does("jump", b % 16)
  <2>1. Only(b, "jump")
    BY <1>8, OpcodeKind
  <2>2. LengthOf(b) = Len(bytes)
    BY <1>2, <1>8, LengthIs
  <2>3. Acts(bytes, b, pc, "jump")
    BY <1>2, <2>1, <2>2, OnlyDoes
  <2> QED
    BY <2>3, Zenon DEF Acts
<1>9. ASSUME b \in 128 .. 143 PROVE Decode(bytes, pc) = Does("jump-toplevel", pc + 1 + (b % 16))
  <2>1. Only(b, "jump ahead")
    BY <1>9, OpcodeKind
  <2>2. LengthOf(b) = Len(bytes)
    BY <1>2, <1>9, LengthIs
  <2>3. Acts(bytes, b, pc, "jump ahead")
    BY <1>2, <2>1, <2>2, OnlyDoes
  <2> QED
    BY <2>3, Zenon DEF Acts
<1>10. ASSUME b \in 144 .. 159 PROVE Decode(bytes, pc) = Does("goto-if-false", pc + 1 + (b % 16))
  <2>1. Only(b, "goto ahead")
    BY <1>10, OpcodeKind
  <2>2. LengthOf(b) = Len(bytes)
    BY <1>2, <1>10, LengthIs
  <2>3. Acts(bytes, b, pc, "goto ahead")
    BY <1>2, <2>1, <2>2, OnlyDoes
  <2> QED
    BY <2>3, Zenon DEF Acts
<1>11. ASSUME b >= 192 PROVE Decode(bytes, pc) = Does("prim", b - 192)
  <2>1. Only(b, "prim")
    BY <1>11, OpcodeKind
  <2>2. LengthOf(b) = Len(bytes)
    BY <1>2, <1>11, LengthIs
  <2>3. Acts(bytes, b, pc, "prim")
    BY <1>2, <2>1, <2>2, OnlyDoes
  <2> QED
    BY <2>3, Zenon DEF Acts
<1> QED
  BY <1>1, <1>3, <1>4, <1>5, <1>6, <1>7, <1>8, <1>9, <1>10, <1>11

\* Instructions of two and of three bytes.
LEMMA RelativeDoes ==
  ASSUME NEW b \in 0 .. 255, b \in 181 .. 185, NEW c, NEW bytes, bytes = <<b, c>>, NEW pc \in Nat
  PROVE  Decode(bytes, pc) = Does(Referring[b - 180], pc + 2 + c - 128)
<1>1. bytes[1] = b /\ bytes[2] = c /\ LengthOf(b) = Len(bytes)
  BY LengthIs
<1>2. Only(b, "relative")
  BY OpcodeKind
<1>3. Acts(bytes, b, pc, "relative")
  BY <1>1, <1>2, OnlyDoes
<1>4. Decode(bytes, pc) = Does(Referring[b - 180], pc + 2 + bytes[2] - 128)
  BY <1>3, Zenon DEF Acts
<1> QED
  BY <1>1, <1>4

\* An absolute address has its low byte first.
LEMMA AbsoluteDoes ==
  ASSUME NEW b \in 0 .. 255, b \in 176 .. 180, NEW c, NEW d, NEW bytes, bytes = <<b, c, d>>, NEW pc \in Nat
  PROVE  Decode(bytes, pc) = Does(Referring[b - 175], c + 256 * d)
<1>1. bytes[1] = b /\ bytes[2] = c /\ bytes[3] = d /\ LengthOf(b) = Len(bytes)
  BY LengthIs
<1>2. Only(b, "absolute")
  BY OpcodeKind
<1>3. Acts(bytes, b, pc, "absolute")
  BY <1>1, <1>2, OnlyDoes
<1>4. Decode(bytes, pc) = Does(Referring[b - 175], bytes[2] + 256 * bytes[3])
  BY <1>3, Zenon DEF Acts
<1> QED
  BY <1>1, <1>4

-----------------------------------------------------------------------------
\* The instructions that refer to no label, with the numbers that have a
\* place.  (Global variables from 16 on have not: see AsmGlobals.)
Fits(i) ==
  \/ i.op = "push-constant" /\ i.n \in Nat /\ i.n < 16 * 256
  \/ i.op = "push-stack" /\ i.n \in 0 .. 31
  \/ i.op \in {"push-global", "set-global", "call", "jump"} /\ i.n \in 0 .. 15
  \/ i.op = "prim" /\ i.n \in 0 .. 63

Argument(i) == IF i.op = "push-constant" THEN ToRomIndex(i.n) ELSE i.n

(***************************************************************************)
(* assembler.rkt and interpreter.c agree on every instruction that refers  *)
(* to no label, in the short and in the long form.                         *)
(***************************************************************************)
THEOREM PlainDecodes ==
  ASSUME NEW i, Fits(i), NEW pc \in Nat
  PROVE  Decode(PlainBytes(i), pc) = Does(i.op, Argument(i))
<1>1. CASE i.op = "push-constant" /\ i.n \in 0 .. 31
  <2>1. PICK b \in 0 .. 255 : b = i.n
    BY <1>1
  <2>2. b <= 31 /\ b % 32 = b
    BY <1>1, <2>1
  <2>3. Decode(<<b>>, pc) = Does("push-constant", ToRomIndex(b % 32))
    BY <2>2, ShortDoes
  <2>4. PlainBytes(i) = <<b>>
    BY <1>1, <2>1 DEF PlainBytes, PushConstant
  <2> QED
    BY <1>1, <2>1, <2>2, <2>3, <2>4 DEF Argument
<1>2. CASE i.op = "push-constant" /\ i.n \in Nat /\ 32 <= i.n /\ i.n < 16 * 256
  <2>1. PICK n \in Nat : n = i.n /\ 32 <= n /\ n < 16 * 256
    BY <1>2
  <2>2. PICK q \in 0 .. 15, c \in 0 .. 255 : q = n \div 256 /\ c = n % 256
    <3>1. n % 256 \in 0 .. 255 /\ n \div 256 \in Nat /\ n = (256 * (n \div 256)) + (n % 256)
      OBVIOUS
    <3>2. PICK k \in Nat, r \in 0 .. 255 : k = n \div 256 /\ n = (256 * k) + r
      BY <3>1
    <3>3. k \in 0 .. 15
      BY <2>1, <3>2
    <3>4. n \div 256 \in 0 .. 15 /\ n % 256 \in 0 .. 255
      BY <3>1, <3>2, <3>3
    <3> QED
      BY <3>4, Zenon
  <2>3. PICK b \in 0 .. 255 : b = 160 + q
    OBVIOUS
  <2>4. q % 16 = q /\ n = (256 * q) + c
    BY <2>2
  <2>5. PICK bytes : bytes = <<b, c>>
    BY Zenon
  <2>6. Decode(bytes, pc) = Does("push-constant", ToRomIndex(n))
    <3>1. b \in 160 .. 175 /\ n = (b % 16) * 256 + c
      BY <2>3, <2>4
    <3>2. bytes[1] = b /\ bytes[2] = c /\ LengthOf(b) = Len(bytes)
      BY <2>5, <3>1, LengthIs
    <3>3. Only(b, "long constant")
      BY <3>1, OpcodeKind
    <3>4. Acts(bytes, b, pc, "long constant")
      BY <3>2, <3>3, OnlyDoes
    <3>5. Decode(bytes, pc) = Does("push-constant", ToRomIndex((b % 16) * 256 + bytes[2]))
      BY <3>4, Zenon DEF Acts
    <3>6. (b % 16) * 256 + bytes[2] = n
      BY <3>1, <3>2
    <3> QED
      BY <3>5, <3>6
  <2>7. PlainBytes(i) = <<b, c>>
    <3>1. PlainBytes(i) = PushConstant(n)
      BY <1>2, <2>1 DEF PlainBytes
    <3>2. PushConstant(n) = <<160 + ((n \div 256) % 16), n % 256>>
      <4>1. ~(n <= 31)
        BY <2>1
      <4> QED
        BY <4>1, Zenon DEF PushConstant
    <3> QED
      BY <2>2, <2>3, <2>4, <3>1, <3>2
  <2>8. Argument(i) = ToRomIndex(n)
    BY <1>2, <2>1 DEF Argument
  <2> QED
    BY <1>2, <2>5, <2>6, <2>7, <2>8
<1>3. CASE i.op = "push-stack" /\ i.n \in 0 .. 31
  <2>1. PICK b : b = 32 + i.n
    OBVIOUS
  <2>2. b \in 32 .. 63 /\ b % 32 = i.n /\ b \in 0 .. 255
    BY <1>3, <2>1
  <2>3. Decode(<<b>>, pc) = Does("push-stack", b % 32)
    BY <2>2, ShortDoes
  <2>4. PlainBytes(i) = <<b>>
    BY <1>3, <2>1 DEF PlainBytes
  <2> QED
    BY <1>3, <2>2, <2>3, <2>4 DEF Argument
<1>4. CASE i.op = "push-global" /\ i.n \in 0 .. 15
  <2>1. PICK b : b = 64 + i.n
    OBVIOUS
  <2>2. b \in 64 .. 79 /\ b % 16 = i.n /\ b \in 0 .. 255
    BY <1>4, <2>1
  <2>3. Decode(<<b>>, pc) = Does("push-global", b % 16)
    BY <2>2, ShortDoes
  <2>4. PlainBytes(i) = <<b>>
    BY <1>4, <2>1 DEF PlainBytes, Global
  <2> QED
    BY <1>4, <2>2, <2>3, <2>4 DEF Argument
<1>5. CASE i.op = "set-global" /\ i.n \in 0 .. 15
  <2>1. PICK b : b = 80 + i.n
    OBVIOUS
  <2>2. b \in 80 .. 95 /\ b % 16 = i.n /\ b \in 0 .. 255
    BY <1>5, <2>1
  <2>3. Decode(<<b>>, pc) = Does("set-global", b % 16)
    BY <2>2, ShortDoes
  <2>4. PlainBytes(i) = <<b>>
    BY <1>5, <2>1 DEF PlainBytes, Global
  <2> QED
    BY <1>5, <2>2, <2>3, <2>4 DEF Argument
<1>6. CASE i.op = "call" /\ i.n \in 0 .. 15
  <2>1. PICK b : b = 96 + i.n
    OBVIOUS
  <2>2. b \in 96 .. 111 /\ b % 16 = i.n /\ b \in 0 .. 255
    BY <1>6, <2>1
  <2>3. Decode(<<b>>, pc) = Does("call", b % 16)
    BY <2>2, ShortDoes
  <2>4. PlainBytes(i) = <<b>>
    BY <1>6, <2>1 DEF PlainBytes
  <2> QED
    BY <1>6, <2>2, <2>3, <2>4 DEF Argument
<1>7. CASE i.op = "jump" /\ i.n \in 0 .. 15
  <2>1. PICK b : b = 112 + i.n
    OBVIOUS
  <2>2. b \in 112 .. 127 /\ b % 16 = i.n /\ b \in 0 .. 255
    BY <1>7, <2>1
  <2>3. Decode(<<b>>, pc) = Does("jump", b % 16)
    BY <2>2, ShortDoes
  <2>4. PlainBytes(i) = <<b>>
    BY <1>7, <2>1 DEF PlainBytes
  <2> QED
    BY <1>7, <2>2, <2>3, <2>4 DEF Argument
<1>8. CASE i.op = "prim" /\ i.n \in 0 .. 63
  <2>1. PICK b \in 0 .. 255 : b = 192 + i.n
    BY <1>8
  <2>2. b >= 192 /\ b - 192 = i.n
    BY <1>8, <2>1
  <2>3. Decode(<<b>>, pc) = Does("prim", b - 192)
    BY <2>2, ShortDoes, ZenonT(60)
  <2>4. PlainBytes(i) = <<b>>
    BY <1>8, <2>1 DEF PlainBytes
  <2> QED
    BY <1>8, <2>2, <2>3, <2>4 DEF Argument
<1>9. i.n \in Nat /\ i.n < 16 * 256 => i.n \in 0 .. 31 \/ 32 <= i.n
  OBVIOUS
<1> QED
  BY <1>1, <1>2, <1>3, <1>4, <1>5, <1>6, <1>7, <1>8, <1>9 DEF Fits

-----------------------------------------------------------------------------
(***************************************************************************)
(* Different constants have different places: the two programs number them *)
(* in three ranges that do not meet.                                       *)
(***************************************************************************)
THEOREM ConstantsApart ==
  ASSUME NEW m \in Nat, NEW n \in Nat, m < 16 * 256, n < 16 * 256, ToRomIndex(m) = ToRomIndex(n)
  PROVE  m = n
BY DEF ToRomIndex, FirstRom

\* An instruction that refers to a label has its place among them.
LEMMA RankIs ==
  ASSUME NEW i, Refers(i)
  PROVE  Rank(i) \in 1 .. 5 /\ Referring[Rank(i)] = i.op
<1>1. PICK k \in 1 .. 5 : Referring[k] = i.op
  BY DEF Refers, Referring
<1>2. DOMAIN Referring = 1 .. 5
  BY DEF Referring
<1>3. \E j \in DOMAIN Referring : Referring[j] = i.op
  BY <1>1, <1>2
<1> QED
  BY <1>2, <1>3, Zenon DEF Rank

(***************************************************************************)
(* label-instr: whichever form the assembler takes for a reference, the    *)
(* machine goes to the position it meant, from every position of the       *)
(* program; in particular no distance is cut off and none changes its sign.*)
(***************************************************************************)
THEOREM ReferenceDecodes ==
  ASSUME NEW i, Refers(i), NEW form \in 1 .. 3, NEW self \in Nat, NEW pos \in Nat, pos < 256 * 256,
         Applies(i, form, self, pos)
  PROVE  Decode(ReferenceBytes(i, form, self, pos), self) = Does(i.op, pos)
<1>1. PICK k \in 1 .. 5 : k = Rank(i) /\ Referring[k] = i.op
  BY RankIs
<1>2. CASE form = 1 /\ i.op = "jump-toplevel"
  <2>1. PICK l \in 0 .. 15 : l = pos - (self + 1)
    BY <1>2 DEF Applies
  <2>2. PICK b \in 0 .. 255 : b = 128 + l
    OBVIOUS
  <2>3. b \in 128 .. 143 /\ b % 16 = l /\ b % 256 = b
    BY <2>2
  <2>4. Decode(<<b>>, self) = Does("jump-toplevel", self + 1 + (b % 16))
    BY <2>3, ShortDoes
  <2>5. self + 1 + (b % 16) = pos
    BY <2>1, <2>3
  <2>6. (128 + pos - (self + 1)) % 256 = b
    BY <2>1, <2>2, <2>3
  <2>7. ReferenceBytes(i, form, self, pos) = <<(128 + pos - (self + 1)) % 256>>
    BY <1>2 DEF ReferenceBytes, Opcode1
  <2> QED
    BY <1>2, <2>4, <2>5, <2>6, <2>7
<1>3. CASE form = 1 /\ i.op = "goto-if-false"
  <2>1. PICK l \in 0 .. 15 : l = pos - (self + 1)
    BY <1>3 DEF Applies
  <2>2. PICK b \in 0 .. 255 : b = 144 + l
    OBVIOUS
  <2>3. b \in 144 .. 159 /\ b % 16 = l /\ b % 256 = b
    BY <2>2
  <2>4. Decode(<<b>>, self) = Does("goto-if-false", self + 1 + (b % 16))
    BY <2>3, ShortDoes
  <2>5. self + 1 + (b % 16) = pos
    BY <2>1, <2>3
  <2>6. (144 + pos - (self + 1)) % 256 = b
    BY <2>1, <2>2, <2>3
  <2>7. ReferenceBytes(i, form, self, pos) = <<(144 + pos - (self + 1)) % 256>>
    BY <1>3 DEF ReferenceBytes, Opcode1
  <2> QED
    BY <1>3, <2>4, <2>5, <2>6, <2>7
<1>4. CASE form = 2
  <2>1. PICK c \in 0 .. 255 : c = pos - (self + 2) + 128
    BY <1>4 DEF Applies
  <2>2. PICK b \in 0 .. 255 : b = 180 + k
    OBVIOUS
  <2>3. b \in 181 .. 185 /\ b - 180 = k /\ c % 256 = c
    BY <2>2
  <2>4. Decode(<<b, c>>, self) = Does(Referring[b - 180], self + 2 + c - 128)
    BY <2>3, RelativeDoes
  <2>5. self + 2 + c - 128 = pos
    BY <2>1
  <2>6. ReferenceBytes(i, form, self, pos) = <<b, c>>
    <3>1. ReferenceBytes(i, form, self, pos) = <<180 + Rank(i), (pos - (self + 2) + 128) % 256>>
      BY <1>4 DEF ReferenceBytes
    <3> QED
      BY <1>1, <2>1, <2>2, <2>3, <3>1
  <2> QED
    BY <1>1, <2>3, <2>4, <2>5, <2>6
<1>5. CASE form = 3
  <2>1. PICK c \in 0 .. 255, d \in 0 .. 255 : c = pos % 256 /\ d = pos \div 256
    <3>1. pos % 256 \in 0 .. 255 /\ pos \div 256 \in Nat /\ pos = (256 * (pos \div 256)) + (pos % 256)
      OBVIOUS
    <3>2. pos \div 256 \in 0 .. 255
      BY <3>1
    <3>3. pos % 256 \in 0 .. 255
      BY <3>1
    <3> QED
      BY <3>2, <3>3, Zenon
  <2>6. pos = c + 256 * d /\ d % 256 = d
    BY <2>1
  <2>2. PICK b \in 0 .. 255 : b = 175 + k
    OBVIOUS
  <2>3. b \in 176 .. 180 /\ b - 175 = k
    BY <2>2
  <2>4. Decode(<<b, c, d>>, self) = Does(Referring[b - 175], c + 256 * d)
    BY <2>3, AbsoluteDoes
  <2>5. ReferenceBytes(i, form, self, pos) = <<b, c, d>>
    <3>1. ReferenceBytes(i, form, self, pos) = <<175 + Rank(i), pos % 256, (pos \div 256) % 256>>
      BY <1>5 DEF ReferenceBytes
    <3> QED
      BY <1>1, <2>1, <2>2, <2>6, <3>1
  <2> QED
    BY <1>1, <2>3, <2>4, <2>5, <2>6
<1>6. form = 1 => i.op \in {"jump-toplevel", "goto-if-false"}
  BY DEF Applies, HasForm1
<1> QED
  BY <1>2, <1>3, <1>4, <1>5, <1>6

Less == {ss \in Nat \X Nat : ss[1] < ss[2]}

\* A set of natural numbers that is not empty has a smallest one.
LEMMA Smallest ==
  ASSUME NEW S \in SUBSET Nat, S # {}
  PROVE  \E m \in S : \A k \in S : m <= k
<1>1. IsWellFoundedOn(Less, Nat)
  BY NatLessThanWellFounded DEF OpToRel, Less
<1>2. PICK m \in S : \A k \in S : ~(<<k, m>> \in Less)
  BY <1>1, WFMin
<1>3. ASSUME NEW k \in S PROVE m <= k
  <2>1. k \in Nat /\ m \in Nat /\ ~(<<k, m>> \in Less)
    BY <1>2
  <2> QED
    BY <2>1 DEF Less
<1> QED
  BY <1>3

\* f has the sums of the first members of w, from s on.
Adds(f, n, s, w) ==
  f \in [1 .. n -> Nat] /\ \A k \in 1 .. n : f[k] = IF k = 1 THEN s ELSE f[k-1] + w[k-1]

\* There are such sums: by the smallest number of members that have none.
LEMMA RunningSum ==
  ASSUME NEW n \in Nat, NEW s \in Nat, NEW w \in [1 .. n -> Nat]
  PROVE  \E f : Adds(f, n, s, w)
<1> DEFINE Sums(f, i) == f \in [1 .. i -> Nat] /\ \A k \in 1 .. i : f[k] = IF k = 1 THEN s ELSE f[k-1] + w[k-1]
           Bad == {i \in Nat : i <= n /\ ~\E f : Sums(f, i)}
<1>1. SUFFICES ASSUME Bad # {} PROVE FALSE
  <2>1. n \notin Bad
    BY <1>1
  <2>2. \E f : Sums(f, n)
    BY <2>1
  <2> QED
    BY <2>2 DEF Adds
<1>2. PICK i \in Bad : \A j \in Bad : i <= j
  <2> HIDE DEF Sums
  <2>1. Bad \in SUBSET Nat
    OBVIOUS
  <2> HIDE DEF Bad
  <2> QED
    BY <1>1, <2>1, Smallest
<1>3. i # 0
  <2>1. Sums([k \in {} |-> k], 0)
    OBVIOUS
  <2> QED
    BY <1>2, <2>1
<1>4. PICK f : Sums(f, i-1)
  <2>1. i - 1 \in Nat /\ i - 1 <= n /\ i - 1 < i
    BY <1>2, <1>3
  <2> HIDE DEF Sums
  <2> QED
    BY <1>2, <2>1
<1> DEFINE g == [k \in 1 .. i |-> IF k = i THEN (IF i = 1 THEN s ELSE f[i-1] + w[i-1]) ELSE f[k]]
<1>5. Sums(g, i)
  <2>0. i \in Nat /\ i <= n /\ i >= 1
    BY <1>2, <1>3
  <2>1. \A k \in 1 .. i-1 : f[k] \in Nat /\ g[k] = f[k] /\ k \in 1 .. i /\ k # i
    BY <1>4, <2>0
  <2>2. i # 1 => i-1 \in 1 .. i-1 /\ w[i-1] \in Nat
    BY <2>0
  <2>3. g \in [1 .. i -> Nat]
    <3>1. ASSUME NEW k \in 1 .. i PROVE g[k] \in Nat
      <4>1. CASE k = i
        <5>1. g[k] = IF i = 1 THEN s ELSE f[i-1] + w[i-1]
          BY <4>1
        <5> HIDE DEF g
        <5> QED
          BY <2>1, <2>2, <5>1
      <4>2. CASE k # i
        <5>1. k \in 1 .. i-1
          BY <2>0, <4>2
        <5> HIDE DEF g
        <5> QED
          BY <2>1, <5>1
      <4> QED
        BY <4>1, <4>2
    <3> QED
      BY <3>1
  <2>4. ASSUME NEW k \in 1 .. i PROVE g[k] = IF k = 1 THEN s ELSE g[k-1] + w[k-1]
    <3>1. CASE k = i
      BY <2>0, <2>1, <2>2, <3>1
    <3>2. CASE k # i
      <4>1. k \in 1 .. i-1 /\ (k # 1 => k-1 \in 1 .. i-1)
        BY <2>0, <3>2
      <4>2. f[k] = IF k = 1 THEN s ELSE f[k-1] + w[k-1]
        BY <1>4, <4>1
      <4> HIDE DEF g
      <4> QED
        BY <2>1, <4>1, <4>2
    <3> QED
      BY <3>1, <3>2
  <2> QED
    BY <2>3, <2>4
<1> QED
  <2> HIDE DEF Sums, g
  <2> QED
    BY <1>2, <1>5

-----------------------------------------------------------------------------
(* The programs that the assembler gets.                                   *)

Sequence(s) == \E S : s \in Seq(S)

\* A program is a sequence.
LEMMA ProgramIs ==
  ASSUME NEW c, WellFormed(c)
  PROVE  \E n \in Nat : Len(c) = n /\ DOMAIN c = 1 .. n
<1>1. c \in Seq(Range(c))
  BY DEF WellFormed
<1> QED
  BY <1>1

\* At most one reference comes after the last label.
OneTrails(c) ==
  \A j, k \in DOMAIN c :
    j < k /\ Refers(c[j]) /\ Refers(c[k]) => \E m \in DOMAIN c : j < m /\ c[m].op = "label"

\* The instructions that refer to a label, by name.
LEMMA ReferringIs == {Referring[k] : k \in DOMAIN Referring} = {"call-toplevel", "jump-toplevel", "goto", "goto-if-false", "closure"}
<1>1. DOMAIN Referring = 1 .. 5
  BY DEF Referring
<1> QED
  BY <1>1 DEF Referring

\* The forms change the length of the references only.
LEMMA WidthIs ==
  ASSUME WellFormed(code), NEW k \in Items, NEW sz \in [Items -> 0 .. 3]
  PROVE  /\ Refers(code[k]) => Width(k, sz) = sz[k]
         /\ ~Refers(code[k]) => \A other : Width(k, sz) = Width(k, other)
         /\ Width(k, sz) \in Nat
<1>1. ASSUME ~Refers(code[k]), code[k].op # "block" PROVE Len(Bytes(code[k])) \in Nat
  <2>1. CASE code[k].op = "label"
    BY <2>1 DEF Bytes
  <2>2. CASE code[k].op = "datum"
    BY <2>2 DEF Bytes, PushConstant
  <2>3. CASE code[k].op = "entry"
    BY <2>3 DEF Bytes, EntryByte
  <2>4. CASE code[k].op \in PlainOps
    <3>1. Bytes(code[k]) = PlainBytes(Numbered(code[k])) /\ Numbered(code[k]).op = code[k].op
      BY <2>4 DEF Bytes, Numbered, PlainOps
    <3>2. ASSUME NEW i, i.op \in PlainOps PROVE Len(PlainBytes(i)) \in Nat
      BY <3>2 DEF PlainBytes, PlainOps, PushConstant, Global
    <3> QED
      BY <2>4, <3>1, <3>2
  <2> QED
    BY <1>1, <2>1, <2>2, <2>3, <2>4 DEF WellFormed, Items
<1>2. code[k].op = "block" => code[k].n \in Nat /\ ~Refers(code[k])
  BY ReferringIs DEF WellFormed, Items, Refers, Here, PlainOps
<1>3. Refers(code[k]) => sz[k] \in Nat
  BY DEF Items
<1>4. CASE Refers(code[k])
  <2>1. Width(k, sz) = sz[k]
    BY <1>2, <1>4, Zenon DEF Width
  <2> QED
    BY <1>3, <1>4, <2>1, Zenon
<1>5. CASE ~Refers(code[k]) /\ code[k].op = "block"
  BY <1>2, <1>5, Zenon DEF Width
<1>6. CASE ~Refers(code[k]) /\ code[k].op # "block"
  BY <1>1, <1>6, Zenon DEF Width
<1> QED
  BY <1>4, <1>5, <1>6, Zenon

\* An item comes where the one before it ends.
LEMMA PositionsIs ==
  ASSUME WellFormed(code), Start \in Nat, NEW sz \in [Items -> 0 .. 3]
  PROVE  /\ Positions(sz) \in [Items -> Nat]
         /\ \A k \in Items : Positions(sz)[k] = IF k = 1 THEN Start ELSE Positions(sz)[k-1] + Width(k-1, sz)
<1>1. PICK n \in Nat : n = Len(code) /\ Items = 1 .. n
  BY ProgramIs DEF Items
<1> DEFINE w == [k \in 1 .. n |-> Width(k, sz)]
           Body(f) == [k \in 1 .. n |-> IF k = 1 THEN Start ELSE f[k-1] + Width(k-1, sz)]
<1>2. w \in [1 .. n -> Nat]
  BY <1>1, WidthIs
<1>3. PICK f \in [1 .. n -> Nat] : \A k \in 1 .. n : f[k] = IF k = 1 THEN Start ELSE f[k-1] + w[k-1]
  <2> HIDE DEF w
  <2>1. PICK f : Adds(f, n, Start, w)
    BY <1>2, RunningSum
  <2> QED
    BY <2>1 DEF Adds
<1>4. f = Body(f)
  <2>1. ASSUME NEW k \in 1 .. n PROVE f[k] = Body(f)[k]
    <3>1. k # 1 => k-1 \in 1 .. n
      OBVIOUS
    <3> QED
      BY <1>3, <3>1
  <2> QED
    BY <2>1
<1>5. Positions(sz) = CHOOSE h : h = Body(h)
  BY <1>1 DEF Positions
<1>6. Positions(sz) = Body(Positions(sz))
  <2> HIDE DEF Body
  <2> QED
    BY <1>4, <1>5
<1> DEFINE P == Positions(sz)
<1>7. \A k \in 1 .. n : P[k] = IF k = 1 THEN Start ELSE P[k-1] + Width(k-1, sz)
  <2> TAKE k \in 1 .. n
  <2>1. P[k] = Body(P)[k]
    <3> HIDE DEF Body
    <3> QED
      BY <1>6
  <2> HIDE DEF P
  <2> QED
    BY <2>1
<1>8. DOMAIN P = 1 .. n
  BY <1>6
<1>9. \A k \in 1 .. n : P[k] \in Nat
  <2> DEFINE Bad == {k \in 1 .. n : P[k] \notin Nat}
  <2> HIDE DEF P
  <2>1. SUFFICES ASSUME Bad # {} PROVE FALSE
    OBVIOUS
  <2>2. PICK i \in Bad : \A j \in Bad : i <= j
    <3>1. Bad \in SUBSET Nat
      OBVIOUS
    <3> HIDE DEF Bad
    <3> QED
      BY <2>1, <3>1, Smallest
  <2>3. i = 1 \/ (i-1 \in 1 .. n /\ P[i-1] \in Nat)
    BY <2>2
  <2>4. i = 1 \/ Width(i-1, sz) \in Nat
    BY <1>1, <2>3, WidthIs
  <2> QED
    BY <1>7, <2>2, <2>3, <2>4, SMTT(30)
<1>10. P \in [1 .. n -> Nat]
  <2>1. P = [k \in 1 .. n |-> P[k]]
    <3>1. Body(P) = [k \in DOMAIN Body(P) |-> Body(P)[k]]
      OBVIOUS
    <3> HIDE DEF Body
    <3> QED
      BY <1>6, <1>8, <3>1
  <2> HIDE DEF P
  <2> QED
    BY <1>9, <2>1
<1> QED
  BY <1>1, <1>7, <1>10

-----------------------------------------------------------------------------
(* The positions when references grow.                                     *)

\* What larger forms do to the positions from one item to the next.
LEMMA StepIs ==
  ASSUME WellFormed(code), Start \in Nat, NEW s \in [Items -> 0 .. 3], NEW t \in [Items -> 0 .. 3],
         \A k \in References : s[k] <= t[k], NEW k \in Items
  PROVE  /\ k \in Nat /\ Positions(s)[k] \in Nat /\ Positions(t)[k] \in Nat
         /\ k = 1 => Positions(s)[k] = Positions(t)[k]
         /\ k # 1 =>
              /\ k-1 \in Items
              /\ Positions(s)[k-1] \in Nat /\ Positions(t)[k-1] \in Nat
              /\ k-1 \in References =>
                   /\ s[k-1] \in Nat /\ t[k-1] \in Nat /\ s[k-1] <= t[k-1]
                   /\ Positions(s)[k] = Positions(s)[k-1] + s[k-1]
                   /\ Positions(t)[k] = Positions(t)[k-1] + t[k-1]
              /\ k-1 \notin References =>
                   \E w \in Nat : /\ Positions(s)[k] = Positions(s)[k-1] + w
                                  /\ Positions(t)[k] = Positions(t)[k-1] + w
<1> DEFINE P == Positions(s)
           Q == Positions(t)
<1>1. PICK n \in Nat : Items = 1 .. n
  BY ProgramIs DEF Items
<1>2. \A j \in Items : /\ P[j] \in Nat /\ Q[j] \in Nat
                       /\ P[j] = IF j = 1 THEN Start ELSE P[j-1] + Width(j-1, s)
                       /\ Q[j] = IF j = 1 THEN Start ELSE Q[j-1] + Width(j-1, t)
  BY PositionsIs
<1> HIDE DEF P, Q
<1>3. k \in Nat /\ P[k] \in Nat /\ Q[k] \in Nat /\ (k = 1 => P[k] = Q[k])
  BY <1>1, <1>2
<1>4. ASSUME k # 1
      PROVE  /\ k-1 \in Items /\ P[k-1] \in Nat /\ Q[k-1] \in Nat
             /\ P[k] = P[k-1] + Width(k-1, s) /\ Q[k] = Q[k-1] + Width(k-1, t)
  <2>1. k-1 \in Items
    BY <1>1, <1>4
  <2> QED
    BY <1>2, <1>4, <2>1
<1>5. ASSUME k # 1, k-1 \in References
      PROVE  /\ s[k-1] \in Nat /\ t[k-1] \in Nat /\ s[k-1] <= t[k-1]
             /\ Width(k-1, s) = s[k-1] /\ Width(k-1, t) = t[k-1]
  <2>1. k-1 \in Items /\ Refers(code[k-1])
    BY <1>5 DEF References
  <2>2. s[k-1] \in Nat /\ t[k-1] \in Nat /\ s[k-1] <= t[k-1]
    BY <1>5, <2>1
  <2> QED
    BY <2>1, <2>2, WidthIs
<1>6. ASSUME k # 1, k-1 \notin References
      PROVE  \E w \in Nat : Width(k-1, s) = w /\ Width(k-1, t) = w
  <2>1. k-1 \in Items /\ ~Refers(code[k-1])
    BY <1>4, <1>6 DEF References
  <2> QED
    BY <2>1, WidthIs
<1> QED
  <2>1. ASSUME k # 1, k-1 \in References
        PROVE  P[k] = P[k-1] + s[k-1] /\ Q[k] = Q[k-1] + t[k-1]
    BY <1>4, <1>5, <2>1
  <2>2. ASSUME k # 1, k-1 \notin References
        PROVE  \E w \in Nat : P[k] = P[k-1] + w /\ Q[k] = Q[k-1] + w
    BY <1>4, <1>6, <2>2
  <2> QED
    BY <1>3, <1>4, <1>5, <2>1, <2>2 DEF P, Q

\* Positions grow with the references before them, and only with these.
LEMMA Growth ==
  ASSUME WellFormed(code), Start \in Nat, NEW s \in [Items -> 0 .. 3], NEW t \in [Items -> 0 .. 3],
         \A k \in References : s[k] <= t[k]
  PROVE  /\ \A k \in Items : Positions(s)[k] <= Positions(t)[k]
         /\ \A k \in Items, j \in References : j < k /\ s[j] < t[j] => Positions(s)[k] < Positions(t)[k]
         /\ \A k \in Items : Positions(s)[k] < Positions(t)[k] => \E j \in References : j < k /\ s[j] < t[j]
<1> DEFINE P == Positions(s)
           Q == Positions(t)
           Step(k) ==
             /\ k \in Nat /\ P[k] \in Nat /\ Q[k] \in Nat
             /\ k = 1 => P[k] = Q[k]
             /\ k # 1 =>
                  /\ k-1 \in Items
                  /\ P[k-1] \in Nat /\ Q[k-1] \in Nat
                  /\ k-1 \in References =>
                       /\ s[k-1] \in Nat /\ t[k-1] \in Nat /\ s[k-1] <= t[k-1]
                       /\ P[k] = P[k-1] + s[k-1]
                       /\ Q[k] = Q[k-1] + t[k-1]
                  /\ k-1 \notin References => \E w \in Nat : P[k] = P[k-1] + w /\ Q[k] = Q[k-1] + w
           Grown(k) == \E j \in References : j < k /\ s[j] < t[j]
           Holds(k) == P[k] <= Q[k] /\ (Grown(k) <=> P[k] < Q[k])
           Bad == {k \in Items : ~Holds(k)}
<1>1. \A k \in Items : Step(k)
  BY StepIs
<1>2. References \subseteq Items /\ Items \subseteq Nat
  <2>1. PICK n \in Nat : Items = 1 .. n
    BY ProgramIs DEF Items
  <2> QED
    BY <2>1 DEF References
<1>3. \A k \in Items : Holds(k)
  <2>1. SUFFICES ASSUME Bad # {} PROVE FALSE
    <3> HIDE DEF Holds
    <3> QED
      OBVIOUS
  <2>2. PICK i \in Items : ~Holds(i) /\ \A j \in Bad : i <= j
    <3> HIDE DEF Holds
    <3>1. Bad \in SUBSET Nat
      BY <1>2
    <3>2. PICK i \in Bad : \A j \in Bad : i <= j
      <4> HIDE DEF Bad
      <4> QED
        BY <2>1, <3>1, Smallest
    <3> QED
      BY <3>2
  <2>3. Step(i)
    BY <1>1
  <2>4. i # 1 => Holds(i-1)
    <3> SUFFICES ASSUME i # 1 PROVE i-1 \notin Bad
      <4> HIDE DEF Holds
      <4> QED
        BY <2>3
    <3> QED
      BY <2>2, <2>3
  <2> HIDE DEF P, Q
  <2>5. CASE i = 1
    <3>1. Items = 1 .. Len(code) /\ Len(code) \in Nat
      BY ProgramIs DEF Items
    <3>2. ~Grown(1)
      BY <1>2, <3>1
    <3> QED
      BY <2>2, <2>3, <2>5, <3>2
  <2>6. CASE i # 1 /\ i-1 \in References
    <3>1. Grown(i) <=> (Grown(i-1) \/ s[i-1] < t[i-1])
      BY <1>2, <2>3, <2>6
    <3> HIDE DEF Grown
    <3> QED
      BY <2>2, <2>3, <2>4, <2>6, <3>1
  <2>7. CASE i # 1 /\ i-1 \notin References
    <3>1. Grown(i) <=> Grown(i-1)
      BY <1>2, <2>3, <2>7
    <3> HIDE DEF Grown
    <3> QED
      BY <2>2, <2>3, <2>4, <2>7, <3>1
  <2> QED
    BY <2>5, <2>6, <2>7
<1>4. \A k \in Items : P[k] <= Q[k] /\ ((\E j \in References : j < k /\ s[j] < t[j]) <=> P[k] < Q[k])
  BY <1>3
<1> HIDE DEF P, Q
<1> QED
  <2>1. /\ \A k \in Items : P[k] <= Q[k]
        /\ \A k \in Items, j \in References : j < k /\ s[j] < t[j] => P[k] < Q[k]
        /\ \A k \in Items : P[k] < Q[k] => \E j \in References : j < k /\ s[j] < t[j]
    BY <1>4
  <2> QED
    BY <2>1 DEF P, Q

\* Where a label is.
LEMMA LabelIs ==
  ASSUME WellFormed(code), NEW at, NEW m \in Labelled
  PROVE  /\ LabelsAt(at)[code[m].to] = at[m]
         /\ m \in Items /\ code[m].op = "label"
<1>1. m \in Items /\ code[m].op = "label" /\ code[m] = Here(code[m].to)
  BY ReferringIs DEF Labelled, WellFormed, Items, Refers, PlainOps
<1>2. PICK c : c = CHOOSE k \in Items : code[k] = Here(code[m].to)
  OBVIOUS
<1>3. c \in Items /\ code[c] = Here(code[m].to)
  BY <1>1, <1>2
<1>4. c = m
  BY <1>1, <1>3 DEF WellFormed, Items
<1> QED
  BY <1>1, <1>2, <1>4 DEF LabelsAt

\* A reference has a label.
LEMMA TargetIs ==
  ASSUME WellFormed(code), NEW k \in References
  PROVE  \E m \in Labelled : code[m].to = code[k].to
<1>1. Refers(code[k]) /\ k \in Items
  BY DEF References
<1>2. code[k].op \notin {"label", "block", "datum", "entry"} \cup PlainOps
  BY <1>1, ReferringIs DEF Refers, PlainOps
<1>3. PICK j \in Items : code[j] = Here(code[k].to)
  BY <1>1, <1>2 DEF WellFormed, Items
<1> QED
  BY <1>3 DEF Labelled, Here

(***************************************************************************)
(* When references have grown and no label has moved, no reference has.    *)
(***************************************************************************)
LEMMA Settled ==
  ASSUME WellFormed(code), OneTrails(code), Start \in Nat,
         NEW s \in [Items -> 0 .. 3], NEW t \in [Items -> 0 .. 3],
         \A k \in References : s[k] <= t[k], LabelsAt(Positions(s)) = LabelsAt(Positions(t))
  PROVE  \A k \in References : Positions(s)[k] = Positions(t)[k]
<1> DEFINE P == Positions(s)
           Q == Positions(t)
<1>1. /\ \A k \in Items : P[k] \in Nat /\ Q[k] \in Nat
      /\ References \subseteq Items
  <2>1. \A k \in Items : P[k] \in Nat /\ Q[k] \in Nat
    BY PositionsIs
  <2> HIDE DEF P, Q
  <2> QED
    BY <2>1 DEF References
<1>2. /\ \A k \in Items : P[k] <= Q[k]
      /\ \A k \in Items, j \in References : j < k /\ s[j] < t[j] => P[k] < Q[k]
      /\ \A k \in Items : P[k] < Q[k] => \E j \in References : j < k /\ s[j] < t[j]
  BY Growth
<1>3. \A m \in Labelled : P[m] = Q[m] /\ m \in Items
  BY LabelIs
<1> HIDE DEF P, Q
<1>4. SUFFICES ASSUME NEW k \in References, P[k] # Q[k] PROVE FALSE
  BY DEF P, Q
<1>5. PICK j \in References : j < k /\ s[j] < t[j]
  BY <1>1, <1>2, <1>4
<1>6. PICK m \in Labelled : j < m
  BY <1>5 DEF OneTrails, Labelled, References, Items
<1> QED
  BY <1>1, <1>2, <1>3, <1>5, <1>6

\* There is a form that applies, the last one at least.
LEMMA FormIs ==
  ASSUME NEW k, size[k] \in 0 .. 3, NEW at
  PROVE  /\ Form(k, at) \in 1 .. 3 /\ size[k] <= Form(k, at)
         /\ Applies(code[k], Form(k, at), at[k], label[code[k].to])
<1> DEFINE Ok(f) == f >= size[k] /\ Applies(code[k], f, at[k], label[code[k].to])
<1>1. Ok(3)
  BY DEF Applies
<1>2. \E f \in 1 .. 3 : Ok(f) /\ \A g \in 1 .. f-1 : g >= size[k] => ~Applies(code[k], g, at[k], label[code[k].to])
  <2> HIDE DEF Ok
  <2>1. \E f \in 1 .. 3 : Ok(f) /\ \A g \in 1 .. f-1 : ~Ok(g)
    <3>1. CASE Ok(1)
      BY <3>1
    <3>2. CASE ~Ok(1) /\ Ok(2)
      BY <3>2
    <3>3. CASE ~Ok(1) /\ ~Ok(2)
      BY <1>1, <3>3
    <3> QED
      BY <3>1, <3>2, <3>3
  <2> QED
    BY <2>1 DEF Ok
<1>3. Form(k, at) = CHOOSE f \in 1 .. 3 :
        /\ f >= size[k] /\ Applies(code[k], f, at[k], label[code[k].to])
        /\ \A g \in 1 .. f-1 : g >= size[k] => ~Applies(code[k], g, at[k], label[code[k].to])
  BY DEF Form
<1> QED
  BY <1>2, <1>3

-----------------------------------------------------------------------------
(* The descriptors of constants and globals.                               *)

Descriptor(T) == [obj : T, count : Nat]
Pool(s) == \E T : s \in Seq(Descriptor(T))
Has(s, o) == \E k \in DOMAIN s : s[k].obj = o

\* What is known of a pool.
LEMMA PoolIs ==
  ASSUME NEW s, Pool(s)
  PROVE  \E n \in Nat : /\ Len(s) = n /\ DOMAIN s = 1 .. n
                        /\ \A k \in 1 .. n : s[k] = [obj |-> s[k].obj, count |-> s[k].count] /\ s[k].count \in Nat
<1>1. PICK T : s \in Seq(Descriptor(T))
  BY DEF Pool
<1>2. PICK n \in Nat : Len(s) = n /\ DOMAIN s = 1 .. n
  BY <1>1
<1>3. \A k \in 1 .. n : s[k] \in Descriptor(T)
  BY <1>1, <1>2
<1> QED
  BY <1>2, <1>3 DEF Descriptor

\* What makes a pool.
LEMMA IsPool ==
  ASSUME NEW n \in Nat, NEW s, DOMAIN s = 1 .. n, s = [k \in 1 .. n |-> s[k]],
         NEW T, \A k \in 1 .. n : s[k] \in Descriptor(T)
  PROVE  Pool(s)
<1>1. s \in [1 .. n -> Descriptor(T)]
  OBVIOUS
<1>2. s \in Seq(Descriptor(T))
  BY <1>1
<1> QED
  BY <1>2 DEF Pool

\* The descriptors when "more" references to o have been counted.
Bumped(s, o, more) == [k \in DOMAIN s |-> [s[k] EXCEPT !.count = @ + (IF s[k].obj = o THEN more ELSE 0)]]

\* Counting a reference leaves the objects as they are.
LEMMA CountedOnes ==
  ASSUME NEW T, NEW s, s \in Seq(Descriptor(T)), NEW o, NEW more \in Nat, NEW t, t = Bumped(s, o, more)
  PROVE  t \in Seq(Descriptor(T)) /\ \A x : Has(s, x) => Has(t, x)
<1>1. PICK n \in Nat : Len(s) = n /\ DOMAIN s = 1 .. n
  OBVIOUS
<1>2. ASSUME NEW k \in 1 .. n
      PROVE  t[k] \in Descriptor(T) /\ t[k].obj = s[k].obj
  <2>1. s[k] \in Descriptor(T)
    BY <1>1
  <2>2. t[k] = [s[k] EXCEPT !.count = s[k].count + (IF s[k].obj = o THEN more ELSE 0)]
    BY <1>1 DEF Bumped
  <2>3. s[k].count + (IF s[k].obj = o THEN more ELSE 0) \in Nat
    BY <2>1 DEF Descriptor
  <2>4. PICK c \in Nat : c = s[k].count + (IF s[k].obj = o THEN more ELSE 0)
    BY <2>3
  <2>5. t[k] = [s[k] EXCEPT !.count = c]
    BY <2>2, <2>4, Zenon
  <2> QED
    BY <2>1, <2>5 DEF Descriptor
<1>3. DOMAIN t = 1 .. n /\ t = [k \in 1 .. n |-> t[k]]
  BY <1>1 DEF Bumped
<1>4. t \in [1 .. n -> Descriptor(T)]
  BY <1>2, <1>3
<1>5. t \in Seq(Descriptor(T))
  BY <1>4
<1> QED
  BY <1>1, <1>2, <1>3, <1>5 DEF Has

\* A descriptor that is new is put behind the others.
LEMMA Appended ==
  ASSUME NEW T, NEW s, s \in Seq(Descriptor(T)), NEW o, NEW c \in Nat, NEW t, t = Append(s, [obj |-> o, count |-> c])
  PROVE  t \in Seq(Descriptor(T \cup {o})) /\ Has(t, o) /\ \A x : Has(s, x) => Has(t, x)
<1> DEFINE e == [obj |-> o, count |-> c]
           D == Descriptor(T \cup {o})
<1>1. Descriptor(T) \subseteq D /\ e \in D /\ e.obj = o
  BY DEF Descriptor
<1> HIDE DEF D, e
<1>2. s \in Seq(D)
  BY <1>1
<1>3. t = Append(s, e)
  BY DEF e
<1>4. t \in Seq(D)
  BY <1>1, <1>2, <1>3
<1>5. PICK n \in Nat : Len(s) = n /\ DOMAIN s = 1 .. n
  OBVIOUS
<1>6. DOMAIN t = 1 .. n+1 /\ t[n+1] = e /\ \A k \in 1 .. n : t[k] = s[k]
  BY <1>2, <1>3, <1>5
<1>7. Has(t, o)
  BY <1>1, <1>5, <1>6 DEF Has
<1> QED
  BY <1>4, <1>5, <1>6, <1>7 DEF Has, D

\* add-constant keeps what is there, and adds what cannot be encoded directly.
LEMMA AddedIs ==
  ASSUME NEW pool, Pool(pool), NEW d, NEW c
  PROVE  /\ Pool(Added(pool, d, c))
         /\ \A x : Has(pool, x) => Has(Added(pool, d, c), x)
         /\ IsDirect(Translated(d)) \/ Has(Added(pool, d, c), Translated(d))
<1>1. PICK o : o = Translated(d)
  OBVIOUS
<1>2. PICK one \in Nat : one = IF c THEN 1 ELSE 0
  OBVIOUS
<1>3. PICK T : pool \in Seq(Descriptor(T))
  BY DEF Pool
<1>4. CASE IsDirect(o)
  <2>1. Added(pool, d, c) = pool
    BY <1>1, <1>4 DEF Added
  <2> QED
    BY <1>1, <1>4, <2>1
<1>5. CASE ~IsDirect(o) /\ Has(pool, o)
  <2>1. Added(pool, d, c) = Bumped(pool, o, one)
    BY <1>1, <1>2, <1>5, Zenon DEF Added, Has, Bumped
  <2>2. Added(pool, d, c) \in Seq(Descriptor(T)) /\ \A x : Has(pool, x) => Has(Added(pool, d, c), x)
    BY <1>3, <2>1, CountedOnes
  <2> QED
    BY <1>1, <1>5, <2>2 DEF Pool
<1>6. CASE ~IsDirect(o) /\ ~Has(pool, o)
  <2>1. Added(pool, d, c) = Append(pool, [obj |-> o, count |-> one])
    BY <1>1, <1>2, <1>6, Zenon DEF Added, Has
  <2>2. /\ Added(pool, d, c) \in Seq(Descriptor(T \cup {o})) /\ Has(Added(pool, d, c), o)
        /\ \A x : Has(pool, x) => Has(Added(pool, d, c), x)
    BY <1>3, <2>1, Appended
  <2> QED
    BY <1>1, <2>2 DEF Pool
<1> QED
  BY <1>4, <1>5, <1>6

\* add-global keeps what is there, and adds the variable.
LEMMA CountedIs ==
  ASSUME NEW T, NEW pool, pool \in Seq(Descriptor(T)), NEW o \in T
  PROVE  /\ Counted(pool, o) \in Seq(Descriptor(T))
         /\ \A x : Has(pool, x) => Has(Counted(pool, o), x)
         /\ Has(Counted(pool, o), o)
<1>1. CASE Has(pool, o)
  <2>1. Counted(pool, o) = Bumped(pool, o, 1)
    BY <1>1, Zenon DEF Counted, Has, Bumped
  <2> QED
    BY <1>1, <2>1, CountedOnes
<1>2. CASE ~Has(pool, o)
  <2>1. Counted(pool, o) = Append(pool, [obj |-> o, count |-> 1])
    BY <1>2, Zenon DEF Counted, Has
  <2>2. T \cup {o} = T
    OBVIOUS
  <2> QED
    BY <2>1, <2>2, Appended
<1> QED
  BY <1>1, <1>2

\* Sorting puts every descriptor somewhere.
LEMMA SortedIs ==
  ASSUME NEW pool, Pool(pool)
  PROVE  /\ Pool(SortConstants(pool))
         /\ \A x : Has(pool, x) => Has(SortConstants(pool), x)
<1> DEFINE before(j, k) == pool[j].count > pool[k].count \/ (pool[j].count = pool[k].count /\ j < k)
           Ahead(k) == {j \in DOMAIN pool : before(j, k)}
           rank == [k \in DOMAIN pool |-> 1 + Cardinality(Ahead(k))]
           Sorted == [m \in DOMAIN pool |-> pool[CHOOSE k \in DOMAIN pool : rank[k] = m]]
<1>1. PICK T : pool \in Seq(Descriptor(T))
  BY DEF Pool
<1>2. PICK n \in Nat : Len(pool) = n /\ DOMAIN pool = 1 .. n
  BY <1>1
<1>3. \A k \in 1 .. n : pool[k] \in Descriptor(T) /\ pool[k].count \in Nat
  <2>1. \A k \in 1 .. n : pool[k] \in Descriptor(T)
    BY <1>1, <1>2
  <2> QED
    BY <2>1 DEF Descriptor
<1>4. SortConstants(pool) = Sorted
  BY DEF SortConstants
<1>5. \A k \in 1 .. n : Ahead(k) \subseteq (1 .. n) \ {k}
  BY <1>2, <1>3
<1>6. IsFiniteSet(1 .. n) /\ Cardinality(1 .. n) = n
  BY FS_Interval
<1>7. ASSUME NEW k \in 1 .. n
      PROVE  IsFiniteSet(Ahead(k)) /\ Cardinality(Ahead(k)) \in 0 .. n-1
  <2> HIDE DEF Ahead
  <2>1. IsFiniteSet((1 .. n) \ {k}) /\ Cardinality((1 .. n) \ {k}) = n - 1
    BY <1>6, FS_RemoveElement
  <2>2. IsFiniteSet(Ahead(k)) /\ Cardinality(Ahead(k)) <= n - 1
    BY <1>5, <2>1, FS_Subset
  <2>3. Cardinality(Ahead(k)) \in Nat
    BY <2>2, FS_CardinalityType
  <2> QED
    BY <2>2, <2>3
<1>8. ASSUME NEW j \in 1 .. n, NEW k \in 1 .. n, before(j, k)
      PROVE  Cardinality(Ahead(j)) < Cardinality(Ahead(k))
  <2>1. Ahead(j) \subseteq Ahead(k) \ {j} /\ j \in Ahead(k)
    BY <1>2, <1>3, <1>8
  <2> HIDE DEF Ahead
  <2>2. IsFiniteSet(Ahead(k) \ {j}) /\ Cardinality(Ahead(k) \ {j}) = Cardinality(Ahead(k)) - 1
    BY <1>7, <2>1, FS_RemoveElement
  <2>3. Cardinality(Ahead(j)) <= Cardinality(Ahead(k) \ {j})
    BY <2>1, <2>2, FS_Subset
  <2>4. Cardinality(Ahead(j)) \in Nat /\ Cardinality(Ahead(k)) \in Nat
    BY <1>7
  <2> QED
    BY <2>2, <2>3, <2>4
<1>9. \A j, k \in 1 .. n : j # k => before(j, k) \/ before(k, j)
  BY <1>3
<1> HIDE DEF before, Ahead
<1>10. \A k \in 1 .. n : rank[k] \in 1 .. n
  BY <1>2, <1>7
<1>11. \A j, k \in 1 .. n : rank[j] = rank[k] => j = k
  <2> SUFFICES ASSUME NEW j \in 1 .. n, NEW k \in 1 .. n, j # k PROVE rank[j] # rank[k]
    OBVIOUS
  <2>1. Cardinality(Ahead(j)) # Cardinality(Ahead(k))
    BY <1>7, <1>8, <1>9
  <2> QED
    BY <1>2, <1>7, <2>1
<1> HIDE DEF rank
<1>12. \A k \in 1 .. n : Sorted[rank[k]] = pool[k]
  <2> TAKE k \in 1 .. n
  <2>1. (CHOOSE h \in DOMAIN pool : rank[h] = rank[k]) = k
    BY <1>2, <1>11
  <2> QED
    BY <1>2, <1>10, <2>1
<1>13. \A x : Has(pool, x) => Has(Sorted, x)
  <2>1. DOMAIN Sorted = 1 .. n
    BY <1>2
  <2> HIDE DEF Sorted
  <2> QED
    BY <1>2, <1>10, <1>12, <2>1 DEF Has
<1>14. \A m \in 1 .. n : \E k \in 1 .. n : rank[k] = m
  <2>1. rank \in [1 .. n -> 1 .. n]
    <3>1. rank = [k \in 1 .. n |-> rank[k]]
      BY <1>2 DEF rank
    <3> QED
      BY <1>10, <3>1
  <2>2. rank \in Injection(1 .. n, 1 .. n)
    BY <1>11, <2>1 DEF Injection, IsInjective
  <2>3. rank \in Surjection(1 .. n, 1 .. n)
    BY <1>6, <2>2, FS_Injection
  <2> QED
    BY <2>3 DEF Surjection
<1>15. \A m \in 1 .. n : Sorted[m] \in Descriptor(T)
  <2> HIDE DEF Sorted
  <2> QED
    BY <1>3, <1>12, <1>14
<1>16. DOMAIN Sorted = 1 .. n /\ Sorted = [m \in 1 .. n |-> Sorted[m]]
  BY <1>2
<1> HIDE DEF Sorted
<1>17. Pool(Sorted)
  BY <1>15, <1>16, IsPool
<1> QED
  BY <1>4, <1>13, <1>17

-----------------------------------------------------------------------------
(* Their numbers.                                                          *)

\* A variable with a descriptor has a number below that of the descriptors.
LEMMA IndexIs ==
  ASSUME NEW pool, Pool(pool), NEW x, Has(pool, x)
  PROVE  IndexOf(pool, x) \in 0 .. Len(pool) - 1
<1>1. PICK n \in Nat : Len(pool) = n /\ DOMAIN pool = 1 .. n
  BY PoolIs
<1>2. PICK k : k = CHOOSE j \in DOMAIN pool : pool[j].obj = x
  OBVIOUS
<1>3. k \in 1 .. n
  BY <1>1, <1>2 DEF Has
<1>4. IndexOf(pool, x) = k - 1
  BY <1>2 DEF IndexOf
<1> QED
  BY <1>1, <1>3, <1>4

\* With fewer than 256 constants, an encoding fits into twelve bits.
LEMMA EncodeIs ==
  ASSUME NEW pool, Pool(pool), Len(pool) < 256, NEW d, IsDirect(Translated(d)) \/ Has(pool, Translated(d))
  PROVE  EncodeConstant(d, pool) \in Nat /\ EncodeConstant(d, pool) < 16 * 256
<1>1. PICK o : o = Translated(d)
  OBVIOUS
<1>2. CASE IsDirect(o)
  <2>1. EncodeConstant(d, pool) = EncodeDirect(o)
    BY <1>1, <1>2 DEF EncodeConstant
  <2>2. CASE Kind(o) = "integer"
    <3>1. o \notin {False, True, Null}
      BY <2>2 DEF Kind, False, True, Null
    <3>2. o[2] \in -1 .. 255
      BY <1>2, <3>1 DEF IsDirect
    <3>3. EncodeDirect(o) = o[2] + 4
      BY <2>2, Zenon DEF EncodeDirect
    <3>4. \A v \in -1 .. 255 : v + 4 \in Nat /\ v + 4 < 16 * 256
      OBVIOUS
    <3>5. o[2] + 4 \in Nat /\ o[2] + 4 < 16 * 256
      BY <3>2, <3>4, Zenon
    <3> QED
      BY <2>1, <3>3, <3>5, Zenon
  <2>3. CASE Kind(o) # "integer"
    <3>1. EncodeDirect(o) = IF o = False THEN 0 ELSE IF o = True THEN 1 ELSE 2
      BY <2>3, Zenon DEF EncodeDirect
    <3>2. EncodeDirect(o) \in {0, 1, 2}
      BY <3>1, Zenon
    <3> QED
      BY <2>1, <3>2
  <2> QED
    BY <2>2, <2>3
<1>3. CASE ~IsDirect(o)
  <2>1. PICK n \in Nat : Len(pool) = n /\ DOMAIN pool = 1 .. n
    BY PoolIs
  <2>2. PICK k : k = CHOOSE j \in DOMAIN pool : pool[j].obj = o
    OBVIOUS
  <2>3. k \in 1 .. n
    BY <1>1, <1>3, <2>1, <2>2 DEF Has
  <2>4. EncodeConstant(d, pool) = FirstRom + k - 1
    BY <1>1, <1>3, <2>2 DEF EncodeConstant
  <2> QED
    BY <2>1, <2>3, <2>4 DEF FirstRom
<1> QED
  BY <1>2, <1>3

-----------------------------------------------------------------------------
(* Folds, which go through the last member of a set of positions first.    *)

\* The largest member of a set of positions.
LEMMA MaxIs ==
  ASSUME NEW n \in Nat, NEW s \in SUBSET (1 .. n), s # {}
  PROVE  Max(s) \in s /\ \A y \in s : y <= Max(s)
<1> DEFINE Up == {k \in Nat : n - k \in s}
<1>0. \A y \in s : y \in Nat /\ n - y \in Nat /\ n - (n - y) = y
  OBVIOUS
<1>1. Up \in SUBSET Nat /\ Up # {}
  BY <1>0
<1>2. PICK m \in Up : \A k \in Up : m <= k
  <2> HIDE DEF Up
  <2> QED
    BY <1>1, Smallest
<1>3. PICK x \in s : x = n - m /\ m \in Nat
  BY <1>2
<1>4. \A y \in s : x >= y
  <2> TAKE y \in s
  <2>1. n - y \in Up
    BY <1>0
  <2>2. m <= n - y
    BY <1>2, <2>1
  <2> QED
    BY <1>0, <1>3, <2>2
<1>5. Max(s) = CHOOSE z \in s : \A y \in s : z >= y
  BY DEF Max
<1>6. Max(s) \in s /\ \A y \in s : Max(s) >= y
  BY <1>4, <1>5
<1> QED
  BY <1>6

Folds(it, n, base, G) ==
  \A s \in SUBSET (1 .. n) : it[s] = IF s = {} THEN base ELSE G[<<it[s \ {Max(s)}], Max(s)>>]

\* There is a function that folds G: by the smallest n for which there is none.
LEMMA FoldExists ==
  ASSUME NEW n \in Nat, NEW V, NEW base \in V, NEW G \in [V \X (1 .. n) -> V]
  PROVE  \E it \in [SUBSET (1 .. n) -> V] : Folds(it, n, base, G)
<1> DEFINE Found(i) == \E it \in [SUBSET (1 .. i) -> V] : Folds(it, i, base, G)
           Bad == {i \in Nat : i <= n /\ ~Found(i)}
<1>1. SUFFICES ASSUME Bad # {} PROVE FALSE
  <2>1. n \notin Bad
    BY <1>1
  <2>2. Found(n)
    <3> HIDE DEF Found
    <3> QED
      BY <2>1
  <2> QED
    BY <2>2
<1>2. PICK i \in Bad : \A j \in Bad : i <= j
  <2> HIDE DEF Found
  <2>1. Bad \in SUBSET Nat
    OBVIOUS
  <2> HIDE DEF Bad
  <2> QED
    BY <1>1, <2>1, Smallest
<1>3. i # 0
  <2>1. SUBSET (1 .. 0) = {{}}
    OBVIOUS
  <2> DEFINE it == [s \in SUBSET (1 .. 0) |-> base]
  <2>2. it \in [SUBSET (1 .. 0) -> V] /\ Folds(it, 0, base, G)
    BY <2>1 DEF Folds
  <2>3. Found(0)
    BY <2>2
  <2> HIDE DEF Found
  <2> QED
    BY <1>2, <2>3
<1>4. i \in Nat /\ i <= n /\ i - 1 \in Nat /\ Found(i - 1) /\ ~Found(i)
  <2> HIDE DEF Found
  <2> QED
    BY <1>2, <1>3
<1>5. PICK f \in [SUBSET (1 .. i-1) -> V] : Folds(f, i-1, base, G)
  BY <1>4
<1> DEFINE g == [s \in SUBSET (1 .. i) |-> IF i \in s THEN G[<<f[s \ {i}], i>>] ELSE f[s]]
<1>6. \A s \in SUBSET (1 .. i) : i \notin s => s \in SUBSET (1 .. i-1)
  BY <1>4
<1>7. \A s \in SUBSET (1 .. i) : s \ {i} \in SUBSET (1 .. i-1)
  BY <1>4
<1>8. g \in [SUBSET (1 .. i) -> V]
  <2>1. ASSUME NEW s \in SUBSET (1 .. i) PROVE g[s] \in V
    <3>1. CASE i \in s
      <4>1. f[s \ {i}] \in V /\ i \in 1 .. n
        BY <1>4, <1>5, <1>7
      <4>2. G[<<f[s \ {i}], i>>] \in V
        BY <4>1
      <4> QED
        BY <3>1, <4>2
    <3>2. CASE i \notin s
      BY <1>5, <1>6, <3>2
    <3> QED
      BY <3>1, <3>2
  <2> QED
    BY <2>1
<1>9. ASSUME NEW s \in SUBSET (1 .. i)
      PROVE  g[s] = IF s = {} THEN base ELSE G[<<g[s \ {Max(s)}], Max(s)>>]
  <2>1. CASE i \in s
    <3>1. Max(s) \in s /\ \A y \in s : y <= Max(s)
      BY <1>4, <2>1, MaxIs
    <3>2. Max(s) = i
      <4>1. PICK x \in s : x = Max(s) /\ \A y \in s : y <= x
        BY <3>1
      <4>2. x \in 1 .. i /\ i <= x
        BY <2>1, <4>1
      <4> QED
        BY <1>4, <4>1, <4>2
    <3>3. s \ {i} \in SUBSET (1 .. i) /\ i \notin s \ {i}
      OBVIOUS
    <3>4. g[s \ {i}] = f[s \ {i}]
      BY <3>3
    <3>5. g[s] = G[<<f[s \ {i}], i>>]
      BY <2>1
    <3> QED
      BY <2>1, <3>2, <3>4, <3>5
  <2>2. CASE i \notin s
    <3>1. s \in SUBSET (1 .. i-1) /\ g[s] = f[s]
      BY <1>6, <2>2
    <3>2. f[s] = IF s = {} THEN base ELSE G[<<f[s \ {Max(s)}], Max(s)>>]
      BY <1>5, <3>1 DEF Folds
    <3>3. s \ {Max(s)} \in SUBSET (1 .. i) /\ i \notin s \ {Max(s)}
      BY <2>2
    <3>4. g[s \ {Max(s)}] = f[s \ {Max(s)}]
      BY <3>3
    <3> QED
      BY <3>1, <3>2, <3>4
  <2> QED
    BY <2>1, <2>2
<1>10. Folds(g, i, base, G)
  <2> HIDE DEF g
  <2> QED
    BY <1>9 DEF Folds
<1> QED
  <2> HIDE DEF g
  <2> QED
    BY <1>4, <1>8, <1>10

-----------------------------------------------------------------------------
(* The globals that the code names.                                        *)

\* One instruction.
LEMMA NamingOnes ==
  ASSUME NEW T, NEW pool, pool \in Seq(Descriptor(T)), NEW i, "var" \in DOMAIN i => i.var \in T
  PROVE  /\ Naming(pool, i) \in Seq(Descriptor(T))
         /\ \A x : Has(pool, x) => Has(Naming(pool, i), x)
         /\ "var" \in DOMAIN i => Has(Naming(pool, i), i.var)
<1>1. CASE "var" \in DOMAIN i
  BY <1>1, CountedIs DEF Naming
<1>2. CASE "var" \notin DOMAIN i
  BY <1>2 DEF Naming
<1> QED
  BY <1>1, <1>2

\* The fold over the code finds every global that an instruction names.
LEMMA NamingIs ==
  ASSUME NEW c, NEW n \in Nat, DOMAIN c = 1 .. n
  PROVE  /\ Pool(FoldLeft(Naming, << >>, c))
         /\ \A k \in 1 .. n : "var" \in DOMAIN c[k] => Has(FoldLeft(Naming, << >>, c), c[k].var)
<1> DEFINE T == {c[k].var : k \in 1 .. n}
           V == Seq(Descriptor(T))
           G == [p \in V \X (1 .. n) |-> Naming(p[1], c[p[2]])]
           Rec(it) == [s \in SUBSET (1 .. n) |-> IF s = {} THEN << >> ELSE Naming(it[s \ {Max(s)}], c[Max(s)])]
           fold == CHOOSE it : it = Rec(it)
<1>1. FoldLeft(Naming, << >>, c) = fold[1 .. n]
  BY DEF FoldLeft, MapThenFoldSet
<1>2. \A k \in 1 .. n : "var" \in DOMAIN c[k] => c[k].var \in T
  OBVIOUS
<1> HIDE DEF T
<1>3. << >> \in V
  OBVIOUS
<1> HIDE DEF V
<1>4. ASSUME NEW v \in V, NEW k \in 1 .. n
      PROVE  /\ Naming(v, c[k]) \in V
             /\ \A x : Has(v, x) => Has(Naming(v, c[k]), x)
             /\ "var" \in DOMAIN c[k] => Has(Naming(v, c[k]), c[k].var)
  BY <1>2, NamingOnes DEF V
<1>5. fold = Rec(fold)
  <2>1. G \in [V \X (1 .. n) -> V]
    BY <1>4
  <2>2. \A v \in V, k \in 1 .. n : G[<<v, k>>] = Naming(v, c[k])
    OBVIOUS
  <2> HIDE DEF G
  <2>3. PICK it \in [SUBSET (1 .. n) -> V] : Folds(it, n, << >>, G)
    BY <1>3, <2>1, FoldExists
  <2>4. ASSUME NEW s \in SUBSET (1 .. n)
        PROVE  it[s] = IF s = {} THEN << >> ELSE Naming(it[s \ {Max(s)}], c[Max(s)])
    <3>1. it[s] = IF s = {} THEN << >> ELSE G[<<it[s \ {Max(s)}], Max(s)>>]
      BY <2>3 DEF Folds
    <3>2. CASE s # {}
      <4>1. Max(s) \in 1 .. n /\ it[s \ {Max(s)}] \in V
        BY <2>3, <3>2, MaxIs
      <4> QED
        BY <2>2, <3>1, <3>2, <4>1
    <3> QED
      BY <3>1, <3>2
  <2>5. it = Rec(it)
    BY <2>3, <2>4
  <2> HIDE DEF Rec
  <2> QED
    BY <2>5
<1> HIDE DEF fold
<1>6. fold[1 .. 0] = << >>
  <2>1. 1 .. 0 = {} /\ 1 .. 0 \in SUBSET (1 .. n)
    OBVIOUS
  <2> QED
    BY <1>5, <2>1
<1>7. ASSUME NEW i \in 1 .. n PROVE fold[1 .. i] = Naming(fold[1 .. i-1], c[i])
  <2>0. (1 .. i) \ {i} = 1 .. i-1
    OBVIOUS
  <2>1. 1 .. i \in SUBSET (1 .. n) /\ 1 .. i # {} /\ i \in 1 .. i
    OBVIOUS
  <2>2. Max(1 .. i) = i
    <3>1. Max(1 .. i) \in 1 .. i /\ \A y \in 1 .. i : y <= Max(1 .. i)
      BY <2>1, MaxIs
    <3> QED
      BY <2>1, <3>1
  <2>3. fold[1 .. i] = IF 1 .. i = {} THEN << >> ELSE Naming(fold[(1 .. i) \ {Max(1 .. i)}], c[Max(1 .. i)])
    BY <1>5, <2>1
  <2> QED
    BY <2>0, <2>1, <2>2, <2>3, Zenon
<1> DEFINE Good(i) == /\ fold[1 .. i] \in V
                      /\ \A k \in 1 .. i : "var" \in DOMAIN c[k] => Has(fold[1 .. i], c[k].var)
           Bad == {i \in Nat : i <= n /\ ~Good(i)}
<1>8. Good(0)
  BY <1>3, <1>6
<1>9. ASSUME NEW i \in 1 .. n, Good(i - 1) PROVE Good(i)
  <2>1. \A k \in 1 .. i : k = i \/ k \in 1 .. i-1
    OBVIOUS
  <2> QED
    BY <1>4, <1>7, <1>9, <2>1
<1> HIDE DEF Good
<1>10. Bad = {}
  <2> SUFFICES ASSUME Bad # {} PROVE FALSE
    OBVIOUS
  <2>1. PICK i \in Bad : \A j \in Bad : i <= j
    <3>1. Bad \in SUBSET Nat
      OBVIOUS
    <3> HIDE DEF Bad
    <3> QED
      BY <3>1, Smallest
  <2>2. i \in Nat /\ i <= n /\ i # 0 /\ ~Good(i)
    BY <1>8, <2>1
  <2>3. i \in 1 .. n /\ i - 1 \in Nat /\ i - 1 <= n /\ i - 1 \notin Bad
    BY <2>1, <2>2
  <2> QED
    BY <1>9, <2>2, <2>3
<1>11. Good(n)
  BY <1>10
<1> QED
  BY <1>1, <1>11 DEF Good, V, Pool
-----------------------------------------------------------------------------
(* The data that the code pushes.                                          *)

Queued(s, d) == \E k \in DOMAIN s : s[k].datum = d

\* One instruction.
LEMMA PushingOnes ==
  ASSUME NEW T, NEW s, s \in Seq(T), NEW i, [datum |-> i.datum, fromCode |-> TRUE] \in T
  PROVE  /\ Pushing(s, i) \in Seq(T)
         /\ \A x : Queued(s, x) => Queued(Pushing(s, i), x)
         /\ i.op = "datum" => Queued(Pushing(s, i), i.datum)
<1> DEFINE e == [datum |-> i.datum, fromCode |-> TRUE]
<1>1. CASE i.op = "datum"
  <2>1. Pushing(s, i) = Append(s, e) /\ e.datum = i.datum /\ e \in T
    BY <1>1 DEF Pushing
  <2>2. PICK n \in Nat : Len(s) = n /\ DOMAIN s = 1 .. n
    OBVIOUS
  <2> HIDE DEF e
  <2>3. Append(s, e) \in Seq(T) /\ DOMAIN Append(s, e) = 1 .. n+1 /\ Append(s, e)[n+1] = e /\ \A k \in 1 .. n : Append(s, e)[k] = s[k]
    BY <2>1, <2>2
  <2>4. PICK t : t = Append(s, e)
    OBVIOUS
  <2>5. DOMAIN t = 1 .. n+1 /\ t[n+1].datum = i.datum /\ \A k \in 1 .. n : t[k] = s[k]
    BY <2>1, <2>3, <2>4
  <2>6. n+1 \in DOMAIN t /\ \A k \in DOMAIN s : k \in DOMAIN t /\ t[k] = s[k]
    BY <2>2, <2>5
  <2>7. Queued(t, i.datum) /\ \A x : Queued(s, x) => Queued(t, x)
    BY <2>5, <2>6, Zenon DEF Queued
  <2> QED
    BY <2>1, <2>3, <2>4, <2>7
<1>2. CASE i.op # "datum"
  BY <1>2 DEF Pushing
<1> QED
  BY <1>1, <1>2

\* The fold over the code queues every datum that an instruction pushes.
LEMMA PushedIs ==
  ASSUME NEW c, NEW n \in Nat, DOMAIN c = 1 .. n
  PROVE  /\ Sequence(PushedBy(c))
         /\ \A k \in 1 .. n : c[k].op = "datum" => Queued(PushedBy(c), c[k].datum)
<1> DEFINE T == {[datum |-> c[k].datum, fromCode |-> TRUE] : k \in 1 .. n}
           V == Seq(T)
           G == [p \in V \X (1 .. n) |-> Pushing(p[1], c[p[2]])]
           Rec(it) == [s \in SUBSET (1 .. n) |-> IF s = {} THEN << >> ELSE Pushing(it[s \ {Max(s)}], c[Max(s)])]
           fold == CHOOSE it : it = Rec(it)
<1>1. PushedBy(c) = fold[1 .. n]
  BY DEF PushedBy, FoldLeft, MapThenFoldSet
<1>2. \A k \in 1 .. n : [datum |-> c[k].datum, fromCode |-> TRUE] \in T
  OBVIOUS
<1> HIDE DEF T
<1>3. << >> \in V
  OBVIOUS
<1> HIDE DEF V
<1>4. ASSUME NEW v \in V, NEW k \in 1 .. n
      PROVE  /\ Pushing(v, c[k]) \in V
             /\ \A x : Queued(v, x) => Queued(Pushing(v, c[k]), x)
             /\ c[k].op = "datum" => Queued(Pushing(v, c[k]), c[k].datum)
  BY <1>2, PushingOnes, Zenon DEF V
<1>5. fold = Rec(fold)
  <2>1. G \in [V \X (1 .. n) -> V]
    BY <1>4
  <2>2. \A v \in V, k \in 1 .. n : G[<<v, k>>] = Pushing(v, c[k])
    OBVIOUS
  <2> HIDE DEF G
  <2>3. PICK it \in [SUBSET (1 .. n) -> V] : Folds(it, n, << >>, G)
    BY <1>3, <2>1, FoldExists
  <2>4. ASSUME NEW s \in SUBSET (1 .. n)
        PROVE  it[s] = IF s = {} THEN << >> ELSE Pushing(it[s \ {Max(s)}], c[Max(s)])
    <3>1. it[s] = IF s = {} THEN << >> ELSE G[<<it[s \ {Max(s)}], Max(s)>>]
      BY <2>3 DEF Folds
    <3>2. CASE s # {}
      <4>1. Max(s) \in 1 .. n /\ it[s \ {Max(s)}] \in V
        BY <2>3, <3>2, MaxIs
      <4> QED
        BY <2>2, <3>1, <3>2, <4>1
    <3> QED
      BY <3>1, <3>2
  <2>5. it = Rec(it)
    BY <2>3, <2>4
  <2> HIDE DEF Rec
  <2> QED
    BY <2>5
<1> HIDE DEF fold
<1>6. fold[1 .. 0] = << >>
  <2>1. 1 .. 0 = {} /\ 1 .. 0 \in SUBSET (1 .. n)
    OBVIOUS
  <2> QED
    BY <1>5, <2>1
<1>7. ASSUME NEW i \in 1 .. n PROVE fold[1 .. i] = Pushing(fold[1 .. i-1], c[i])
  <2>0. (1 .. i) \ {i} = 1 .. i-1
    OBVIOUS
  <2>1. 1 .. i \in SUBSET (1 .. n) /\ 1 .. i # {} /\ i \in 1 .. i
    OBVIOUS
  <2>2. Max(1 .. i) = i
    <3>1. Max(1 .. i) \in 1 .. i /\ \A y \in 1 .. i : y <= Max(1 .. i)
      BY <2>1, MaxIs
    <3> QED
      BY <2>1, <3>1
  <2>3. fold[1 .. i] = IF 1 .. i = {} THEN << >> ELSE Pushing(fold[(1 .. i) \ {Max(1 .. i)}], c[Max(1 .. i)])
    BY <1>5, <2>1
  <2> QED
    BY <2>0, <2>1, <2>2, <2>3, Zenon
<1> DEFINE Good(i) == /\ fold[1 .. i] \in V
                      /\ \A k \in 1 .. i : c[k].op = "datum" => Queued(fold[1 .. i], c[k].datum)
           Bad == {i \in Nat : i <= n /\ ~Good(i)}
<1>8. Good(0)
  BY <1>3, <1>6
<1>9. ASSUME NEW i \in 1 .. n, Good(i - 1) PROVE Good(i)
  <2>1. \A k \in 1 .. i : k = i \/ k \in 1 .. i-1
    OBVIOUS
  <2> QED
    BY <1>4, <1>7, <1>9, <2>1
<1> HIDE DEF Good
<1>10. Bad = {}
  <2> SUFFICES ASSUME Bad # {} PROVE FALSE
    OBVIOUS
  <2>1. PICK i \in Bad : \A j \in Bad : i <= j
    <3>1. Bad \in SUBSET Nat
      OBVIOUS
    <3> HIDE DEF Bad
    <3> QED
      BY <3>1, Smallest
  <2>2. i \in Nat /\ i <= n /\ i # 0 /\ ~Good(i)
    BY <1>8, <2>1
  <2>3. i \in 1 .. n /\ i - 1 \in Nat /\ i - 1 <= n /\ i - 1 \notin Bad
    BY <2>1, <2>2
  <2> QED
    BY <1>9, <2>2, <2>3
<1>11. Good(n)
  BY <1>10
<1> QED
  BY <1>1, <1>11 DEF Good, V, Sequence

-----------------------------------------------------------------------------
(* The rounds.                                                             *)

\* Every reference has a form that applies at the positions at.
Fitted(at) ==
  \A k \in References : size[k] \in 1 .. 3 /\ Applies(code[k], size[k], at[k], label[code[k].to])

Emitted ==
  [k \in Items |-> IF k \in References
                   THEN ReferenceBytes(code[k], size[k], Positions(size)[k], label[code[k].to])
                   ELSE Bytes(code[k])]

\* The program can find the datum d among its constants.
Placed(d) == IsDirect(Translated(d)) \/ Has(constants, Translated(d))

(***************************************************************************)
(* Every datum that the code pushes is among the constants or on its way   *)
(* there, every global that it names has its number when they are sorted,  *)
(* and the labels are at rest when the code is emitted.                    *)
(***************************************************************************)
Laid ==
  /\ others \in Nat /\ WellFormed(code) /\ Pool(constants) /\ Pool(globals) /\ Sequence(pending)
  /\ size \in [Items -> 0 .. 3]
  /\ phase \in {"collect", "pass1", "size", "place", "emit", "done"}
  /\ \A k \in Pushed : Placed(code[k].datum) \/ (phase = "collect" /\ Queued(pending, code[k].datum))
  /\ phase # "collect" => \A k \in Items : "var" \in DOMAIN code[k] => Has(globals, code[k].var)
  /\ phase \in {"emit", "done"} => label = LabelsAt(Positions(size))
  /\ phase = "done" => image = Emitted

(***************************************************************************)
(* The forms that were chosen last fit the positions before they were      *)
(* chosen, and those are where the labels are.                             *)
(***************************************************************************)
Rounds ==
  /\ Laid /\ OneTrails(code)
  /\ phase = "size" => label = LabelsAt(Positions(size))
  /\ phase = "place" =>
       \E old \in [Items -> 0 .. 3] :
         /\ \A k \in References : old[k] <= size[k]
         /\ label = LabelsAt(Positions(old)) /\ Fitted(Positions(old))
  /\ phase \in {"emit", "done"} => Fitted(Positions(size))

\* What the operators say depends on the program and its constants alone.
LEMMA Frame ==
  ASSUME UNCHANGED <<others, constants, globals, code>>
  PROVE  /\ Items' = Items /\ References' = References /\ Start' = Start /\ Labelled' = Labelled
         /\ Pushed' = Pushed
         /\ WellFormed(code)' = WellFormed(code) /\ OneTrails(code)' = OneTrails(code)
         /\ \A i : Bytes(i)' = Bytes(i)
         /\ \A sz : Positions(sz)' = Positions(sz)
         /\ \A at : LabelsAt(at)' = LabelsAt(at)
<1>1. Items' = Items /\ References' = References /\ Start' = Start /\ Labelled' = Labelled /\ Pushed' = Pushed
  BY DEF Items, References, Start, Labelled, Pushed
<1>2. WellFormed(code)' = WellFormed(code) /\ OneTrails(code)' = OneTrails(code)
  BY DEF WellFormed, OneTrails
<1>3. \A i : Bytes(i)' = Bytes(i)
  BY DEF Bytes, Numbered
<1>4. \A k, sz : Width(k, sz)' = Width(k, sz)
  BY <1>3 DEF Width
<1>5. \A sz : Positions(sz)' = Positions(sz)
  BY <1>1, <1>4 DEF Positions
<1>6. \A at : LabelsAt(at)' = LabelsAt(at)
  BY <1>1 DEF LabelsAt
<1> QED
  BY <1>1, <1>2, <1>3, <1>5, <1>6

\* The code comes after the constants.
LEMMA StartIs ==
  ASSUME others \in Nat, Pool(constants)
  PROVE  Start \in Nat
<1>1. PICK n \in Nat : Len(constants) = n
  BY PoolIs
<1> QED
  BY <1>1 DEF Start

\* The parts of a datum that is new are queued before the others.
LEMMA PendingIs ==
  ASSUME NEW s, Sequence(s), s # << >>, NEW pool
  PROVE  /\ Sequence(Pending(s, pool))
         /\ \A d : Queued(s, d) => d = Head(s).datum \/ Queued(Pending(s, pool), d)
<1>1. PICK S : s \in Seq(S)
  BY DEF Sequence
<1>2. PICK n \in Nat : n = Len(s) /\ DOMAIN s = 1 .. n /\ n > 0
  BY <1>1
<1>3. PICK o : o = Translated(Head(s).datum)
  OBVIOUS
<1>4. PICK parts : parts = IF IsDirect(o) \/ \E k \in DOMAIN pool : pool[k].obj = o THEN << >> ELSE Parts(o)
  OBVIOUS
<1>5. PICK m \in Nat : DOMAIN parts = 1 .. m
  <2>1. DOMAIN << >> = 1 .. 0
    OBVIOUS
  <2>2. \A x : DOMAIN <<x>> = 1 .. 1
    OBVIOUS
  <2>3. \A x, y : DOMAIN <<x, y>> = 1 .. 2
    OBVIOUS
  <2>4. \E q \in {0, 1, 2} : DOMAIN Parts(o) = 1 .. q
    <3>1. CASE Kind(o) = "integer"
      BY <2>2, <3>1 DEF Parts
    <3>2. CASE Kind(o) = "pair"
      BY <2>3, <3>2 DEF Parts
    <3>3. CASE Kind(o) = "vector"
      BY <2>2, <3>3 DEF Parts
    <3>4. CASE Kind(o) \in {"string", "u8vector"}
      BY <2>2, <3>4 DEF Parts
    <3>5. CASE Kind(o) \notin {"integer", "pair", "vector", "string", "u8vector"}
      BY <2>1, <3>5 DEF Parts
    <3> QED
      BY <3>1, <3>2, <3>3, <3>4, <3>5
  <2> QED
    BY <1>4, <2>1, <2>4
<1> DEFINE part(k) == [datum |-> parts[k], fromCode |-> FALSE]
           F == [k \in DOMAIN parts |-> part(k)]
           D == S \cup {part(k) : k \in 1 .. m}
<1>6. Pending(s, pool) = F \o Tail(s)
  BY <1>3, <1>4, Zenon DEF Pending
<1> HIDE DEF part
<1>7. F \in Seq(D) /\ Len(F) = m
  <2>1. F \in [1 .. m -> D]
    BY <1>5
  <2> HIDE DEF F, D
  <2> QED
    BY <2>1
<1>8. s \in Seq(D) /\ Tail(s) \in Seq(D) /\ Len(Tail(s)) = n - 1 /\ \A k \in 1 .. n-1 : Tail(s)[k] = s[k+1]
  <2>1. S \subseteq D
    OBVIOUS
  <2> HIDE DEF D, F
  <2>2. s \in Seq(D)
    BY <1>1, <2>1
  <2> QED
    BY <1>2, <2>2
<1> HIDE DEF F, D
<1>9. PICK t : t = Tail(s)
  OBVIOUS
<1>10. /\ F \o t \in Seq(D) /\ DOMAIN (F \o t) = 1 .. m + n - 1
       /\ \A k \in 1 .. n-1 : (F \o t)[m + k] = t[k]
  BY <1>2, <1>5, <1>7, <1>8, <1>9
<1>11. ASSUME NEW d, Queued(s, d), d # Head(s).datum PROVE Queued(F \o t, d)
  <2>1. PICK k \in 1 .. n : s[k].datum = d
    BY <1>2, <1>11 DEF Queued
  <2>2. Head(s) = s[1]
    BY <1>1, <1>2
  <2>3. k # 1
    BY <1>11, <2>1, <2>2
  <2>4. PICK h \in 1 .. n-1 : h + 1 = k
    BY <1>2, <2>3
  <2>5. m + h \in 1 .. m + n - 1 /\ (F \o t)[m + h] = s[k]
    BY <1>2, <1>5, <1>8, <1>9, <1>10, <2>4
  <2> QED
    BY <1>10, <2>1, <2>5 DEF Queued
<1> QED
  BY <1>6, <1>9, <1>10, <1>11 DEF Sequence

-----------------------------------------------------------------------------
(* The program is any one, at the start.                                   *)
Given == others \in Nat /\ WellFormed(code) /\ Ready

\* It holds at the start,
LEMMA GivenLaid == Given => Laid
<1> SUFFICES ASSUME Given PROVE Laid
  OBVIOUS
<1>1. Pool(constants) /\ Pool(globals)
  <2>1. << >> \in Seq(Descriptor({}))
    OBVIOUS
  <2> QED
    BY <2>1 DEF Given, Ready, Pool
<1>2. size \in [Items -> 0 .. 3]
  BY DEF Given, Ready, NoSizes, Items
<1>3. PICK n \in Nat : DOMAIN code = 1 .. n
  BY ProgramIs DEF Given
<1>4. Sequence(pending) /\ \A k \in 1 .. n : code[k].op = "datum" => Queued(pending, code[k].datum)
  BY <1>3, PushedIs DEF Given, Ready
<1>5. \A k \in Pushed : Queued(pending, code[k].datum)
  BY <1>3, <1>4 DEF Pushed, Items
<1> QED
  BY <1>1, <1>2, <1>4, <1>5 DEF Given, Ready, Laid

\* A step that leaves the program and its constants as they are.
LEMMA KeptLaid ==
  ASSUME Laid, UNCHANGED <<others, constants, globals, code, pending>>,
         phase # "collect", phase' \in {"size", "place", "emit", "done"}, size' \in [Items -> 0 .. 3],
         phase' \in {"emit", "done"} => label' = LabelsAt(Positions(size'))
  PROVE  (phase' = "done" => image' = Emitted') => Laid'
<1>1. Placed(code[1].datum)' = Placed(code[1].datum) /\ \A d : Placed(d)' = Placed(d)
  BY DEF Placed
<1>2. \A k \in Pushed : Placed(code[k].datum)
  BY DEF Laid
<1> QED
  BY <1>1, <1>2, Frame DEF Laid

\* and every step keeps it.
LEMMA StepLaid == Laid /\ [Next]_vars => Laid'
<1> SUFFICES ASSUME Laid, [Next]_vars PROVE Laid'
  OBVIOUS
<1> DEFINE Kept == UNCHANGED <<others, constants, globals, code, pending>>
<1>1. CASE UNCHANGED vars
  <2>1. Kept /\ UNCHANGED <<size, label, phase, image>>
    BY <1>1 DEF vars
  <2>2. \A d : Placed(d)' = Placed(d)
    BY <2>1 DEF Placed
  <2>3. Emitted' = Emitted
    BY <2>1, Frame DEF Emitted
  <2> QED
    BY <2>1, <2>2, <2>3, Frame DEF Laid
<1>2. CASE Collect
  <2>1. /\ UNCHANGED <<others, code, globals, size, phase>> /\ phase = "collect" /\ pending # << >>
        /\ constants' = Added(constants, Head(pending).datum, Head(pending).fromCode)
        /\ pending' = Pending(pending, constants)
    BY <1>2 DEF Collect
  <2>2. /\ Pool(constants) /\ Sequence(pending) /\ others \in Nat /\ WellFormed(code) /\ Pool(globals)
        /\ size \in [Items -> 0 .. 3]
        /\ \A k \in Pushed : Placed(code[k].datum) \/ Queued(pending, code[k].datum)
    BY DEF Laid
  <2>3. /\ Pool(constants') /\ \A x : Has(constants, x) => Has(constants', x)
        /\ IsDirect(Translated(Head(pending).datum)) \/ Has(constants', Translated(Head(pending).datum))
    BY <2>1, <2>2, AddedIs
  <2>4. Sequence(pending') /\ \A d : Queued(pending, d) => d = Head(pending).datum \/ Queued(pending', d)
    BY <2>1, <2>2, PendingIs
  <2>5. Pushed' = Pushed /\ Items' = Items /\ WellFormed(code)' = WellFormed(code)
    BY <2>1 DEF Pushed, Items, WellFormed
  <2>6. \A k \in Pushed : Placed(code[k].datum)' \/ Queued(pending', code[k].datum)
    BY <2>1, <2>2, <2>3, <2>4 DEF Placed
  <2>7. Pool(constants)' /\ Pool(globals)' /\ Sequence(pending)'
    BY <2>1, <2>2, <2>3, <2>4 DEF Pool
  <2>8. \A k \in Pushed' : Placed(code[k].datum)' \/ (phase' = "collect" /\ Queued(pending, code[k].datum)')
    BY <2>1, <2>5, <2>6 DEF Queued
  <2> QED
    BY <2>1, <2>2, <2>5, <2>7, <2>8 DEF Laid
<1>3. CASE Layout
  <2>1. /\ UNCHANGED <<others, code, pending, size>> /\ phase = "collect" /\ pending = << >> /\ phase' = "pass1"
        /\ constants' = SortConstants(constants) /\ globals' = SortConstants(FoldLeft(Naming, << >>, code))
    BY <1>3 DEF Layout
  <2>2. /\ Pool(constants) /\ Sequence(pending) /\ others \in Nat /\ WellFormed(code)
        /\ size \in [Items -> 0 .. 3]
        /\ \A k \in Pushed : Placed(code[k].datum) \/ Queued(pending, code[k].datum)
    BY <2>1 DEF Laid
  <2>3. \A d : ~Queued(pending, d)
    <3>1. DOMAIN pending = {}
      BY <2>1
    <3> QED
      BY <3>1 DEF Queued
  <2>4. Pool(constants') /\ \A x : Has(constants, x) => Has(constants', x)
    BY <2>1, <2>2, SortedIs
  <2>5. PICK n \in Nat : DOMAIN code = 1 .. n
    BY <2>2, ProgramIs
  <2>6. PICK named : named = FoldLeft(Naming, << >>, code)
    OBVIOUS
  <2>7. Pool(named) /\ \A k \in 1 .. n : "var" \in DOMAIN code[k] => Has(named, code[k].var)
    BY <2>5, <2>6, NamingIs
  <2>8. Pool(globals') /\ \A k \in Items : "var" \in DOMAIN code[k] => Has(globals', code[k].var)
    BY <2>1, <2>5, <2>6, <2>7, SortedIs DEF Items
  <2>9. Pushed' = Pushed /\ Items' = Items /\ WellFormed(code)' = WellFormed(code)
    BY <2>1 DEF Pushed, Items, WellFormed
  <2>10. \A k \in Pushed : Placed(code[k].datum)'
    BY <2>1, <2>2, <2>3, <2>4 DEF Placed
  <2>11. Pool(constants)' /\ Pool(globals)' /\ Sequence(pending)'
    BY <2>1, <2>2, <2>4, <2>8 DEF Pool
  <2>12. \A k \in Items' : "var" \in DOMAIN code[k]' => Has(globals, code[k].var)'
    BY <2>1, <2>8, <2>9 DEF Has
  <2>13. \A k \in Pushed' : Placed(code[k].datum)'
    BY <2>9, <2>10
  <2> QED
    BY <2>1, <2>2, <2>9, <2>11, <2>12, <2>13 DEF Laid
<1>4. CASE Pass1
  <2>1. Kept /\ size' = size /\ phase = "pass1" /\ phase' = "size"
    BY <1>4 DEF Pass1
  <2>2. size' \in [Items -> 0 .. 3]
    BY <2>1 DEF Laid
  <2> QED
    BY <2>1, <2>2, KeptLaid
<1>5. CASE Size
  <2>1. Kept /\ phase = "size" /\ phase' = "place"
        /\ size' = [k \in Items |-> IF k \in References THEN Form(k, Positions(size)) ELSE 0]
    BY <1>5 DEF Size
  <2>2. \A k \in Items : size[k] \in 0 .. 3
    BY DEF Laid
  <2>3. \A k \in Items : k \in References => Form(k, Positions(size)) \in 1 .. 3
    BY <2>2, FormIs
  <2>4. size' \in [Items -> 0 .. 3]
    BY <2>1, <2>3
  <2> QED
    BY <2>1, <2>4, KeptLaid
<1>6. CASE Place
  <2>1. /\ Kept /\ size' = size /\ phase = "place" /\ label' = LabelsAt(Positions(size))
        /\ phase' = IF label' = label THEN "emit" ELSE "size"
    BY <1>6 DEF Place
  <2>2. size' \in [Items -> 0 .. 3]
    BY <2>1 DEF Laid
  <2>3. phase' \in {"size", "emit"}
    BY <2>1
  <2> QED
    BY <2>1, <2>2, <2>3, KeptLaid
<1>7. CASE Emit
  <2>1. Kept /\ UNCHANGED <<size, label>> /\ phase = "emit" /\ image' = Emitted
    BY <1>7 DEF Emit, Emitted
  <2>2. phase' = IF label = LabelsAt(Positions(size)) THEN "done" ELSE "inconsistent"
    BY <1>7 DEF Emit
  <2>3. label = LabelsAt(Positions(size)) /\ phase' = "done" /\ size' \in [Items -> 0 .. 3]
    BY <2>1, <2>2 DEF Laid
  <2>4. Emitted' = Emitted
    BY <2>1, Frame DEF Emitted
  <2> QED
    BY <2>1, <2>3, <2>4, KeptLaid
<1> QED
  BY <1>1, <1>2, <1>3, <1>4, <1>5, <1>6, <1>7 DEF Next

-----------------------------------------------------------------------------

\* It holds at the start,
LEMMA GivenRounds == Given /\ OneTrails(code) => Rounds
BY GivenLaid DEF Given, Ready, Rounds

\* and every step keeps it: what the labels say of the references is Settled.
LEMMA StepRounds == Rounds /\ [Next]_vars => Rounds'
<1> SUFFICES ASSUME Rounds, [Next]_vars PROVE Rounds'
  OBVIOUS
<1> DEFINE Kept == UNCHANGED <<others, constants, globals, code>>
<1>0. Laid /\ Laid'
  BY StepLaid DEF Rounds
<1>1. CASE UNCHANGED vars
  <2>1. Kept /\ UNCHANGED <<size, label, phase, image>>
    BY <1>1 DEF vars
  <2> QED
    BY <1>0, <2>1, Frame DEF Rounds, Fitted
<1>2. CASE Collect
  <2>1. UNCHANGED <<code, phase>> /\ phase = "collect"
    BY <1>2 DEF Collect
  <2>2. OneTrails(code)' = OneTrails(code)
    BY <2>1 DEF OneTrails
  <2> QED
    BY <1>0, <2>1, <2>2 DEF Rounds
<1>3. CASE Layout
  <2>1. UNCHANGED code /\ phase' = "pass1"
    BY <1>3 DEF Layout
  <2>2. OneTrails(code)' = OneTrails(code)
    BY <2>1 DEF OneTrails
  <2> QED
    BY <1>0, <2>1, <2>2 DEF Rounds
<1>4. CASE Pass1
  <2>1. Kept /\ size' = size /\ label' = LabelsAt(Positions(size)) /\ phase' = "size"
    BY <1>4 DEF Pass1
  <2> QED
    BY <1>0, <2>1, Frame DEF Rounds
<1>5. CASE Size
  <2>1. Kept /\ label' = label /\ phase = "size" /\ phase' = "place"
    BY <1>5 DEF Size
  <2>2. size' = [k \in Items |-> IF k \in References THEN Form(k, Positions(size)) ELSE 0]
    BY <1>5 DEF Size
  <2>3. References \subseteq Items /\ \A k \in Items : size[k] \in 0 .. 3
    BY <1>0 DEF References, Laid
  <2>4. \A k \in References :
          /\ size'[k] \in 1 .. 3 /\ size[k] <= size'[k]
          /\ Applies(code[k], size'[k], Positions(size)[k], label[code[k].to])
    BY <2>2, <2>3, FormIs
  <2>5. \E old \in [Items -> 0 .. 3] :
          /\ \A k \in References : old[k] <= size'[k]
          /\ label = LabelsAt(Positions(old))
          /\ \A k \in References : size'[k] \in 1 .. 3 /\ Applies(code[k], size'[k], Positions(old)[k], label[code[k].to])
    BY <1>0, <2>1, <2>4 DEF Rounds, Laid
  <2> QED
    BY <1>0, <2>1, <2>5, Frame DEF Rounds, Fitted
<1>6. CASE Place
  <2>1. /\ Kept /\ size' = size /\ phase = "place" /\ label' = LabelsAt(Positions(size))
        /\ phase' = IF label' = label THEN "emit" ELSE "size"
    BY <1>6 DEF Place
  <2>2. CASE label' # label
    BY <1>0, <2>1, <2>2, Frame DEF Rounds
  <2>3. CASE label' = label
    <3>1. PICK old \in [Items -> 0 .. 3] :
            /\ \A k \in References : old[k] <= size[k]
            /\ label = LabelsAt(Positions(old)) /\ Fitted(Positions(old))
      BY <2>1 DEF Rounds
    <3>2. \A k \in References : Positions(old)[k] = Positions(size)[k]
      <4>1. WellFormed(code) /\ Start \in Nat /\ size \in [Items -> 0 .. 3] /\ OneTrails(code)
        BY <1>0, StartIs DEF Rounds, Laid
      <4>2. LabelsAt(Positions(old)) = LabelsAt(Positions(size))
        BY <2>1, <2>3, <3>1
      <4> QED
        BY <3>1, <4>1, <4>2, Settled
    <3>3. Fitted(Positions(size))
      BY <3>1, <3>2 DEF Fitted
    <3>4. phase' = "emit"
      BY <2>1, <2>3
    <3> QED
      BY <1>0, <2>1, <2>3, <3>3, <3>4, Frame DEF Rounds, Fitted
  <2> QED
    BY <2>2, <2>3
<1>7. CASE Emit
  <2>1. Kept /\ UNCHANGED <<size, label>> /\ phase = "emit" /\ phase' \in {"done", "inconsistent"}
    BY <1>7 DEF Emit
  <2>2. Fitted(Positions(size)) /\ OneTrails(code)
    BY <2>1 DEF Rounds
  <2> QED
    BY <1>0, <2>1, <2>2, Frame DEF Rounds, Fitted
<1> QED
  BY <1>1, <1>2, <1>3, <1>4, <1>5, <1>6, <1>7 DEF Next

\* The machine has 16 bits for an address.
Room == \A l \in DOMAIN label : label[l] < 256 * 256

\* At the end the forms fit the positions where the items are.
LEMMA RoundsReach == Rounds /\ Room => ReferencesReach
<1> SUFFICES ASSUME Rounds, Room, phase = "done", NEW k \in References
             PROVE  Decode(image[k], Positions(size)[k]) = [op |-> code[k].op, v |-> label[code[k].to]]
  BY DEF ReferencesReach
<1> DEFINE at == Positions(size)
<1>0. Laid
  BY DEF Rounds
<1>1. k \in Items /\ Refers(code[k])
  BY DEF References
<1>2. \A j \in Items : at[j] \in Nat
  BY <1>0, StartIs, PositionsIs DEF Laid
<1>3. PICK m \in Labelled : code[m].to = code[k].to
  BY <1>0, TargetIs DEF Laid
<1>4. label[code[k].to] \in Nat /\ label[code[k].to] < 256 * 256
  <2>1. label = LabelsAt(at) /\ LabelsAt(at)[code[m].to] = at[m] /\ m \in Items
    BY <1>0, LabelIs DEF Laid
  <2>2. code[m].to \in DOMAIN label
    BY <2>1 DEF LabelsAt
  <2> HIDE DEF at
  <2> QED
    BY <1>2, <1>3, <2>1, <2>2 DEF Room
<1>5. size[k] \in 1 .. 3 /\ Applies(code[k], size[k], at[k], label[code[k].to])
  BY DEF Rounds, Fitted
<1>6. image[k] = ReferenceBytes(code[k], size[k], at[k], label[code[k].to])
  BY <1>0, <1>1 DEF Laid, Emitted
<1> HIDE DEF at
<1>7. Decode(ReferenceBytes(code[k], size[k], at[k], label[code[k].to]), at[k]) = Does(code[k].op, label[code[k].to])
  BY <1>1, <1>2, <1>4, <1>5, ReferenceDecodes
<1> QED
  BY <1>6, <1>7 DEF Does, at

-----------------------------------------------------------------------------

(***************************************************************************)
(* Every number has room in its field.                                     *)
(***************************************************************************)
Small ==
  /\ Len(constants) + others < 256 /\ Len(globals) <= 16
  /\ \A k \in Items : code[k].op \in PlainOps /\ "var" \notin DOMAIN code[k] => Fits(code[k])

\* At the end every datum and every global has the number that is emitted.
LEMMA LaidDecodes == Laid /\ Small => PlainDecoded
<1> SUFFICES ASSUME Laid, Small, phase = "done" PROVE PlainDecoded
  BY DEF PlainDecoded
<1>1. PICK n \in Nat : Len(constants) = n
  BY PoolIs DEF Laid
<1>2. 4 + 5 * ((Len(constants) + others) % 256) = Start
  <2>1. others \in Nat /\ n + others < 256
    BY <1>1 DEF Laid, Small
  <2>2. (n + others) % 256 = n + others
    BY <2>1
  <2> QED
    BY <1>1, <2>2 DEF Start
<1>3. ASSUME NEW k \in Items \ References, code[k].op \notin {"label", "block", "entry"}
      PROVE  Decode(image[k], Positions(size)[k]) = Meant(code[k])
  <2>0. /\ code[k].op \in {"datum"} \cup PlainOps
        /\ code[k].op \in PlainOps /\ "var" \in DOMAIN code[k] => code[k].op \in {"push-global", "set-global"}
    <3>1. WellFormed(code) /\ k \in DOMAIN code /\ ~Refers(code[k])
      BY <1>3 DEF Laid, Items, References
    <3>2. \/ code[k].op \in {"datum", "entry"}
          \/ code[k].op \in PlainOps /\ ("var" \in DOMAIN code[k] => code[k].op \in {"push-global", "set-global"})
      BY <1>3, <3>1, Zenon DEF WellFormed
    <3>3. "datum" \notin PlainOps /\ "entry" \notin PlainOps
      BY DEF PlainOps
    <3> QED
      BY <1>3, <3>2, <3>3
  <2>1. PICK pc \in Nat : pc = Positions(size)[k]
    BY StartIs, PositionsIs DEF Laid
  <2>2. image[k] = Bytes(code[k])
    BY <1>3 DEF Laid, Emitted
  <2>3. CASE code[k].op = "datum"
    <3>1. k \in Pushed
      BY <1>3, <2>3 DEF Pushed
    <3>2. Placed(code[k].datum)
      BY <3>1 DEF Laid
    <3>3. Pool(constants) /\ Len(constants) < 256
      BY <1>1 DEF Laid, Small
    <3>4. PICK v \in Nat : v = EncodeConstant(code[k].datum, constants) /\ v < 16 * 256
      BY <3>2, <3>3, EncodeIs DEF Placed
    <3> DEFINE i == [op |-> "push-constant", n |-> v]
    <3>5. Fits(i) /\ PlainBytes(i) = PushConstant(v) /\ Argument(i) = ToRomIndex(v) /\ i.op = "push-constant"
      BY <3>4 DEF Fits, PlainBytes, Argument
    <3> HIDE DEF i
    <3>6. Decode(PushConstant(v), pc) = Does("push-constant", ToRomIndex(v))
      BY <3>5, PlainDecodes
    <3>7. Bytes(code[k]) = PushConstant(v)
      BY <2>3, <3>4, Zenon DEF Bytes
    <3>8. Meant(code[k]) = Does("push-constant", ToRomIndex(v))
      BY <2>3, <3>4, Zenon DEF Meant, Does
    <3> QED
      BY <2>1, <2>2, <3>6, <3>7, <3>8
  <2>4. CASE code[k].op \in PlainOps
    <3>1. PICK i : i = Numbered(code[k])
      OBVIOUS
    <3>2. i.op = code[k].op /\ Fits(i)
      <4>1. CASE "var" \in DOMAIN code[k]
        <5>1. code[k].op \in {"push-global", "set-global"}
          BY <2>0, <2>4, <4>1
        <5>2. i = [op |-> code[k].op, n |-> IndexOf(globals, code[k].var)]
          BY <3>1, <4>1 DEF Numbered
        <5>3. Pool(globals) /\ Has(globals, code[k].var)
          BY <1>3, <4>1 DEF Laid
        <5>4. PICK m \in Nat : Len(globals) = m /\ m <= 16
          BY <5>3, PoolIs DEF Small
        <5>5. IndexOf(globals, code[k].var) \in 0 .. m-1
          BY <5>3, <5>4, IndexIs
        <5>6. PICK g : g = IndexOf(globals, code[k].var)
          OBVIOUS
        <5>7. g \in 0 .. 15
          <6>1. g \in 0 .. m-1
            BY <5>5, <5>6, Zenon
          <6> QED
            BY <5>4, <6>1
        <5>8. i.op = code[k].op /\ i.n = g
          BY <5>2, <5>6
        <5> QED
          BY <5>1, <5>7, <5>8 DEF Fits
      <4>2. CASE "var" \notin DOMAIN code[k]
        BY <1>3, <2>4, <3>1, <4>2 DEF Numbered, Small
      <4> QED
        BY <4>1, <4>2
    <3>3. Decode(PlainBytes(i), pc) = Does(i.op, Argument(i))
      BY <3>2, PlainDecodes
    <3>4. Bytes(code[k]) = PlainBytes(i)
      BY <2>4, <3>1, Zenon DEF Bytes, PlainOps
    <3>5. Meant(code[k]) = Does(i.op, Argument(i))
      <4>1. CASE code[k].op = "push-constant"
        <5>1. "var" \notin DOMAIN code[k]
          BY <2>0, <2>4, <4>1
        <5>2. i = code[k]
          BY <3>1, <5>1 DEF Numbered
        <5> QED
          BY <4>1, <5>2, Zenon DEF Meant, Does, Argument
      <4>2. CASE code[k].op # "push-constant"
        <5>1. code[k].op # "datum"
          BY <2>4 DEF PlainOps
        <5>2. Meant(code[k]) = [op |-> code[k].op, v |-> i.n]
          BY <3>1, <4>2, <5>1, Zenon DEF Meant
        <5>3. Argument(i) = i.n
          BY <3>2, <4>2 DEF Argument
        <5> QED
          BY <3>2, <5>2, <5>3 DEF Does
      <4> QED
        BY <4>1, <4>2
    <3> QED
      BY <2>1, <2>2, <3>3, <3>4, <3>5
  <2> QED
    BY <2>0, <2>3, <2>4
<1> QED
  BY <1>2, <1>3 DEF PlainDecoded

(***************************************************************************)
(* Whatever the program, every reference leads to its label: when the      *)
(* labels have come to rest, so have the references.                       *)
(***************************************************************************)
THEOREM EveryReferenceReaches ==
  Given /\ OneTrails(code) /\ [][Next]_vars => [](Room => ReferencesReach)
<1>1. Rounds => (Room => ReferencesReach)
  BY RoundsReach
<1> QED
  BY <1>1, GivenRounds, StepRounds, PTL

(***************************************************************************)
(* Whatever the program, every other instruction is read as it was meant,  *)
(* when the numbers have room, and the internal consistency check of       *)
(* asm.rkt:275-277 does not fail.                                          *)
(***************************************************************************)
THEOREM EveryInstructionIsMeant ==
  Given /\ [][Next]_vars => [](phase # "inconsistent" /\ (Small => PlainDecoded))
<1>1. Laid => phase # "inconsistent" /\ (Small => PlainDecoded)
  BY LaidDecodes DEF Laid
<1> QED
  BY <1>1, GivenLaid, StepLaid, PTL

-----------------------------------------------------------------------------
(* The programs of the specification are among them.                       *)

\* A function on 1 .. n is a sequence of its values.
LEMMA MapRange ==
  ASSUME NEW n \in Nat, NEW c, DOMAIN c = 1 .. n, c = [k \in 1 .. n |-> c[k]]
  PROVE  c \in Seq(Range(c))
<1>1. \A k \in 1 .. n : c[k] \in Range(c)
  BY DEF Range
<1>2. c \in [1 .. n -> Range(c)]
  BY <1>1
<1> QED
  BY <1>2

\* References and labels are told apart.
LEMMA Kinded ==
  ASSUME NEW o, o \in {Referring[k] : k \in DOMAIN Referring}, NEW l
  PROVE  /\ Refers(Ref(o, l)) /\ Ref(o, l).to = l /\ Ref(o, l).op # "label"
         /\ ~Refers(Here(l)) /\ Here(l).op = "label" /\ Here(l).to = l /\ Ref(o, l) # Here(l)
<1>1. o \in {"call-toplevel", "jump-toplevel", "goto", "goto-if-false", "closure"}
  BY ReferringIs
<1> QED
  BY <1>1, ReferringIs DEF Ref, Here, Refers

\* So are blocks.
LEMMA BlockIs ==
  ASSUME NEW n \in Nat
  PROVE  Block(n).op = "block" /\ Block(n).n \in Nat /\ ~Refers(Block(n))
  BY ReferringIs DEF Block, Refers

\* Programs of one instruction,
LEMMA PlainWellFormed ==
  ASSUME NEW c \in PlainPrograms PROVE WellFormed(c)
<1>1. PICK i \in Plain : c = <<i>>
  BY DEF PlainPrograms
<1>2. i.op \in PlainOps /\ "var" \notin DOMAIN i
  BY AsmAssumption
<1>3. ~Refers(i) /\ i.op # "label"
  BY <1>2, ReferringIs DEF Refers, PlainOps
<1>4. DOMAIN c = 1 .. 1 /\ c[1] = i /\ c = [k \in 1 .. 1 |-> c[k]]
  BY <1>1
<1>5. c \in Seq(Range(c))
  BY <1>4, MapRange
<1> QED
  BY <1>2, <1>3, <1>4, <1>5 DEF WellFormed

\* of data,
LEMMA DataWellFormed ==
  ASSUME NEW c \in DataPrograms PROVE WellFormed(c)
<1>1. PICK n \in Nat : c \in [1 .. n -> {Datum(d) : d \in Data}]
  BY AsmAssumption DEF DataPrograms
<1>2. \A k \in DOMAIN c : c[k].op = "datum"
  BY <1>1 DEF Datum
<1>3. \A k \in DOMAIN c : ~Refers(c[k])
  BY <1>2, ReferringIs DEF Refers
<1>4. c \in Seq(Range(c))
  BY <1>1, MapRange
<1> QED
  BY <1>2, <1>3, <1>4 DEF WellFormed

\* with one reference,
LEMMA OneWellFormed ==
  ASSUME NEW c \in OneReference PROVE WellFormed(c)
<1>1. PICK k \in DOMAIN Referring, n \in Distances, l \in {CHOOSE l \in Label : TRUE} :
        c \in {<<Ref(Referring[k], l), Block(n), Here(l)>>, <<Here(l), Block(n), Ref(Referring[k], l)>>}
  BY DEF OneReference
<1> DEFINE r == Ref(Referring[k], l)
           b == Block(n)
           h == Here(l)
<1>2. /\ Refers(r) /\ r.to = l /\ r.op # "label"
      /\ ~Refers(h) /\ h.op = "label" /\ h.to = l /\ h # r
  BY Kinded
<1>3. b.op = "block" /\ b.n \in Nat /\ ~Refers(b)
  BY AsmAssumption, BlockIs
<1>4. h = Here(r.to) /\ h = Here(h.to)
  BY <1>2
<1> HIDE DEF r, b, h
<1>5. CASE c = <<r, b, h>>
  <2>1. DOMAIN c = 1 .. 3 /\ c[1] = r /\ c[2] = b /\ c[3] = h
    BY <1>5
  <2>2. c = [q \in 1 .. 3 |-> c[q]]
    BY <1>5
  <2>3. c \in Seq(Range(c))
    BY <2>1, <2>2, MapRange
  <2> QED
    BY <1>2, <1>3, <1>4, <2>1, <2>3 DEF WellFormed
<1>6. CASE c = <<h, b, r>>
  <2>1. DOMAIN c = 1 .. 3 /\ c[1] = h /\ c[2] = b /\ c[3] = r
    BY <1>6
  <2>2. c = [q \in 1 .. 3 |-> c[q]]
    BY <1>6
  <2>3. c \in Seq(Range(c))
    BY <2>1, <2>2, MapRange
  <2> QED
    BY <1>2, <1>3, <1>4, <2>1, <2>3 DEF WellFormed
<1> QED
  BY <1>1, <1>5, <1>6 DEF r, b, h

\* and with several: an item of the shape has an odd position in the program.
LEMMA MixedWellFormed ==
  ASSUME NEW c \in MixedPrograms
  PROVE  WellFormed(c) /\ (Trailing <= 1 => OneTrails(c))
<1>1. PICK s \in Shapes, g \in [1 .. Length - 1 -> Gaps] :
        c = [k \in 1 .. 2 * Length - 1 |-> IF k % 2 = 1 THEN s[(k + 1) \div 2] ELSE Block(g[k \div 2])]
  BY DEF MixedPrograms
<1>2. Length \in Nat /\ Trailing \in Nat /\ Gaps \subseteq Nat /\ Kinds \subseteq {Referring[k] : k \in DOMAIN Referring}
  BY AsmAssumption
<1>3. /\ s \in [1 .. Length -> {Here(l) : l \in Label} \cup {Ref(o, l) : o \in Kinds, l \in Label}]
      /\ \A l \in Label : \E j \in 2 .. Length : {k \in DOMAIN s : s[k] = Here(l)} = {j}
      /\ \E k \in DOMAIN s : s[k].op = "label" /\ k >= Length - Trailing
  BY DEF Shapes
<1>4. PICK e \in 1 .. Length : s[e].op = "label" /\ e >= Length - Trailing
  BY <1>2, <1>3
<1> DEFINE n == 2 * Length - 1
\* A member of the shape.
<1>5. \A j \in 1 .. Length :
        \/ \E l \in Label : s[j] = Here(l) /\ ~Refers(s[j]) /\ s[j].op = "label" /\ s[j].to = l
        \/ \E l \in Label : Refers(s[j]) /\ s[j].op # "label" /\ s[j].to = l
  <2> TAKE j \in 1 .. Length
  <2>1. CASE \E l \in Label : s[j] = Here(l)
    <3>1. "goto" \in {Referring[k] : k \in DOMAIN Referring}
      BY ReferringIs
    <3> QED
      BY <2>1, <3>1, Kinded
  <2>2. CASE \E o \in Kinds, l \in Label : s[j] = Ref(o, l)
    BY <1>2, <2>2, Kinded
  <2> QED
    BY <1>3, <2>1, <2>2
\* Where it is in the program.
<1>6. \A j \in 1 .. Length : 2*j - 1 \in 1 .. n /\ c[2*j - 1] = s[j]
  <2> TAKE j \in 1 .. Length
  <2>1. 2*j - 1 \in 1 .. n /\ (2*j - 1) % 2 = 1 /\ (2*j - 1 + 1) \div 2 = j
    BY <1>2
  <2> QED
    BY <1>1, <2>1
<1>7. \A k \in 1 .. n :
        \/ \E j \in 1 .. Length : k = 2*j - 1 /\ c[k] = s[j]
        \/ c[k].op = "block" /\ c[k].n \in Nat /\ ~Refers(c[k])
  <2> TAKE k \in 1 .. n
  <2>1. CASE k % 2 = 1
    <3>1. PICK j \in Int : k = 2*j - 1
      <4>1. k = 2 * (k \div 2) + 1 /\ k \div 2 \in Int
        BY <2>1
      <4>2. PICK q \in Int : k = 2*q + 1
        BY <4>1
      <4>3. k = 2*(q+1) - 1 /\ q+1 \in Int
        BY <4>2
      <4> QED
        BY <4>3
    <3>2. j \in 1 .. Length
      BY <1>2, <3>1
    <3> QED
      BY <1>6, <3>1, <3>2
  <2>2. CASE k % 2 # 1
    <3>1. c[k] = Block(g[k \div 2])
      BY <1>1, <2>2
    <3>2. k \div 2 \in 1 .. Length - 1
      <4>1. k = 2 * (k \div 2) /\ k \div 2 \in Int
        BY <2>2
      <4>2. PICK q \in Int : q = k \div 2 /\ k = 2*q
        BY <4>1
      <4>3. q \in 1 .. Length - 1
        BY <1>2, <4>2
      <4> QED
        BY <4>2, <4>3
    <3>3. g[k \div 2] \in Nat
      BY <1>2, <3>2
    <3> QED
      BY <3>1, <3>3, BlockIs
  <2> QED
    BY <2>1, <2>2
<1>8. DOMAIN c = 1 .. n /\ n \in Nat
  BY <1>1, <1>2, <1>4
<1> HIDE DEF n
<1>9. c \in Seq(Range(c))
  <2>1. c = [k \in 1 .. n |-> c[k]]
    BY <1>1, <1>8 DEF n
  <2> QED
    BY <1>8, <2>1, MapRange
<1>10. ASSUME NEW l \in Label
       PROVE  /\ \E k \in 1 .. n : c[k] = Here(l)
              /\ \A j, k \in 1 .. Length : s[j] = Here(l) /\ s[k] = Here(l) => j = k
  <2>1. PICK m \in 2 .. Length : {k \in DOMAIN s : s[k] = Here(l)} = {m}
    BY <1>3
  <2>2. \A k \in 1 .. Length : s[k] = Here(l) <=> k = m
    BY <1>3, <2>1
  <2>3. m \in 1 .. Length /\ s[m] = Here(l)
    BY <2>2
  <2> QED
    BY <1>6, <2>2, <2>3
<1>11. ASSUME NEW k \in 1 .. n
       PROVE  \/ Refers(c[k]) /\ \E j \in 1 .. n : c[j] = Here(c[k].to)
              \/ c[k].op = "label" /\ c[k] = Here(c[k].to)
              \/ c[k].op = "block" /\ c[k].n \in Nat
  BY <1>5, <1>7, <1>10
<1>12. ASSUME NEW j \in 1 .. n, NEW k \in 1 .. n, c[j].op = "label", c[j] = c[k]
       PROVE  j = k
  <2>1. PICK j1 \in 1 .. Length : j = 2*j1 - 1 /\ c[j] = s[j1]
    BY <1>7, <1>12
  <2>2. PICK k1 \in 1 .. Length : k = 2*k1 - 1 /\ c[k] = s[k1]
    BY <1>7, <1>12
  <2>3. PICK l \in Label : s[j1] = Here(l)
    BY <1>5, <1>12, <2>1
  <2>4. j1 = k1
    BY <1>10, <1>12, <2>1, <2>2, <2>3
  <2> QED
    BY <2>1, <2>2, <2>4
<1>13. ASSUME Trailing <= 1, NEW j \in 1 .. n, NEW k \in 1 .. n, j < k, Refers(c[j]), Refers(c[k])
       PROVE  \E m \in 1 .. n : j < m /\ c[m].op = "label"
  <2>1. PICK j1 \in 1 .. Length : j = 2*j1 - 1 /\ c[j] = s[j1]
    BY <1>7, <1>13
  <2>2. PICK k1 \in 1 .. Length : k = 2*k1 - 1 /\ c[k] = s[k1]
    BY <1>7, <1>13
  <2>3. j1 < k1 /\ j1 <= Length - 1
    BY <1>2, <1>13, <2>1, <2>2
  <2>4. j1 # e
    BY <1>4, <1>5, <1>13, <2>1
  <2>5. j1 < e
    <3>1. e \in Nat /\ e >= Length - 1
      BY <1>2, <1>4, <1>13
    <3> QED
      BY <1>2, <2>3, <2>4, <3>1
  <2>6. 2*e - 1 \in 1 .. n /\ c[2*e - 1] = s[e] /\ j < 2*e - 1
    BY <1>6, <2>1, <2>5
  <2> QED
    BY <1>4, <2>6
<1>14. WellFormed(c)
  BY <1>8, <1>9, <1>11, <1>12 DEF WellFormed
<1>15. Trailing <= 1 => OneTrails(c)
  BY <1>8, <1>13 DEF OneTrails
<1> QED
  BY <1>14, <1>15

\* The other programs have no two references.
LEMMA FewTrail ==
  ASSUME NEW c \in PlainPrograms \cup DataPrograms \cup OneReference
  PROVE  OneTrails(c)
<1>1. CASE c \in PlainPrograms
  <2>1. DOMAIN c = 1 .. 1
    BY <1>1 DEF PlainPrograms
  <2> QED
    BY <2>1 DEF OneTrails
<1>2. CASE c \in DataPrograms
  <2>1. PICK n \in Nat : c \in [1 .. n -> {Datum(d) : d \in Data}]
    BY <1>2, AsmAssumption DEF DataPrograms
  <2>2. \A k \in DOMAIN c : c[k].op = "datum"
    BY <2>1 DEF Datum
  <2>3. \A k \in DOMAIN c : ~Refers(c[k])
    BY <2>2, ReferringIs DEF Refers
  <2> QED
    BY <2>3 DEF OneTrails
<1>3. CASE c \in OneReference
  <2>1. PICK k \in DOMAIN Referring, n \in Distances, l \in {CHOOSE l \in Label : TRUE} :
          c \in {<<Ref(Referring[k], l), Block(n), Here(l)>>, <<Here(l), Block(n), Ref(Referring[k], l)>>}
    BY <1>3 DEF OneReference
  <2>2. ~Refers(Here(l)) /\ ~Refers(Block(n))
    BY AsmAssumption, Kinded, BlockIs
  <2>3. DOMAIN c = 1 .. 3 /\ ~Refers(c[2]) /\ (~Refers(c[1]) \/ ~Refers(c[3]))
    <3> DEFINE r == Ref(Referring[k], l)
               b == Block(n)
               h == Here(l)
    <3> HIDE DEF r, b, h
    <3>1. c = <<r, b, h>> \/ c = <<h, b, r>>
      BY <2>1 DEF r, b, h
    <3>2. ~Refers(h) /\ ~Refers(b)
      BY <2>2 DEF h, b
    <3> QED
      BY <3>1, <3>2
  <2>4. \A i, j \in 1 .. 3 : i < j => i = 2 \/ j = 2 \/ (i = 1 /\ j = 3)
    OBVIOUS
  <2> QED
    BY <2>3, <2>4 DEF OneTrails
<1> QED
  BY <1>1, <1>2, <1>3

\* The specification starts with programs that have what the assembler takes for granted.
LEMMA InitGiven == Init => Given /\ (Trailing <= 1 => OneTrails(code))
<1> SUFFICES ASSUME Init PROVE Given /\ (Trailing <= 1 => OneTrails(code))
  OBVIOUS
<1>1. PICK p \in Programs : others = p[1] /\ code = p[2]
  BY DEF Init
<1>2. others \in Nat /\ code \in PlainPrograms \cup OneReference \cup DataPrograms \cup MixedPrograms
  <2>1. CASE p \in Counts \X (PlainPrograms \cup OneReference)
    BY <1>1, <2>1, AsmAssumption
  <2>2. CASE p \in {0} \X (DataPrograms \cup MixedPrograms)
    BY <1>1, <2>2
  <2> QED
    BY <2>1, <2>2 DEF Programs
<1>3. WellFormed(code)
  BY <1>2, PlainWellFormed, OneWellFormed, DataWellFormed, MixedWellFormed
<1>4. Trailing <= 1 => OneTrails(code)
  BY <1>2, FewTrail, MixedWellFormed
<1> QED
  BY <1>2, <1>3, <1>4 DEF Given, Init

(***************************************************************************)
(* ReferencesReach, for all numbers of constants and all programs of the   *)
(* specification with at most one reference after the last label. (With    *)
(* two of them it does not hold: see AsmTrailing.)                         *)
(***************************************************************************)
THEOREM ReferencesReachTheirLabels ==
  ASSUME Trailing <= 1
  PROVE  Spec => [](Room => ReferencesReach)
<1>1. Init => Rounds
  BY InitGiven, GivenRounds
<1>2. Rounds => (Room => ReferencesReach)
  BY RoundsReach
<1> QED
  BY <1>1, <1>2, StepRounds, PTL DEF Spec

(***************************************************************************)
(* PlainDecoded, for all numbers of constants and all programs of the      *)
(* specification whose numbers have room. (The seventeenth global has no   *)
(* form that is read as meant: see AsmGlobals.)                            *)
(***************************************************************************)
THEOREM InstructionsAreMeant ==
  Spec => [](Small => PlainDecoded)
<1>1. Laid => (Small => PlainDecoded)
  BY LaidDecodes
<1> QED
  BY <1>1, InitGiven, GivenLaid, StepLaid, PTL DEF Spec

-----------------------------------------------------------------------------
(* The sums of the lines.                                                  *)

Totals(P, n, s) == P[0] = 0 /\ \A k \in 1 .. n : P[k] = P[k-1] + s[k]

\* SumOf is the last of the sums of the first bytes.
LEMMA SumIs ==
  ASSUME NEW n \in Nat, NEW s \in [1 .. n -> Int]
  PROVE  \E P \in [0 .. n -> Int] : Totals(P, n, s) /\ SumOf(s) = P[n]
<1> DEFINE G == [p \in Int \X (1 .. n) |-> p[1] + s[p[2]]]
           Rec(it) == [t \in SUBSET (1 .. n) |-> IF t = {} THEN 0 ELSE it[t \ {Max(t)}] + s[Max(t)]]
           fold == CHOOSE it : it = Rec(it)
           P == [k \in 0 .. n |-> fold[1 .. k]]
<1>1. SumOf(s) = fold[1 .. n]
  BY DEF SumOf, FoldLeft, MapThenFoldSet
<1>2. PICK it \in [SUBSET (1 .. n) -> Int] : it = Rec(it)
  <2>1. G \in [Int \X (1 .. n) -> Int]
    OBVIOUS
  <2>2. \A v \in Int, k \in 1 .. n : G[<<v, k>>] = v + s[k]
    OBVIOUS
  <2> HIDE DEF G
  <2>3. PICK it \in [SUBSET (1 .. n) -> Int] : Folds(it, n, 0, G)
    <3>1. 0 \in Int
      OBVIOUS
    <3> QED
      BY <2>1, <3>1, FoldExists
  <2>4. ASSUME NEW t \in SUBSET (1 .. n)
        PROVE  it[t] = IF t = {} THEN 0 ELSE it[t \ {Max(t)}] + s[Max(t)]
    <3>1. it[t] = IF t = {} THEN 0 ELSE G[<<it[t \ {Max(t)}], Max(t)>>]
      BY <2>3 DEF Folds
    <3>2. CASE t # {}
      <4>1. Max(t) \in 1 .. n /\ it[t \ {Max(t)}] \in Int
        BY <2>3, <3>2, MaxIs
      <4> QED
        BY <2>2, <3>1, <3>2, <4>1
    <3> QED
      BY <3>1, <3>2
  <2>5. it = Rec(it)
    BY <2>3, <2>4
  <2> HIDE DEF Rec
  <2> QED
    BY <2>5
<1>3. fold = Rec(fold)
  <2> HIDE DEF Rec
  <2> QED
    BY <1>2
<1> HIDE DEF fold
<1>4. P[0] = 0
  <2>1. 1 .. 0 = {} /\ 1 .. 0 \in SUBSET (1 .. n)
    OBVIOUS
  <2> QED
    BY <1>3, <2>1
<1>5. ASSUME NEW i \in 1 .. n PROVE P[i] = P[i-1] + s[i]
  <2>0. (1 .. i) \ {i} = 1 .. i-1
    OBVIOUS
  <2>1. 1 .. i \in SUBSET (1 .. n) /\ 1 .. i # {} /\ i \in 1 .. i
    OBVIOUS
  <2>2. Max(1 .. i) = i
    <3>1. Max(1 .. i) \in 1 .. i /\ \A y \in 1 .. i : y <= Max(1 .. i)
      BY <2>1, MaxIs
    <3> QED
      BY <2>1, <3>1
  <2>3. fold[1 .. i] = fold[(1 .. i) \ {Max(1 .. i)}] + s[Max(1 .. i)]
    BY <1>3, <2>1
  <2>4. fold[1 .. i] = fold[1 .. i-1] + s[i]
    BY <2>0, <2>2, <2>3, Zenon
  <2>5. i \in 0 .. n /\ i-1 \in 0 .. n
    OBVIOUS
  <2> QED
    BY <2>4, <2>5
<1> HIDE DEF P
<1>6. \A k \in 0 .. n : P[k] \in Int
  <2> DEFINE Bad == {k \in 0 .. n : P[k] \notin Int}
  <2>1. SUFFICES ASSUME Bad # {} PROVE FALSE
    OBVIOUS
  <2>2. PICK i \in Bad : \A j \in Bad : i <= j
    <3>1. Bad \in SUBSET Nat
      OBVIOUS
    <3> HIDE DEF Bad
    <3> QED
      BY <2>1, <3>1, Smallest
  <2>3. i # 0 /\ i \in 1 .. n /\ i - 1 \in 0 .. n
    BY <1>4, <2>2
  <2>4. P[i-1] \in Int /\ s[i] \in Int
    BY <2>2, <2>3
  <2> QED
    BY <1>5, <2>2, <2>3, <2>4
<1>7. P \in [0 .. n -> Int]
  BY <1>6 DEF P
<1>8. SumOf(s) = P[n]
  BY <1>1 DEF P
<1> QED
  BY <1>4, <1>5, <1>7, <1>8 DEF Totals

\* One number more,
LEMMA SumAppended ==
  ASSUME NEW n \in Nat, NEW s \in [1 .. n -> Int], NEW t \in [1 .. n+1 -> Int], \A k \in 1 .. n : t[k] = s[k]
  PROVE  SumOf(s) \in Int /\ SumOf(t) = SumOf(s) + t[n+1]
<1>1. PICK P \in [0 .. n -> Int] : Totals(P, n, s) /\ SumOf(s) = P[n]
  BY SumIs
<1>2. n + 1 \in Nat
  OBVIOUS
<1>3. PICK Q \in [0 .. n+1 -> Int] : Totals(Q, n+1, t) /\ SumOf(t) = Q[n+1]
  BY <1>2, SumIs
<1> DEFINE Bad == {k \in 0 .. n : Q[k] # P[k]}
<1>4. Bad = {}
  <2>1. SUFFICES ASSUME Bad # {} PROVE FALSE
    OBVIOUS
  <2>2. PICK i \in Bad : \A j \in Bad : i <= j
    <3>1. Bad \in SUBSET Nat
      OBVIOUS
    <3> HIDE DEF Bad
    <3> QED
      BY <2>1, <3>1, Smallest
  <2>3. i # 0 /\ i \in 1 .. n /\ i \in 1 .. n+1 /\ i - 1 \in 0 .. n
    BY <1>1, <1>3, <2>2 DEF Totals
  <2>4. Q[i-1] = P[i-1]
    BY <2>2, <2>3
  <2>5. Q[i] = Q[i-1] + t[i] /\ P[i] = P[i-1] + s[i]
    BY <1>1, <1>3, <2>3 DEF Totals
  <2> QED
    BY <2>2, <2>3, <2>4, <2>5
<1>5. Q[n] = P[n] /\ n + 1 \in 1 .. n + 1
  <2>1. \A k \in 0 .. n : Q[k] = P[k]
    BY <1>4
  <2> QED
    BY <2>1
<1>6. Q[n+1] = Q[n] + t[n+1]
  BY <1>3, <1>5 DEF Totals
<1> QED
  BY <1>1, <1>3, <1>5, <1>6

\* and another one in its place.
LEMMA SumChanged ==
  ASSUME NEW n \in Nat, NEW s \in [1 .. n -> Int], NEW t \in [1 .. n -> Int], NEW j \in 1 .. n,
         \A k \in 1 .. n : k # j => t[k] = s[k]
  PROVE  SumOf(s) \in Int /\ SumOf(t) = SumOf(s) - s[j] + t[j]
<1>1. PICK P \in [0 .. n -> Int] : Totals(P, n, s) /\ SumOf(s) = P[n]
  BY SumIs
<1>2. PICK Q \in [0 .. n -> Int] : Totals(Q, n, t) /\ SumOf(t) = Q[n]
  BY SumIs
<1> DEFINE d == [k \in 0 .. n |-> IF k >= j THEN t[j] - s[j] ELSE 0]
           Bad == {k \in 0 .. n : Q[k] # P[k] + d[k]}
<1>3. /\ d \in [0 .. n -> Int] /\ d[0] = 0 /\ d[n] = t[j] - s[j]
      /\ \A k \in 1 .. n : d[k] = d[k-1] + (t[k] - s[k])
  <2>1. PICK c \in Int : c = t[j] - s[j]
    OBVIOUS
  <2>2. \A k \in 0 .. n : d[k] = IF k >= j THEN c ELSE 0
    BY <2>1
  <2>3. d \in [0 .. n -> Int]
    BY <2>1
  <2> HIDE DEF d
  <2>4. d[0] = 0 /\ d[n] = t[j] - s[j]
    <3>1. 0 \in 0 .. n /\ n \in 0 .. n /\ ~(0 >= j) /\ n >= j
      OBVIOUS
    <3> QED
      BY <2>1, <2>2, <3>1
  <2>5. ASSUME NEW k \in 1 .. n PROVE d[k] = d[k-1] + (t[k] - s[k])
    <3>1. k \in 0 .. n /\ k - 1 \in 0 .. n
      OBVIOUS
    <3>2. CASE k = j
      <4>1. d[k] = c /\ d[k-1] = 0 /\ t[k] - s[k] = c
        BY <2>1, <2>2, <3>1, <3>2
      <4> QED
        BY <4>1
    <3>3. CASE k # j
      <4>1. t[k] = s[k] /\ s[k] \in Int
        BY <3>3
      <4>2. t[k] - s[k] = 0
        BY <4>1
      <4>3. d[k] = d[k-1] /\ d[k] \in Int
        BY <2>2, <3>1, <3>3
      <4> QED
        BY <4>2, <4>3
    <3> QED
      BY <3>2, <3>3
  <2> QED
    BY <2>3, <2>4, <2>5
<1> HIDE DEF d
<1>4. \A k \in 0 .. n : Q[k] = P[k] + d[k]
  <2>1. SUFFICES ASSUME Bad # {} PROVE FALSE
    OBVIOUS
  <2>2. PICK i \in Bad : \A k \in Bad : i <= k
    <3>1. Bad \in SUBSET Nat
      OBVIOUS
    <3> HIDE DEF Bad
    <3> QED
      BY <2>1, <3>1, Smallest
  <2>3. Q[0] = 0 /\ P[0] = 0 /\ d[0] = 0 /\ i \in 0 .. n /\ Q[i] # P[i] + d[i]
    BY <1>1, <1>2, <1>3, <2>2 DEF Totals
  <2>4. i # 0 /\ i \in 1 .. n /\ i - 1 \in 0 .. n
    BY <2>3
  <2>5. PICK p \in Int, x \in Int, a \in Int, b \in Int : p = P[i-1] /\ x = d[i-1] /\ a = t[i] /\ b = s[i]
    BY <1>3, <2>4
  <2>6. Q[i-1] = p + x
    BY <2>2, <2>4, <2>5
  <2>7. Q[i] = Q[i-1] + a /\ P[i] = p + b /\ d[i] = x + (a - b)
    BY <1>1, <1>2, <1>3, <2>4, <2>5 DEF Totals
  <2>8. (p + x) + a = (p + b) + (x + (a - b))
    OBVIOUS
  <2> QED
    BY <2>3, <2>6, <2>7, <2>8, Zenon
<1>5. s[j] \in Int /\ t[j] \in Int /\ P[n] \in Int
  OBVIOUS
<1> QED
  BY <1>1, <1>2, <1>3, <1>4, <1>5

-----------------------------------------------------------------------------
(* The lines of a file.                                                    *)

Octet == 0 .. 255

\* One sequence after another.
Joins(s, t, u) ==
  /\ Len(u) = Len(s) + Len(t)
  /\ \A k \in 1 .. Len(s) : u[k] = s[k]
  /\ \A k \in 1 .. Len(t) : u[Len(s) + k] = t[k]

LEMMA Joined ==
  ASSUME NEW S, NEW s \in Seq(S), NEW t \in Seq(S)
  PROVE  s \o t \in Seq(S) /\ Joins(s, t, s \o t)
<1>1. PICK u : u = s \o t
  OBVIOUS
<1>2. PICK m \in Nat : m = Len(s)
  OBVIOUS
<1>3. PICK n \in Nat : n = Len(t)
  OBVIOUS
<1>4. /\ u \in Seq(S) /\ Len(u) = m + n
      /\ \A k \in 1 .. m + n : u[k] = IF k <= m THEN s[k] ELSE t[k - m]
  BY <1>1, <1>2, <1>3, ConcatProperties
<1>5. ASSUME NEW k \in 1 .. m PROVE u[k] = s[k]
  <2>1. k \in 1 .. m + n /\ k <= m
    OBVIOUS
  <2> QED
    BY <1>4, <2>1
<1>6. ASSUME NEW k \in 1 .. n PROVE u[m + k] = t[k]
  <2>1. m + k \in 1 .. m + n /\ ~(m + k <= m) /\ m + k - m = k
    OBVIOUS
  <2> QED
    BY <1>4, <2>1
<1>7. Joins(s, t, u)
  BY <1>2, <1>3, <1>4, <1>5, <1>6 DEF Joins
<1> QED
  BY <1>1, <1>4, <1>7

\* An element more.
LEMMA Extended ==
  ASSUME NEW S, NEW s, s \in Seq(S), NEW m \in Nat, Len(s) = m, NEW e \in S
  PROVE  /\ s \in [1 .. m -> S]
         /\ Append(s, e) \in [1 .. m+1 -> S] /\ Append(s, e)[m+1] = e
         /\ \A k \in 1 .. m : Append(s, e)[k] = s[k]
<1>1. PICK v : v = Append(s, e)
  OBVIOUS
<1>2. /\ v \in Seq(S) /\ Len(v) = m + 1 /\ v[m+1] = e
      /\ \A k \in 1 .. m : v[k] = s[k]
  <2>1. /\ v \in Seq(S) /\ Len(v) = Len(s) + 1 /\ v[Len(s) + 1] = e
        /\ \A k \in 1 .. Len(s) : v[k] = s[k]
    BY <1>1, AppendProperties
  <2> QED
    BY <2>1
<1>3. v \in [1 .. m+1 -> S] /\ s \in [1 .. m -> S]
  BY <1>2
<1> QED
  BY <1>1, <1>2, <1>3

\* A number of 16 bits has two bytes.
LEMMA TwoBytes ==
  ASSUME NEW a \in Nat, a < MemorySize
  PROVE  High(a) \in Octet /\ Low(a) \in Octet /\ Word(High(a), Low(a)) = a
<1>1. PICK q \in Int : q = High(a)
  BY DEF High
<1>2. PICK r \in Int : r = Low(a)
  BY DEF Low
<1>3. a = 256 * q + r /\ 0 <= r /\ r <= 255
  BY <1>1, <1>2 DEF High, Low
<1>4. 0 <= q /\ q <= 255
  BY <1>3 DEF MemorySize
<1>5. q \in Octet /\ r \in Octet
  BY <1>3, <1>4 DEF Octet
<1>6. Word(q, r) = a
  BY <1>3 DEF Word
<1> QED
  BY <1>1, <1>2, <1>5, <1>6

\* The last byte makes up for the others,
LEMMA Balanced ==
  ASSUME NEW sum \in Int
  PROVE  Low(-sum) \in Octet /\ Low(sum + Low(-sum)) = 0
  BY DEF Octet, Low

\* and no other one does.
LEMMA Unbalanced ==
  ASSUME NEW sum \in Int, Low(sum) = 0, NEW byte \in Octet
  PROVE  Low(byte + 1) \in Octet /\ Low(sum - byte + Low(byte + 1)) # 0
<1>1. PICK to : to = Low(byte + 1)
  OBVIOUS
<1>2. byte \in Int /\ (to = byte + 1 \/ to = byte - 255) /\ to \in Octet
  BY <1>1 DEF Octet, Low
<1>3. sum - byte + to = sum + 1 \/ sum - byte + to = sum - 255
  BY <1>2
<1> QED
  BY <1>1, <1>2, <1>3 DEF Low

\* Bytes are numbers.
LEMMA OctetIs == Octet \subseteq Int /\ 0 \in Octet /\ 1 \in Octet /\ 0 .. 16 \subseteq Octet
  BY DEF Octet

\* What is in a line of the given type and address.
Frames(line, type, addr, bytes) ==
  /\ line \in [1 .. Len(bytes) + 5 -> Octet]
  /\ line[1] = Len(bytes) /\ Word(line[2], line[3]) = addr /\ line[4] = type
  /\ \A j \in 1 .. Len(bytes) : line[4 + j] = bytes[j]
  /\ Low(SumOf(line)) = 0

LEMMA LineIs ==
  ASSUME NEW type \in {0, 1}, NEW addr \in Nat, addr < MemorySize, NEW bytes \in Seq(Octet), Len(bytes) \in Octet
  PROVE  Frames(Line(type, addr, bytes), type, addr, bytes)
<1> PICK line : line = Line(type, addr, bytes)
  OBVIOUS
<1> PICK n \in Nat : n = Len(bytes)
  OBVIOUS
<1>1. PICK start : start = <<n, High(addr), Low(addr), type>>
  OBVIOUS
<1>2. PICK fields : fields = start \o bytes
  OBVIOUS
<1>3. PICK last : last = Low(-SumOf(fields))
  OBVIOUS
<1>4. line = Append(fields, last)
  BY <1>1, <1>2, <1>3 DEF Line
<1>5. PICK p \in Nat : p = 4
  OBVIOUS
<1>6. /\ start \in Seq(Octet) /\ Len(start) = p
      /\ start[1] = n /\ start[2] = High(addr) /\ start[3] = Low(addr) /\ start[4] = type
  <2>1. n \in Octet /\ type \in Octet
    BY OctetIs
  <2>2. High(addr) \in Octet /\ Low(addr) \in Octet
    BY TwoBytes
  <2> QED
    BY <1>1, <1>5, <2>1, <2>2
<1>7. PICK m \in Nat : m = p + n
  OBVIOUS
<1>8. /\ fields \in Seq(Octet) /\ Len(fields) = m
      /\ \A k \in 1 .. p : fields[k] = start[k]
      /\ \A k \in 1 .. n : fields[p + k] = bytes[k]
  <2>2. start \in Seq(Octet) /\ Len(start) = p
    BY <1>6
  <2>3. fields \in Seq(Octet) /\ Joins(start, bytes, fields)
    BY <1>2, <2>2, Joined
  <2> QED
    BY <1>7, <2>2, <2>3 DEF Joins
<1>9. fields \in [1 .. m -> Int]
  <2>1. fields \in [1 .. m -> Octet]
    BY <1>8
  <2> QED
    BY <2>1, OctetIs
<1>10. SumOf(fields) \in Int
  <2>1. PICK P \in [0 .. m -> Int] : SumOf(fields) = P[m]
    BY <1>9, SumIs
  <2> QED
    BY <2>1
<1>11. last \in Octet /\ Low(SumOf(fields) + last) = 0
  BY <1>3, <1>10, Balanced
<1>12. /\ line \in [1 .. m+1 -> Octet] /\ line[m+1] = last
       /\ \A k \in 1 .. m : line[k] = fields[k]
       /\ \A k \in 1 .. p : line[k] = start[k]
       /\ \A k \in 1 .. n : line[p + k] = bytes[k]
  <2>1. /\ line \in [1 .. m+1 -> Octet] /\ line[m+1] = last
        /\ \A k \in 1 .. m : line[k] = fields[k]
    BY <1>4, <1>8, <1>11, Extended
  <2>2. (\A k \in 1 .. p : k \in 1 .. m) /\ \A k \in 1 .. n : p + k \in 1 .. m
    BY <1>7
  <2> QED
    BY <1>8, <2>1, <2>2
<1>13. SumOf(line) = SumOf(fields) + last
  <2>1. line \in [1 .. m+1 -> Int]
    BY <1>12, OctetIs
  <2> QED
    BY <1>9, <1>12, <2>1, SumAppended
<1>14. line[1] = n /\ line[2] = High(addr) /\ line[3] = Low(addr) /\ line[4] = type
  <2>1. 1 \in 1 .. p /\ 2 \in 1 .. p /\ 3 \in 1 .. p /\ 4 \in 1 .. p
    BY <1>5
  <2> QED
    BY <1>6, <1>12, <2>1
<1>15. Word(line[2], line[3]) = addr
  BY <1>14, TwoBytes
<1>16. line \in [1 .. n+5 -> Octet]
  <2>1. m + 1 = n + 5
    BY <1>5, <1>7
  <2> QED
    BY <1>12, <2>1
<1>17. \A j \in 1 .. n : line[4 + j] = bytes[j]
  BY <1>5, <1>12
<1> QED
  BY <1>11, <1>13, <1>14, <1>15, <1>16, <1>17 DEF Frames

\* The machine sees that a byte of it was altered.
LEMMA AlteredIs ==
  ASSUME NEW n \in Nat, n >= 5, NEW line \in [1 .. n -> Octet], Low(SumOf(line)) = 0, NEW other \in Altered(line)
  PROVE  Low(SumOf(other)) # 0
<1>1. Len(line) = n
  OBVIOUS
<1>2. PICK j \in {2, 3, 4, 5, n} : other = [line EXCEPT ![j] = Low(@ + 1)]
  BY <1>1 DEF Altered
<1>3. j \in 1 .. n /\ line[j] \in Octet
  OBVIOUS
<1>4. PICK to : to = Low(line[j] + 1)
  OBVIOUS
<1>5. other = [line EXCEPT ![j] = to]
  BY <1>2, <1>4
<1>6. SumOf(line) \in Int
  <2>1. line \in [1 .. n -> Int]
    BY OctetIs
  <2>2. PICK P \in [0 .. n -> Int] : SumOf(line) = P[n]
    BY <2>1, SumIs
  <2> QED
    BY <2>2
<1>7. to \in Octet /\ Low(SumOf(line) - line[j] + to) # 0
  BY <1>3, <1>4, <1>6, Unbalanced
<1>8. /\ other \in [1 .. n -> Octet] /\ other[j] = to
      /\ \A k \in 1 .. n : k # j => other[k] = line[k]
  BY <1>3, <1>5, <1>7
<1>9. SumOf(other) = SumOf(line) - line[j] + to
  <2>1. line \in [1 .. n -> Int] /\ other \in [1 .. n -> Int]
    BY <1>8, OctetIs
  <2> QED
    BY <1>3, <1>8, <2>1, SumChanged
<1> QED
  BY <1>7, <1>9

-----------------------------------------------------------------------------
(* The file.                                                               *)

\* How many of n bytes are in the first m lines, but the last.
Upto(m, n) == IF m = 0 THEN 0 ELSE IF 16 * (m-1) < n THEN 16 * (m-1) ELSE n

\* The number of lines with bytes.
Chunks(n) == (n + 15) \div 16

Ends(n) == Chunks(n) + 2

\* Each line goes on where the one before ended.
LEMMA UptoIs ==
  ASSUME NEW n \in Nat, NEW c, c = Chunks(n)
  PROVE  /\ c \in Nat /\ Ends(n) = c + 2
         /\ \A m \in Nat : Upto(m, n) \in 0 .. n
         /\ \A m \in Nat : Upto(m+1, n) - Upto(m, n) \in 0 .. 16
         /\ Upto(0, n) = 0 /\ Upto(1, n) = 0
         /\ \A k \in 1 .. c : Upto(k, n) = 16 * (k-1)
         /\ \A k \in 1 .. c : Upto(k+1, n) = IF 16 * k < n THEN 16 * k ELSE n
         /\ Upto(c + 1, n) = n /\ Upto(c + 2, n) = n
<1>1. c \in Nat
  BY DEF Chunks
<1>2. 16 * c <= n + 15 /\ n + 15 < 16 * c + 16
  BY <1>1 DEF Chunks
<1>3. Ends(n) = c + 2
  BY DEF Ends
<1>4. ASSUME NEW m \in Nat
      PROVE  Upto(m, n) \in 0 .. n /\ Upto(m+1, n) - Upto(m, n) \in 0 .. 16
  <2>1. Upto(m+1, n) = IF 16 * m < n THEN 16 * m ELSE n
    BY DEF Upto
  <2> QED
    BY <2>1 DEF Upto
<1>5. Upto(0, n) = 0 /\ Upto(1, n) = 0
  BY DEF Upto
<1>6. ASSUME NEW k \in 1 .. c
      PROVE  Upto(k, n) = 16 * (k-1) /\ Upto(k+1, n) = IF 16 * k < n THEN 16 * k ELSE n
  BY <1>1, <1>2 DEF Upto
<1>7. Upto(c + 1, n) = n /\ Upto(c + 2, n) = n
  BY <1>1, <1>2 DEF Upto
<1> QED
  BY <1>1, <1>3, <1>4, <1>5, <1>6, <1>7

\* They are all at the end, and never more than 255 in a line.
LEMMA UptoIn ==
  ASSUME NEW n \in Nat, NEW m \in Nat
  PROVE  /\ Upto(m, n) \in Nat /\ Upto(m, n) <= n
         /\ Upto(m+1, n) - Upto(m, n) \in Nat /\ Upto(m+1, n) - Upto(m, n) \in Octet
<1>1. Upto(m, n) \in 0 .. n /\ Upto(m+1, n) - Upto(m, n) \in 0 .. 16
  BY UptoIs
<1> QED
  BY <1>1, OctetIs

LEMMA UptoEnd ==
  ASSUME NEW n \in Nat
  PROVE  /\ Ends(n) \in Nat /\ Ends(n) >= 2 /\ Upto(0, n) = 0
         /\ Upto(Ends(n) - 1, n) = n /\ Upto(Ends(n), n) = n
<1>1. PICK c : c = Chunks(n)
  OBVIOUS
<1>2. c \in Nat /\ Ends(n) = c + 2 /\ Upto(0, n) = 0 /\ Upto(c + 1, n) = n /\ Upto(c + 2, n) = n
  BY <1>1, UptoIs
<1>3. Ends(n) - 1 = c + 1
  BY <1>2
<1> QED
  BY <1>2, <1>3

\* The line m of the file has the next bytes.
LEMMA LinesIs ==
  ASSUME NEW n \in Nat, NEW bytes, bytes \in Seq(Octet), Len(bytes) = n, NEW lines, lines = Lines(bytes)
  PROVE  /\ \E S : lines \in Seq(S)
         /\ Len(lines) = Ends(n)
         /\ \A m \in 0 .. Ends(n) - 2 :
              lines[m+1] = Line(0, Upto(m, n), SubSeq(bytes, Upto(m, n) + 1, Upto(m+1, n)))
         /\ lines[Ends(n)] = Line(1, 0, << >>)
<1>1. PICK c \in Nat : c = Chunks(n)
  BY UptoIs
<1> DEFINE first == Line(0, 0, << >>)
           last == Line(1, 0, << >>)
           data(k) == Line(0, 16 * (k-1), SubSeq(bytes, 16 * (k-1) + 1, IF 16 * k < n THEN 16 * k ELSE n))
           S == {first, last} \cup {data(k) : k \in 1 .. c}
<1>2. PICK A : A = <<first>>
  OBVIOUS
<1>3. PICK B : B = [k \in 1 .. c |-> data(k)]
  OBVIOUS
<1>4. PICK Z : Z = <<last>>
  OBVIOUS
<1>5. lines = (A \o B) \o Z
  BY <1>1, <1>2, <1>3, <1>4 DEF Lines, Chunks
<1>6. first \in S /\ last \in S /\ \A k \in 1 .. c : data(k) \in S
  OBVIOUS
<1>7. \A k \in 1 .. c : data(k) = Line(0, Upto(k, n), SubSeq(bytes, Upto(k, n) + 1, Upto(k+1, n)))
  <2>1. \A k \in 1 .. c : Upto(k, n) = 16 * (k-1) /\ Upto(k+1, n) = IF 16 * k < n THEN 16 * k ELSE n
    BY <1>1, UptoIs
  <2> QED
    BY <2>1
<1>8. first = Line(0, Upto(0, n), SubSeq(bytes, Upto(0, n) + 1, Upto(1, n)))
  <2>1. SubSeq(bytes, 1, 0) = << >>
    BY SubSeqEmpty
  <2>2. Upto(0, n) + 1 = 1 /\ Upto(0, n) = 0 /\ Upto(1, n) = 0
    BY UptoIs
  <2> QED
    BY <2>1, <2>2, Zenon
<1> HIDE DEF first, last, data, S
<1>9. PICK one \in Nat : one = 1
  OBVIOUS
<1>10. A \in Seq(S) /\ Len(A) = one /\ A[1] = first
  BY <1>2, <1>6, <1>9
<1>11. B \in Seq(S) /\ Len(B) = c /\ \A k \in 1 .. c : B[k] = data(k)
  BY <1>3, <1>6
<1>12. Z \in Seq(S) /\ Len(Z) = one /\ Z[1] = last
  BY <1>4, <1>6, <1>9
<1>13. PICK AB : AB = A \o B
  OBVIOUS
<1>14. PICK m \in Nat : m = one + c
  OBVIOUS
<1>15. /\ AB \in Seq(S) /\ Len(AB) = m
       /\ \A k \in 1 .. one : AB[k] = A[k]
       /\ \A k \in 1 .. c : AB[one + k] = B[k]
  <2>1. A \in Seq(S) /\ Len(A) = one /\ B \in Seq(S) /\ Len(B) = c
    BY <1>10, <1>11
  <2>3. AB \in Seq(S) /\ Joins(A, B, AB)
    BY <1>13, <2>1, Joined
  <2> QED
    BY <1>14, <2>1, <2>3 DEF Joins
<1>16. PICK l \in Nat : l = m + one
  OBVIOUS
<1>17. /\ lines \in Seq(S) /\ Len(lines) = l
       /\ \A k \in 1 .. m : lines[k] = AB[k]
       /\ \A k \in 1 .. one : lines[m + k] = Z[k]
  <2>1. AB \in Seq(S) /\ Len(AB) = m /\ Z \in Seq(S) /\ Len(Z) = one
    BY <1>12, <1>15
  <2>3. lines \in Seq(S) /\ Joins(AB, Z, lines)
    BY <1>5, <1>13, <2>1, Joined
  <2> QED
    BY <1>16, <2>1, <2>3 DEF Joins
<1>18. l = Ends(n) /\ l = c + 2 /\ m = c + 1
  BY <1>1, <1>9, <1>14, <1>16, UptoIs
<1>19. lines[l] = last
  BY <1>9, <1>12, <1>16, <1>17
<1>20. lines[1] = first
  BY <1>9, <1>10, <1>14, <1>15, <1>17
<1>21. ASSUME NEW k \in 1 .. c PROVE lines[k+1] = data(k)
  BY <1>9, <1>11, <1>14, <1>15, <1>17
<1>22. ASSUME NEW k \in 0 .. c
       PROVE  lines[k+1] = Line(0, Upto(k, n), SubSeq(bytes, Upto(k, n) + 1, Upto(k+1, n)))
  <2>1. CASE k = 0
    BY <1>8, <1>20, <2>1
  <2>2. CASE k # 0
    <3>1. k \in 1 .. c
      BY <2>2
    <3> QED
      BY <1>7, <1>21, <3>1
  <2> QED
    BY <2>1, <2>2
<1> QED
  BY <1>1, <1>17, <1>18, <1>19, <1>22 DEF last

\* What the line after the first m is, in the bytes that the machine gets.
Carries(line, bytes, m, n, q) ==
  /\ line \in [1 .. q+5 -> Octet] /\ line[1] = q /\ Low(SumOf(line)) = 0
  /\ m + 1 = Ends(n) => line[4] = 1 /\ Word(line[2], line[3]) = 0
  /\ m + 1 # Ends(n) =>
       /\ line[4] = 0 /\ Word(line[2], line[3]) = Upto(m, n) /\ q = Upto(m+1, n) - Upto(m, n)
       /\ \A j \in 1 .. q : line[4 + j] = bytes[Upto(m, n) + j]

LEMMA NextLine ==
  ASSUME NEW n \in Nat, n < MemorySize, NEW bytes, bytes \in Seq(Octet), Len(bytes) = n,
         NEW m \in Nat, m < Ends(n)
  PROVE  \E q \in Nat : Carries(Lines(bytes)[m+1], bytes, m, n, q)
<1>0. PICK line : line = Lines(bytes)[m+1]
  OBVIOUS
<1>1. PICK e \in Nat : e = Ends(n) /\ e >= 2
  BY UptoEnd
<1>2. CASE m + 1 = e
  <2>1. line = Line(1, 0, << >>)
    BY <1>0, <1>1, <1>2, LinesIs
  <2>2. PICK none : none = << >>
    OBVIOUS
  <2>3. none \in Seq(Octet) /\ Len(none) = 0 /\ Len(none) \in Octet
    BY <2>2, OctetIs
  <2>4. 0 < MemorySize /\ 0 \in Nat /\ 1 \in {0, 1}
    BY DEF MemorySize
  <2>5. Frames(Line(1, 0, none), 1, 0, none)
    BY <2>3, <2>4, LineIs
  <2>6. /\ line \in [1 .. 0 + 5 -> Octet] /\ line[1] = 0 /\ Low(SumOf(line)) = 0
        /\ line[4] = 1 /\ Word(line[2], line[3]) = 0
    BY <2>1, <2>2, <2>3, <2>5 DEF Frames
  <2> QED
    BY <1>0, <1>1, <1>2, <2>6 DEF Carries
<1>3. CASE m + 1 # e
  <2>1. PICK a \in Nat : a = Upto(m, n) /\ a <= n
    BY UptoIn
  <2>2. PICK b \in Nat : b = Upto(m+1, n) /\ b <= n
    <3>1. m + 1 \in Nat
      OBVIOUS
    <3> QED
      BY <3>1, UptoIn
  <2>3. PICK q \in Nat : q = b - a /\ q \in Octet
    BY <2>1, <2>2, UptoIn
  <2>4. PICK part : part = [i \in 1 .. q |-> bytes[a + i]]
    OBVIOUS
  <2>5. SubSeq(bytes, a + 1, b) = part
    <3>1. SubSeq(bytes, a + 1, b) = [i \in 1 .. b - (a + 1) + 1 |-> bytes[a + 1 + i - 1]]
      BY DEF SubSeq
    <3>2. b - (a + 1) + 1 = q
      BY <2>3
    <3>3. \A i \in 1 .. q : a + 1 + i - 1 = a + i
      OBVIOUS
    <3> QED
      BY <2>4, <3>1, <3>2, <3>3
  <2>6. part \in Seq(Octet) /\ Len(part) = q /\ \A j \in 1 .. q : part[j] = bytes[a + j]
    <3>1. \A i \in 1 .. q : a + i \in 1 .. n
      BY <2>2, <2>3
    <3>2. \A i \in 1 .. q : bytes[a + i] \in Octet
      <4>1. bytes \in [1 .. n -> Octet]
        OBVIOUS
      <4> QED
        BY <3>1, <4>1
    <3>3. part \in [1 .. q -> Octet] /\ \A j \in 1 .. q : part[j] = bytes[a + j]
      BY <2>4, <3>2
    <3>4. part \in Seq(Octet) /\ Len(part) = q
      BY <3>3
    <3> QED
      BY <3>3, <3>4
  <2>7. line = Line(0, a, part)
    <3>1. m \in 0 .. Ends(n) - 2
      BY <1>1, <1>3
    <3>2. line = Line(0, Upto(m, n), SubSeq(bytes, Upto(m, n) + 1, Upto(m+1, n)))
      BY <1>0, <3>1, LinesIs
    <3> QED
      BY <2>1, <2>2, <2>5, <3>2
  <2>8. Frames(Line(0, a, part), 0, a, part)
    <3>1. a < MemorySize /\ 0 \in {0, 1}
      BY <2>1 DEF MemorySize
    <3>2. part \in Seq(Octet) /\ Len(part) \in Octet
      BY <2>3, <2>6
    <3> QED
      BY <3>1, <3>2, LineIs
  <2>9. /\ line \in [1 .. q + 5 -> Octet] /\ line[1] = q /\ Low(SumOf(line)) = 0
        /\ Word(line[2], line[3]) = a /\ line[4] = 0
        /\ \A j \in 1 .. q : line[4 + j] = part[j]
    BY <2>6, <2>7, <2>8 DEF Frames
  <2> QED
    BY <1>0, <1>1, <1>3, <2>1, <2>2, <2>3, <2>6, <2>9 DEF Carries
<1> QED
  BY <1>2, <1>3

-----------------------------------------------------------------------------
(* The file is read.                                                       *)

\* The machine has read the first m lines of the file with the given bytes.
Halfway(bytes, m) ==
  /\ \E S : file \in Seq(S)
  /\ Len(file) = Ends(Len(bytes)) - m
  /\ \A k \in 1 .. Ends(Len(bytes)) - m : file[k] = Lines(bytes)[m + k]
  /\ buffer = [a \in 0 .. Upto(m, Len(bytes)) - 1 |-> bytes[a + 1]]
  /\ max_addr = Upto(m, Len(bytes))

\* The next one is the first that is left.
LEMMA HeadIs ==
  ASSUME NEW n \in Nat, NEW bytes, bytes \in Seq(Octet), Len(bytes) = n,
         NEW m \in Nat, m <= Ends(n), Halfway(bytes, m)
  PROVE  /\ file # << >> <=> m < Ends(n)
         /\ m < Ends(n) =>
              /\ Head(file) = Lines(bytes)[m + 1]
              /\ \E S : Tail(file) \in Seq(S)
              /\ Len(Tail(file)) = Ends(n) - (m + 1)
              /\ \A k \in 1 .. Ends(n) - (m + 1) : Tail(file)[k] = Lines(bytes)[m + 1 + k]
<1>1. PICK e \in Nat : e = Ends(n)
  BY UptoEnd
<1>2. PICK S : file \in Seq(S)
  BY DEF Halfway
<1>3. Len(file) = e - m /\ \A k \in 1 .. e - m : file[k] = Lines(bytes)[m + k]
  BY <1>1 DEF Halfway
<1>4. file # << >> <=> m < e
  BY <1>1, <1>2, <1>3
<1>5. ASSUME m < e
      PROVE  /\ Head(file) = Lines(bytes)[m + 1]
             /\ Tail(file) \in Seq(S) /\ Len(Tail(file)) = e - (m + 1)
             /\ \A k \in 1 .. e - (m + 1) : Tail(file)[k] = Lines(bytes)[m + 1 + k]
  <2>1. Head(file) = file[1] /\ 1 \in 1 .. e - m
    BY <1>1, <1>2, <1>3, <1>5
  <2>2. /\ Tail(file) \in Seq(S) /\ Len(Tail(file)) = Len(file) - 1
        /\ \A k \in 1 .. Len(file) - 1 : Tail(file)[k] = file[k + 1]
    BY <1>2, <1>4, <1>5, HeadTailProperties
  <2>3. ASSUME NEW k \in 1 .. e - (m + 1) PROVE Tail(file)[k] = Lines(bytes)[m + 1 + k]
    <3>1. k \in 1 .. Len(file) - 1 /\ k + 1 \in 1 .. e - m /\ m + (k + 1) = m + 1 + k
      BY <1>1, <1>3
    <3> QED
      BY <1>3, <2>2, <3>1
  <2>4. Len(Tail(file)) = e - (m + 1)
    BY <1>1, <1>3, <2>2
  <2> QED
    BY <1>3, <2>1, <2>2, <2>3, <2>4
<1> QED
  BY <1>1, <1>4, <1>5

LEMMA InMemory ==
  ASSUME NEW a \in Nat, a < MemorySize
  PROVE  a % MemorySize = a /\ MemorySize \in Nat
  BY DEF MemorySize

\* What is stored below the end of the memory.
Placing(line, u, q) ==
  [a \in DOMAIN buffer \cup (u .. u + q - 1) |->
     IF a \in u .. u + q - 1 THEN line[5 + a - u] ELSE buffer[a]]

LEMMA StoredIs ==
  ASSUME NEW line, NEW u \in Nat, NEW q \in Nat, u + q < MemorySize
  PROVE  Stored(line, u, q) = Placing(line, u, q)
<1> DEFINE new == {(u + j) % MemorySize : j \in 0 .. q - 1}
<1>1. PICK M \in Nat : M = MemorySize
  BY InMemory DEF MemorySize
<1>2. \A a \in Nat : a < M => a % MemorySize = a
  BY <1>1, InMemory
<1>3. ASSUME NEW j \in 0 .. q - 1 PROVE (u + j) % MemorySize = u + j
  <2>1. u + j \in Nat /\ u + j < M
    BY <1>1
  <2> QED
    BY <1>2, <2>1
<1>4. ASSUME NEW a \in u .. u + q - 1 PROVE 5 + ((a - u) % MemorySize) = 5 + a - u
  <2>1. a - u \in Nat /\ a - u < M /\ 5 + (a - u) = 5 + a - u
    BY <1>1
  <2>2. (a - u) % MemorySize = a - u
    BY <1>2, <2>1
  <2> QED
    BY <2>1, <2>2, Zenon
<1>5. new = u .. u + q - 1
  <2>1. ASSUME NEW a \in new PROVE a \in u .. u + q - 1
    <3>1. PICK j \in 0 .. q - 1 : a = (u + j) % MemorySize
      OBVIOUS
    <3>2. a = u + j
      BY <1>3, <3>1
    <3> QED
      BY <3>2
  <2>2. ASSUME NEW a \in u .. u + q - 1 PROVE a \in new
    <3>1. PICK j \in 0 .. q - 1 : a = u + j
      <4>1. a - u \in 0 .. q - 1 /\ a = u + (a - u)
        OBVIOUS
      <4> QED
        BY <4>1
    <3>2. a = (u + j) % MemorySize
      BY <1>3, <3>1
    <3> QED
      BY <3>2
  <2> HIDE DEF new
  <2> QED
    BY <2>1, <2>2
<1>6. Stored(line, u, q) =
        [a \in DOMAIN buffer \cup new |-> IF a \in new THEN line[5 + ((a - u) % MemorySize)] ELSE buffer[a]]
  BY DEF Stored
<1> HIDE DEF new
<1> QED
  BY <1>4, <1>5, <1>6 DEF Placing

\* A line that was not altered adds its bytes; the last one ends the loop.
LEMMA ReadsOn ==
  ASSUME NEW n \in Nat, n < MemorySize, n >= 2, NEW bytes, bytes \in Seq(Octet), Len(bytes) = n,
         <<bytes[1], bytes[2]>> = Marker,
         NEW m \in Nat, m < Ends(n), Halfway(bytes, m), ReadLine(Head(file))
  PROVE  Halfway(bytes, m + 1)' /\ loading' = IF m + 1 = Ends(n) THEN "accepted" ELSE "reading"
<1>1. PICK line : line = Head(file)
  OBVIOUS
<1>2. PICK e \in Nat : e = Ends(n) /\ e >= 2
  BY UptoEnd
<1>3. PICK u \in Nat : u = Upto(m, n) /\ u <= n
  BY UptoIn
<1>4. PICK v \in Nat : v = Upto(m+1, n) /\ v <= n /\ u <= v
  <2>1. m + 1 \in Nat
    OBVIOUS
  <2>2. PICK v \in Nat : v = Upto(m+1, n) /\ v <= n
    BY <2>1, UptoIn
  <2>3. v - u \in Nat
    BY <1>3, <2>2, UptoIn
  <2> QED
    BY <2>2, <2>3
<1>5. m <= e
  BY <1>2
<1>6. /\ line = Lines(bytes)[m + 1]
      /\ \E S : Tail(file) \in Seq(S)
      /\ Len(Tail(file)) = e - (m + 1)
      /\ \A k \in 1 .. e - (m + 1) : Tail(file)[k] = Lines(bytes)[m + 1 + k]
  <2>1. m <= Ends(n)
    BY <1>2, <1>5
  <2>2. /\ Head(file) = Lines(bytes)[m + 1]
        /\ \E S : Tail(file) \in Seq(S)
        /\ Len(Tail(file)) = Ends(n) - (m + 1)
        /\ \A k \in 1 .. Ends(n) - (m + 1) : Tail(file)[k] = Lines(bytes)[m + 1 + k]
    BY <2>1, HeadIs
  <2> QED
    BY <1>1, <1>2, <2>2
<1>7. PICK q \in Nat :
        /\ line[1] = q /\ Low(SumOf(line)) = 0
        /\ m + 1 = e => line[4] = 1 /\ Word(line[2], line[3]) = 0
        /\ m + 1 # e =>
             /\ line[4] = 0 /\ Word(line[2], line[3]) = u /\ q = v - u
             /\ \A j \in 1 .. q : line[4 + j] = bytes[u + j]
  <2>1. PICK q \in Nat : Carries(Lines(bytes)[m + 1], bytes, m, n, q)
    BY NextLine
  <2>2. Carries(line, bytes, m, n, q)
    BY <1>6, <2>1
  <2> QED
    BY <1>2, <1>3, <1>4, <2>2 DEF Carries
<1>8. buffer = [a \in 0 .. u - 1 |-> bytes[a + 1]] /\ max_addr = u
  BY <1>3 DEF Halfway
<1>9. ReadLine(line)
  BY <1>1
<1>10. file' = Tail(file)
  BY <1>1, <1>9 DEF ReadLine
<1>11. ASSUME buffer' = [a \in 0 .. v - 1 |-> bytes[a + 1]], max_addr' = v
       PROVE  Halfway(bytes, m + 1)'
  BY <1>2, <1>4, <1>6, <1>10, <1>11 DEF Halfway
<1>12. CASE m + 1 # e
  <2>1. line[4] = 0 /\ Word(line[2], line[3]) = u /\ q = v - u
    BY <1>7, <1>12
  <2>2. (u + q) % MemorySize = v /\ u + q <= MemorySize /\ u + q = v
    <3>1. u + q = v /\ v < MemorySize
      BY <1>3, <1>4, <2>1 DEF MemorySize
    <3>2. v % MemorySize = v /\ MemorySize \in Nat
      BY <3>1, InMemory
    <3> QED
      BY <3>1, <3>2
  <2>3. PICK stored : stored = Placing(line, u, q)
    OBVIOUS
  <2>4. /\ buffer' = stored
        /\ max_addr' = IF (u + q) % MemorySize > max_addr THEN (u + q) % MemorySize ELSE max_addr
        /\ loading' = "reading"
    <3>1. line[1] = q /\ Low(SumOf(line)) = 0
      BY <1>7
    <3>2. Word(line[2], line[3]) = u /\ line[4] = 0 /\ line[4] # 1
      BY <2>1
    <3>3. max_addr' = IF (u + q) % MemorySize > max_addr THEN (u + q) % MemorySize ELSE max_addr
      BY <1>9, <3>1, <3>2 DEF ReadLine
    <3>4. buffer' = stored
      <4>1. buffer' = Stored(line, u, q)
        BY <1>9, <3>1, <3>2 DEF ReadLine
      <4>2. u + q < MemorySize
        BY <1>4, <2>2 DEF MemorySize
      <4>3. Stored(line, u, q) = Placing(line, u, q)
        BY <4>2, StoredIs
      <4> QED
        BY <2>3, <4>1, <4>3
    <3>5. u + q <= MemorySize
      BY <2>2
    <3>6. loading' = "reading"
      BY <1>9, <3>1, <3>2, <3>5 DEF ReadLine
    <3> QED
      BY <3>3, <3>4, <3>6
  <2>5. max_addr' = v
    BY <1>4, <1>8, <2>2, <2>4
  <2>6. DOMAIN buffer \cup (u .. u + q - 1) = 0 .. v - 1
    BY <1>4, <1>8, <2>2
  <2>7. ASSUME NEW a \in 0 .. v - 1
        PROVE  (IF a \in u .. u + q - 1 THEN line[5 + a - u] ELSE buffer[a]) = bytes[a + 1]
    <3>1. CASE a \in u .. u + q - 1
      <4>1. PICK j \in 1 .. q : j = a - u + 1
        BY <3>1
      <4>2. 5 + a - u = 4 + j /\ a + 1 = u + j
        BY <4>1
      <4> QED
        BY <1>7, <1>12, <3>1, <4>1, <4>2
    <3>2. CASE a \notin u .. u + q - 1
      <4>1. a \in 0 .. u - 1
        BY <2>2, <3>2
      <4> QED
        BY <1>8, <3>2, <4>1
    <3> QED
      BY <3>1, <3>2
  <2>8. buffer' = [a \in 0 .. v - 1 |-> bytes[a + 1]]
    BY <2>3, <2>4, <2>6, <2>7 DEF Placing
  <2> QED
    BY <1>2, <1>11, <1>12, <2>5, <2>8, <2>4
<1>13. CASE m + 1 = e
  <2>1. line[4] = 1 /\ Word(line[2], line[3]) = 0
    BY <1>7, <1>13
  <2>2. u = n /\ v = n
    <3>1. e - 1 = m /\ Upto(e - 1, n) = n /\ Upto(e, n) = n
      BY <1>2, <1>13, UptoEnd
    <3> QED
      BY <1>3, <1>4, <1>13, <3>1
  <2>3. PICK stored : stored = Stored(line, 0, 0)
    OBVIOUS
  <2>4. /\ buffer' = stored
        /\ max_addr' = IF (0 + 0) % MemorySize > max_addr THEN (0 + 0) % MemorySize ELSE max_addr
        /\ loading' = IF {0, 1} \subseteq DOMAIN stored /\ <<stored[0], stored[1]>> = Marker
                      THEN "accepted" ELSE "rejected"
    BY <1>7, <1>9, <2>1, <2>3 DEF ReadLine
  <2>5. stored = buffer
    <3>1. 0 + 0 < MemorySize
      BY DEF MemorySize
    <3>2. Stored(line, 0, 0) = Placing(line, 0, 0)
      <4>1. 0 \in Nat
        OBVIOUS
      <4> QED
        BY <3>1, <4>1, StoredIs
    <3>3. 0 .. 0 + 0 - 1 = {}
      OBVIOUS
    <3> QED
      BY <1>8, <2>3, <3>2, <3>3 DEF Placing
  <2>6. max_addr' = v
    <3>1. (0 + 0) % MemorySize = 0
      <4>1. 0 < MemorySize /\ 0 \in Nat /\ 0 + 0 = 0
        BY DEF MemorySize
      <4> QED
        BY <4>1, InMemory
    <3> QED
      BY <1>8, <2>2, <2>4, <3>1
  <2>7. 0 \in DOMAIN buffer /\ 1 \in DOMAIN buffer /\ buffer[0] = bytes[1] /\ buffer[1] = bytes[2]
    BY <1>8, <2>2
  <2>8. loading' = "accepted"
    BY <2>4, <2>5, <2>7
  <2> QED
    BY <1>2, <1>8, <1>11, <1>13, <2>2, <2>4, <2>5, <2>6, <2>8
<1> QED
  BY <1>12, <1>13

\* An altered one ends it, with an error.
LEMMA Refuses ==
  ASSUME NEW n \in Nat, n < MemorySize, NEW bytes, bytes \in Seq(Octet), Len(bytes) = n,
         NEW m \in Nat, m < Ends(n), Halfway(bytes, m), NEW line \in Altered(Head(file)), ReadLine(line)
  PROVE  loading' = "rejected"
<1>1. m <= Ends(n)
  BY UptoEnd
<1>2. Head(file) = Lines(bytes)[m + 1]
  BY <1>1, HeadIs
<1>3. PICK q \in Nat : Head(file) \in [1 .. q+5 -> Octet] /\ Low(SumOf(Head(file))) = 0
  BY <1>2, NextLine DEF Carries
<1>4. Low(SumOf(line)) # 0
  <2>1. q + 5 \in Nat /\ q + 5 >= 5
    OBVIOUS
  <2> QED
    BY <1>3, <2>1, AlteredIs
<1> QED
  BY <1>4 DEF ReadLine

-----------------------------------------------------------------------------
(* The code stream.                                                        *)

Chain(f, n, s) == f[0] = << >> /\ \A i \in 1 .. n : f[i] = f[i-1] \o s[i]

\* FlattenSeq puts one sequence after another.
LEMMA FlattenIs ==
  ASSUME NEW n \in Nat, NEW V, NEW s \in [1 .. n -> Seq(V)]
  PROVE  \E f \in [0 .. n -> Seq(V)] : Chain(f, n, s) /\ FlattenSeq(s) = f[n]
<1> DEFINE G == [p \in Seq(V) \X (1 .. n) |-> p[1] \o s[p[2]]]
<1>1. PICK it \in [SUBSET (1 .. n) -> Seq(V)] : Folds(it, n, << >>, G)
  <2>1. G \in [Seq(V) \X (1 .. n) -> Seq(V)]
    OBVIOUS
  <2>2. << >> \in Seq(V)
    OBVIOUS
  <2> HIDE DEF G
  <2> QED
    BY <2>1, <2>2, FoldExists
<1>2. \A v \in Seq(V), k \in 1 .. n : G[<<v, k>>] = v \o s[k]
  OBVIOUS
<1> HIDE DEF G
<1>3. PICK f \in [0 .. n -> Seq(V)] : f = [i \in 0 .. n |-> it[1 .. i]]
  <2>1. \A i \in 0 .. n : 1 .. i \in SUBSET (1 .. n)
    OBVIOUS
  <2>2. [i \in 0 .. n |-> it[1 .. i]] \in [0 .. n -> Seq(V)]
    BY <1>1, <2>1
  <2> QED
    BY <2>2
<1>4. f[0] = << >>
  <2>1. 1 .. 0 = {} /\ 1 .. 0 \in SUBSET (1 .. n)
    OBVIOUS
  <2>2. it[1 .. 0] = << >>
    BY <1>1, <2>1 DEF Folds
  <2> QED
    BY <1>3, <2>2
<1>5. ASSUME NEW i \in 1 .. n PROVE f[i] = f[i-1] \o s[i]
  <2>1. (1 .. i) \ {i} = 1 .. i-1
    OBVIOUS
  <2>2. 1 .. i \in SUBSET (1 .. n) /\ 1 .. i # {} /\ i \in 1 .. i
    <3>1. i \in 1 .. i
      OBVIOUS
    <3>2. 1 .. i \in SUBSET (1 .. n)
      OBVIOUS
    <3> QED
      BY <3>1, <3>2
  <2>3. 1 .. i-1 \in SUBSET (1 .. n)
    OBVIOUS
  <2>4. Max(1 .. i) = i
    <3>1. Max(1 .. i) \in 1 .. i /\ \A y \in 1 .. i : y <= Max(1 .. i)
      BY <2>2, MaxIs
    <3> QED
      BY <2>2, <3>1
  <2>5. it[1 .. i] = G[<<it[(1 .. i) \ {Max(1 .. i)}], Max(1 .. i)>>]
    BY <1>1, <2>2 DEF Folds
  <2>6. it[1 .. i] = G[<<it[1 .. i-1], i>>]
    BY <2>1, <2>4, <2>5, Zenon
  <2>7. it[1 .. i-1] \in Seq(V)
    BY <1>1, <2>3
  <2>8. i \in 0 .. n /\ i-1 \in 0 .. n
    OBVIOUS
  <2> QED
    BY <1>2, <1>3, <2>6, <2>7, <2>8
<1>6. Chain(f, n, s)
  BY <1>4, <1>5 DEF Chain
<1>7. FlattenSeq(s) = f[n]
  <2>1. Len(s) = n
    OBVIOUS
  <2>2. CASE n = 0
    BY <1>4, <2>1, <2>2 DEF FlattenSeq
  <2>3. CASE n # 0
    <3> DEFINE Rec(g) == [i \in 1 .. n |-> IF i = 1 THEN s[i] ELSE g[i-1] \o s[i]]
               flatten == CHOOSE g : g = Rec(g)
               h == [i \in 1 .. n |-> f[i]]
    <3>1. FlattenSeq(s) = flatten[n]
      BY <2>1, <2>3 DEF FlattenSeq
    <3>2. ASSUME NEW i \in 1 .. n PROVE f[i] = IF i = 1 THEN s[i] ELSE f[i-1] \o s[i]
      <4>1. CASE i = 1
        <5>1. 1 \in 1 .. n /\ 1 - 1 = 0
          BY <4>1
        <5>2. f[1] = f[1-1] \o s[1]
          BY <1>5, <5>1
        <5>3. s[1] \in Seq(V)
          BY <5>1
        <5>4. f[1] = << >> \o s[1]
          BY <1>4, <5>1, <5>2, Zenon
        <5> QED
          BY <4>1, <5>3, <5>4, ConcatEmptySeq
      <4>2. CASE i # 1
        BY <1>5, <4>2
      <4> QED
        BY <4>1, <4>2
    <3>3. h = Rec(h)
      BY <3>2
    <3>4. flatten = Rec(flatten)
      <4> HIDE DEF Rec, h
      <4> QED
        BY <3>3
    <3> HIDE DEF flatten
    <3>5. ASSUME NEW i \in 1 .. n PROVE flatten[i] = IF i = 1 THEN s[i] ELSE flatten[i-1] \o s[i]
      BY <3>4
    <3> DEFINE Bad == {i \in 1 .. n : flatten[i] # f[i]}
    <3>6. Bad = {}
      <4>1. SUFFICES ASSUME Bad # {} PROVE FALSE
        OBVIOUS
      <4>2. PICK i \in Bad : \A j \in Bad : i <= j
        <5>1. Bad \in SUBSET Nat
          OBVIOUS
        <5> HIDE DEF Bad
        <5> QED
          BY <4>1, <5>1, Smallest
      <4>3. i \in 1 .. n /\ flatten[i] # f[i]
        BY <4>2
      <4>4. i # 1
        BY <3>2, <3>5, <4>3
      <4>5. i-1 \in 1 .. n /\ flatten[i-1] = f[i-1]
        BY <4>2, <4>3, <4>4
      <4> QED
        BY <3>2, <3>5, <4>3, <4>4, <4>5
    <3> QED
      <4>1. \A i \in 1 .. n : flatten[i] = f[i]
        BY <3>6
      <4>2. n \in 1 .. n
        BY <2>3
      <4> QED
        BY <3>1, <4>1, <4>2
  <2> QED
    BY <2>2, <2>3
<1> QED
  BY <1>6, <1>7

\* The element j of the one at k, when all are of five.
LEMMA FlatCells ==
  ASSUME NEW n \in Nat, NEW V, NEW s \in [1 .. n -> Seq(V)], \A k \in 1 .. n : Len(s[k]) = 5
  PROVE  /\ FlattenSeq(s) \in Seq(V) /\ Len(FlattenSeq(s)) = 5 * n
         /\ \A k \in 1 .. n, j \in 1 .. 5 : FlattenSeq(s)[5 * (k-1) + j] = s[k][j]
<1>1. PICK f \in [0 .. n -> Seq(V)] : Chain(f, n, s) /\ FlattenSeq(s) = f[n]
  BY FlattenIs
<1> DEFINE Good(i) == /\ Len(f[i]) = 5 * i
                      /\ \A k \in 1 .. i, j \in 1 .. 5 : f[i][5 * (k-1) + j] = s[k][j]
           Bad == {i \in 0 .. n : ~Good(i)}
<1>2. Good(0)
  BY <1>1 DEF Chain
<1>3. ASSUME NEW i \in 1 .. n, Good(i-1) PROVE Good(i)
  <2>1. PICK u \in Seq(V) : u = f[i-1]
    BY <1>1
  <2>2. PICK t \in Seq(V) : t = s[i] /\ Len(t) = 5
    OBVIOUS
  <2>3. f[i] = u \o t
    BY <1>1, <2>1, <2>2 DEF Chain
  <2>4. PICK w : w = f[i] /\ Joins(u, t, w)
    BY <2>3, Joined
  <2>5. Len(u) = 5 * (i-1)
    BY <1>3, <2>1
  <2>6. Len(w) = 5 * i
    BY <2>2, <2>4, <2>5 DEF Joins
  <2>7. ASSUME NEW k \in 1 .. i, NEW j \in 1 .. 5 PROVE w[5 * (k-1) + j] = s[k][j]
    <3>1. CASE k = i
      BY <2>2, <2>4, <2>5, <3>1 DEF Joins
    <3>2. CASE k # i
      <4>1. k \in 1 .. i-1 /\ 5 * (k-1) + j \in 1 .. 5 * (i-1)
        BY <3>2
      <4>2. u[5 * (k-1) + j] = s[k][j]
        BY <1>3, <2>1, <4>1
      <4> QED
        BY <2>4, <2>5, <4>1, <4>2 DEF Joins
    <3> QED
      BY <3>1, <3>2
  <2> QED
    BY <2>4, <2>6, <2>7
<1> HIDE DEF Good
<1>4. Bad = {}
  <2>1. SUFFICES ASSUME Bad # {} PROVE FALSE
    OBVIOUS
  <2>2. PICK i \in Bad : \A j \in Bad : i <= j
    <3>1. Bad \in SUBSET Nat
      OBVIOUS
    <3> HIDE DEF Bad
    <3> QED
      BY <2>1, <3>1, Smallest
  <2>3. i \in 1 .. n /\ i-1 \in 0 .. n /\ ~Good(i)
    BY <1>2, <2>2
  <2>4. Good(i-1)
    BY <2>2, <2>3
  <2> QED
    BY <1>3, <2>3, <2>4
<1>5. Good(n)
  <2>1. n \in 0 .. n
    OBVIOUS
  <2> QED
    BY <1>4, <2>1
<1> QED
  BY <1>1, <1>5 DEF Good

LEMMA MarkerIs == Marker \in Seq(Octet) /\ Len(Marker) = 2 /\ <<Marker[1], Marker[2]>> = Marker
<1>1. 215 \in Octet /\ 251 \in Octet
  BY DEF Octet
<1>2. PICK x \in Octet, y \in Octet : Marker = <<x, y>>
  BY <1>1 DEF Marker
<1> QED
  BY <1>2

\* What asm-8 writes.
LEMMA LowIs ==
  ASSUME NEW a \in Nat
  PROVE  Low(a) \in Octet /\ (a \in Octet => Low(a) = a)
  BY DEF Low, Octet

\* A field of 16 bits.
Field == {a \in Nat : a < MemorySize}

Cell == [cdr : Field, car : Field, bits : Octet]

\* The bytes of a cell.
LEMMA CellIs ==
  ASSUME NEW c \in Cell, NEW b, b = CellBytes(c)
  PROVE  /\ b \in Seq(Octet) /\ Len(b) = 5
         /\ Word(b[2], b[1]) = c.cdr /\ Word(b[4], b[3]) = c.car /\ b[5] = c.bits
<1>1. PICK x1, x2, x3, x4, x5 :
        /\ x1 = Low(c.cdr) /\ x2 = Low(High(c.cdr)) /\ x3 = Low(c.car) /\ x4 = Low(High(c.car))
        /\ x5 = Low(c.bits) /\ b = <<x1, x2, x3, x4, x5>>
  BY DEF CellBytes
<1>2. c.cdr \in Nat /\ c.cdr < MemorySize /\ c.car \in Nat /\ c.car < MemorySize /\ c.bits \in Octet
  BY DEF Cell, Field
<1>3. ASSUME NEW a \in Nat, a < MemorySize
      PROVE  Low(a) \in Octet /\ Low(High(a)) \in Octet /\ Word(Low(High(a)), Low(a)) = a
  <2>1. High(a) \in Octet /\ Low(a) \in Octet /\ Word(High(a), Low(a)) = a
    BY <1>3, TwoBytes
  <2>2. High(a) \in Nat
    BY <2>1 DEF Octet
  <2>3. Low(High(a)) = High(a)
    BY <2>1, <2>2, LowIs
  <2> QED
    BY <2>1, <2>3
<1>4. x1 \in Octet /\ x2 \in Octet /\ Word(x2, x1) = c.cdr
  BY <1>1, <1>2, <1>3
<1>5. x3 \in Octet /\ x4 \in Octet /\ Word(x4, x3) = c.car
  BY <1>1, <1>2, <1>3
<1>6. x5 \in Octet /\ x5 = c.bits
  <2>1. c.bits \in Nat
    BY <1>2 DEF Octet
  <2> QED
    BY <1>1, <1>2, <2>1, LowIs
<1> QED
  BY <1>1, <1>4, <1>5, <1>6

\* A program that the file and the memory have room for, and whose bytes are
\* bytes.
Loadable ==
  /\ Len(constants) < 256 /\ Len(Stream) < MemorySize
  /\ rom \in Seq(Cell)
  /\ \A k \in Items : image[k] \in Seq(Octet)

\* What the stream starts with.
LEMMA StreamIs ==
  ASSUME WellFormed(code), Pool(constants), Pool(globals), Len(rom) = Len(constants), Loadable
  PROVE  \E n, r \in Nat :
           /\ Stream \in Seq(Octet) /\ Len(Stream) = n
           /\ n >= 4 + 5 * r /\ <<Stream[1], Stream[2]>> = Marker /\ Stream[3] = r
           /\ Len(rom) = r /\ rom \in [1 .. r -> Cell]
           /\ \A k \in 1 .. r, j \in 1 .. 5 : Stream[4 + 5 * (k-1) + j] = CellBytes(rom[k])[j]
<1>1. PICK r \in Nat : Len(rom) = r /\ DOMAIN rom = 1 .. r /\ rom \in [1 .. r -> Cell]
  BY DEF Loadable
<1>2. PICK c \in Octet, g \in Octet : c = Low(Len(constants)) /\ g = Low(Len(globals)) /\ c = r
  <2>1. PICK m \in Nat : Len(globals) = m
    BY PoolIs
  <2>2. r \in Octet
    BY <1>1 DEF Octet, Loadable
  <2>3. Low(r) \in Octet /\ Low(r) = r /\ Low(m) \in Octet
    BY <2>2, LowIs
  <2> QED
    BY <1>1, <2>1, <2>3
<1>3. PICK head : head = <<c, g>>
  OBVIOUS
<1>4. PICK cells : cells = [k \in 1 .. r |-> CellBytes(rom[k])]
  OBVIOUS
<1>5. \A k \in 1 .. r : CellBytes(rom[k]) \in Seq(Octet) /\ Len(CellBytes(rom[k])) = 5
  BY <1>1, CellIs
<1>6. PICK heap : /\ heap = FlattenSeq(cells) /\ heap \in Seq(Octet) /\ Len(heap) = 5 * r
                  /\ \A k \in 1 .. r, j \in 1 .. 5 : heap[5 * (k-1) + j] = cells[k][j]
  <2>1. cells \in [1 .. r -> Seq(Octet)] /\ \A k \in 1 .. r : Len(cells[k]) = 5
    BY <1>4, <1>5
  <2>2. /\ FlattenSeq(cells) \in Seq(Octet) /\ Len(FlattenSeq(cells)) = 5 * r
        /\ \A k \in 1 .. r, j \in 1 .. 5 : FlattenSeq(cells)[5 * (k-1) + j] = cells[k][j]
    BY <2>1, FlatCells
  <2> QED
    BY <2>2
<1>7. PICK w \in Nat : Len(code) = w /\ DOMAIN code = 1 .. w
  BY ProgramIs
<1>8. PICK items : items = [k \in Items |-> IF code[k].op = "block" THEN [j \in 1 .. code[k].n |-> Low(j)] ELSE image[k]]
  OBVIOUS
<1>9. items \in [1 .. w -> Seq(Octet)]
  <2>1. ASSUME NEW k \in 1 .. w
        PROVE  (IF code[k].op = "block" THEN [j \in 1 .. code[k].n |-> Low(j)] ELSE image[k]) \in Seq(Octet)
    <3>1. k \in Items
      BY <1>7 DEF Items
    <3>2. CASE code[k].op = "block"
      <4>1. code[k].n \in Nat
        BY <3>1, <3>2, ReferringIs DEF WellFormed, Items, Refers, PlainOps
      <4>2. \A j \in 1 .. code[k].n : Low(j) \in Octet
        BY <4>1, LowIs
      <4>3. [j \in 1 .. code[k].n |-> Low(j)] \in Seq(Octet)
        BY <4>1, <4>2
      <4> QED
        BY <3>2, <4>3
    <3>3. CASE code[k].op # "block"
      BY <3>1, <3>3 DEF Loadable
    <3> QED
      BY <3>2, <3>3
  <2>2. Items = 1 .. w
    BY <1>7 DEF Items
  <2> QED
    BY <1>8, <2>1, <2>2
<1>10. PICK tail \in Seq(Octet) : tail = FlattenSeq(items)
  <2>1. PICK f \in [0 .. w -> Seq(Octet)] : FlattenSeq(items) = f[w]
    BY <1>9, FlattenIs
  <2>2. w \in 0 .. w
    OBVIOUS
  <2> QED
    BY <2>1, <2>2
<1>11. Stream = ((Marker \o head) \o heap) \o tail
  BY <1>1, <1>2, <1>3, <1>4, <1>6, <1>8, <1>10 DEF Stream
<1>12. PICK s1 : s1 = Marker \o head /\ s1 \in Seq(Octet) /\ Joins(Marker, head, s1)
  <2>1. head \in Seq(Octet)
    BY <1>3
  <2> QED
    BY <2>1, MarkerIs, Joined
<1>13. PICK s2 : s2 = s1 \o heap /\ s2 \in Seq(Octet) /\ Joins(s1, heap, s2)
  BY <1>6, <1>12, Joined
<1>14. PICK s3 : s3 = s2 \o tail /\ s3 \in Seq(Octet) /\ Joins(s2, tail, s3)
  BY <1>10, <1>13, Joined
<1>15. Stream = s3
  BY <1>11, <1>12, <1>13, <1>14
<1>16. Len(s1) = 4 /\ s1[1] = Marker[1] /\ s1[2] = Marker[2] /\ s1[3] = c
  <2>1. Len(head) = 2 /\ head[1] = c
    BY <1>3
  <2> QED
    BY <1>12, <2>1, MarkerIs DEF Joins
<1>17. Len(s2) = 4 + 5 * r
  BY <1>6, <1>13, <1>16 DEF Joins
<1>18. \A k \in 1 .. 4 : s2[k] = s1[k]
  BY <1>13, <1>16 DEF Joins
<1>19. ASSUME NEW k \in 1 .. r, NEW j \in 1 .. 5
       PROVE  s2[4 + 5 * (k-1) + j] = CellBytes(rom[k])[j]
  <2>1. PICK i : i = 5 * (k-1) + j
    OBVIOUS
  <2>2. i \in 1 .. 5 * r
    BY <2>1
  <2>3. s2[4 + i] = heap[i]
    BY <1>6, <1>13, <1>16, <2>2 DEF Joins
  <2>4. heap[i] = cells[k][j]
    BY <1>6, <2>1
  <2>5. 4 + 5 * (k-1) + j = 4 + i
    BY <2>1
  <2> QED
    BY <1>4, <2>3, <2>4, <2>5
<1>20. PICK n \in Nat : n = Len(s3) /\ n >= 4 + 5 * r
  BY <1>10, <1>14, <1>17 DEF Joins
<1>21. \A k \in 1 .. 4 + 5 * r : s3[k] = s2[k]
  BY <1>14, <1>17 DEF Joins
<1>22. <<s3[1], s3[2]>> = Marker /\ s3[3] = r
  <2>1. \A k \in 1 .. 3 : k \in 1 .. 4 /\ k \in 1 .. 4 + 5 * r
    OBVIOUS
  <2>2. \A k \in 1 .. 3 : s3[k] = s1[k]
    BY <1>18, <1>21, <2>1
  <2>3. s3[1] = Marker[1] /\ s3[2] = Marker[2] /\ s3[3] = c
    BY <1>16, <2>2
  <2> QED
    BY <1>2, <2>3, MarkerIs
<1>23. ASSUME NEW k \in 1 .. r, NEW j \in 1 .. 5 PROVE s3[4 + 5 * (k-1) + j] = CellBytes(rom[k])[j]
  <2>1. 4 + 5 * (k-1) + j \in 1 .. 4 + 5 * r
    OBVIOUS
  <2> QED
    BY <1>19, <1>21, <2>1
<1> QED
  BY <1>1, <1>14, <1>15, <1>20, <1>22, <1>23

-----------------------------------------------------------------------------
(* The whole way.                                                          *)

\* Any number of steps, from any program on.
LGiven == Given /\ buffer = << >> /\ max_addr = 0 /\ loading = "no" /\ damaged = FALSE

LStep == AssembleStep \/ WriteFile \/ ReadSound \/ ReadAltered \/ ReadEnd

(***************************************************************************)
(* While the file is sound, the machine has the bytes of the lines that it *)
(* has read; when it is not, the file has been rejected.                   *)
(***************************************************************************)
Loading ==
  /\ Laid
  /\ phase # "collect" => Len(rom) = Len(constants)
  /\ loading = "no" => buffer = << >> /\ max_addr = 0 /\ damaged = FALSE
  /\ loading # "no" => phase = "done"
  /\ Loadable /\ loading # "no" =>
       IF damaged THEN loading = "rejected"
       ELSE \E m \in 0 .. Ends(Len(Stream)) :
              /\ Halfway(Stream, m)
              /\ loading = IF m = Ends(Len(Stream)) THEN "accepted" ELSE "reading"

LEMMA GivenLoading == LGiven => Loading
<1> SUFFICES ASSUME LGiven PROVE Loading
  OBVIOUS
<1>1. Laid /\ phase = "collect"
  BY GivenLaid DEF LGiven, Given, Ready
<1> QED
  BY <1>1 DEF LGiven, Loading

\* The program stays while the file is read.
LEMMA SameProgram ==
  ASSUME Loading, UNCHANGED vars
  PROVE  /\ Laid' /\ Stream' = Stream /\ (Loadable <=> Loadable')
         /\ phase # "collect" => Len(rom)' = Len(constants)'
<1>1. UNCHANGED <<others, pending, constants, globals, rom, code, size, label, phase, image>>
  BY DEF vars
<1>2. Laid'
  BY StepLaid DEF Loading
<1>3. Stream' = Stream
  BY <1>1 DEF Stream, Items
<1>4. Loadable <=> Loadable'
  BY <1>1, <1>3 DEF Loadable, Items
<1> QED
  BY <1>1, <1>2, <1>3, <1>4 DEF Loading

\* The steps of the assembler,
LEMMA AssembleLoading == Loading /\ AssembleStep => Loading'
<1> SUFFICES ASSUME Loading, AssembleStep PROVE Loading'
  OBVIOUS
<1>1. Laid'
  BY StepLaid DEF Loading, AssembleStep
<1>2. phase # "done"
  BY DEF AssembleStep, Next, Collect, Layout, Pass1, Size, Place, Emit
<1>3. loading = "no" /\ UNCHANGED <<buffer, max_addr, loading, damaged>>
  BY <1>2 DEF Loading, AssembleStep, lvars
<1>4. phase' # "collect" => Len(rom)' = Len(constants)'
  <2>1. CASE Collect
    BY <2>1 DEF Collect
  <2>2. CASE Layout
    <3>1. PICK n \in Nat : DOMAIN constants = 1 .. n
      BY PoolIs DEF Loading, Laid
    <3>2. DOMAIN rom' = 1 .. n
      BY <2>2, <3>1 DEF Layout
    <3>3. Len(constants)' = n
      BY <2>2, <3>1 DEF Layout, SortConstants
    <3> QED
      BY <2>2, <3>2, <3>3 DEF Layout
  <2>3. CASE Pass1 \/ Size \/ Place \/ Emit
    BY <2>3 DEF Pass1, Size, Place, Emit, Loading
  <2> QED
    BY <2>1, <2>2, <2>3 DEF AssembleStep, Next
<1> QED
  BY <1>1, <1>3, <1>4 DEF Loading

\* the file that is written,
LEMMA WriteLoading == Loading /\ WriteFile => Loading'
<1> SUFFICES ASSUME Loading, WriteFile PROVE Loading'
  OBVIOUS
<1>1. /\ UNCHANGED vars /\ phase = "done" /\ phase' = "done" /\ loading' = "reading"
      /\ buffer' = << >> /\ max_addr' = 0 /\ damaged' = FALSE /\ file' = Lines(Stream)
  BY DEF WriteFile, vars, Loading
<1>2. Laid' /\ Stream' = Stream /\ (Loadable <=> Loadable') /\ Len(rom)' = Len(constants)'
  BY <1>1, SameProgram
<1>3. ASSUME Loadable
      PROVE  Halfway(Stream, 0)' /\ 0 \in 0 .. Ends(Len(Stream)) /\ 0 # Ends(Len(Stream))
  <2>1. PICK n, bytes : n \in Nat /\ bytes = Stream /\ bytes \in Seq(Octet) /\ Len(bytes) = n
    <3>1. PICK n \in Nat : Stream \in Seq(Octet) /\ Len(Stream) = n
      BY <1>1, <1>3, StreamIs DEF Loading, Laid
    <3> QED
      BY <3>1
  <2>2. PICK lines : lines = Lines(bytes)
    OBVIOUS
  <2>3. (\E S : lines \in Seq(S)) /\ Len(lines) = Ends(n)
    BY <2>1, <2>2, LinesIs
  <2>4. PICK e \in Nat : e = Ends(n) /\ e >= 2 /\ Upto(0, n) = 0
    BY <2>1, UptoEnd
  <2>5. buffer' = [a \in 0 .. 0 - 1 |-> bytes[a + 1]]
    BY <1>1
  <2>6. \A k \in 1 .. e - 0 : lines[k] = lines[0 + k]
    OBVIOUS
  <2>7. Halfway(bytes, 0)'
    BY <1>1, <2>1, <2>2, <2>3, <2>4, <2>5, <2>6 DEF Halfway
  <2> QED
    BY <1>2, <2>1, <2>4, <2>7
<1> QED
  BY <1>1, <1>2, <1>3 DEF Loading

\* and its lines.
LEMMA ReadLoading == Loading /\ (ReadSound \/ ReadAltered \/ ReadEnd) => Loading'
<1> SUFFICES ASSUME Loading, ReadSound \/ ReadAltered \/ ReadEnd PROVE Loading'
  OBVIOUS
<1>1. loading = "reading" /\ file # << >> /\ UNCHANGED vars /\ loading' # "no" /\ phase = "done" /\ phase' = "done"
  <2>1. UNCHANGED vars /\ loading' # "no"
    BY DEF ReadSound, ReadAltered, ReadEnd, ReadLine
  <2> QED
    BY <2>1 DEF ReadSound, ReadAltered, ReadEnd, Loading, vars
<1>2. Laid' /\ Stream' = Stream /\ (Loadable <=> Loadable') /\ Len(rom)' = Len(constants)'
  BY <1>1, SameProgram
<1>3. ASSUME Loadable
      PROVE  IF damaged' THEN loading' = "rejected"
             ELSE \E m \in 0 .. Ends(Len(Stream)) :
                    /\ Halfway(Stream, m)'
                    /\ loading' = IF m = Ends(Len(Stream)) THEN "accepted" ELSE "reading"
  <2>1. PICK n, bytes : /\ n \in Nat /\ bytes = Stream /\ bytes \in Seq(Octet) /\ Len(bytes) = n
                        /\ n >= 2 /\ n < MemorySize /\ <<bytes[1], bytes[2]>> = Marker
    <3>1. PICK n, r \in Nat : Stream \in Seq(Octet) /\ Len(Stream) = n /\ n >= 4 + 5 * r /\ <<Stream[1], Stream[2]>> = Marker
      BY <1>1, <1>3, StreamIs DEF Loading, Laid
    <3>2. n >= 2 /\ n < MemorySize
      BY <1>3, <3>1 DEF Loadable
    <3> QED
      BY <3>1, <3>2
  <2>2. ~damaged
    BY <1>1, <1>3 DEF Loading
  <2>3. PICK e \in Nat : e = Ends(n)
    BY <2>1, UptoEnd
  <2>4. PICK m \in 0 .. e : Halfway(bytes, m)
    BY <1>1, <1>3, <2>1, <2>2, <2>3 DEF Loading
  <2>5. m \in Nat /\ m < Ends(n)
    <3>1. m \in Nat /\ m <= Ends(n)
      BY <2>3
    <3>2. file # << >> <=> m < Ends(n)
      BY <2>1, <2>4, <3>1, HeadIs
    <3> QED
      BY <1>1, <3>1, <3>2
  <2>6. CASE ReadSound
    <3>1. ReadLine(Head(file)) /\ ~damaged'
      BY <2>2, <2>6 DEF ReadSound
    <3>2. Halfway(bytes, m + 1)' /\ loading' = IF m + 1 = Ends(n) THEN "accepted" ELSE "reading"
      BY <2>1, <2>4, <2>5, <3>1, ReadsOn
    <3>3. m + 1 \in 0 .. e
      BY <2>3, <2>5
    <3> QED
      BY <1>2, <2>1, <2>3, <3>1, <3>2, <3>3
  <2>7. CASE ReadAltered
    <3>1. PICK line \in Altered(Head(file)) : ReadLine(line)
      BY <2>7 DEF ReadAltered
    <3>2. loading' = "rejected"
      BY <2>1, <2>4, <2>5, <3>1, Refuses
    <3> QED
      BY <2>7, <3>2 DEF ReadAltered
  <2>8. CASE ReadEnd
    BY <2>8 DEF ReadEnd
  <2> QED
    BY <2>6, <2>7, <2>8
<1> QED
  BY <1>1, <1>2, <1>3 DEF Loading

LEMMA StepLoading == Loading /\ [LStep]_<<vars, lvars>> => Loading'
<1>1. ASSUME Loading, UNCHANGED <<vars, lvars>> PROVE Loading'
  <2>1. Laid' /\ Stream' = Stream /\ (Loadable <=> Loadable') /\ (phase # "collect" => Len(rom)' = Len(constants)')
    BY <1>1, SameProgram
  <2>2. UNCHANGED <<phase, file, buffer, max_addr, loading, damaged>>
    BY <1>1 DEF vars, lvars
  <2>3. \A m : Halfway(Stream, m)' <=> Halfway(Stream, m)
    BY <2>1, <2>2 DEF Halfway
  <2> QED
    BY <1>1, <2>1, <2>2, <2>3 DEF Loading
<1> QED
  BY <1>1, AssembleLoading, WriteLoading, ReadLoading DEF LStep

\* What has been loaded is the program.
LEMMA LoadingLoads == Loading => (Loadable => LoadsTheProgram)
<1> SUFFICES ASSUME Loading, Loadable PROVE LoadsTheProgram
  OBVIOUS
<1>1. loading = "rejected" => damaged
  BY DEF Loading
<1>2. ASSUME loading = "accepted"
      PROVE  /\ ~damaged /\ DOMAIN buffer = 0 .. max_addr - 1
             /\ [k \in 1 .. max_addr |-> Byte(k-1)] = Stream
             /\ RomHeap = rom
  <2>1. ~damaged /\ phase = "done"
    BY <1>2 DEF Loading
  <2>2. PICK n, r \in Nat :
          /\ Stream \in Seq(Octet) /\ Len(Stream) = n /\ n >= 4 + 5 * r /\ Stream[3] = r
          /\ rom \in [1 .. r -> Cell]
          /\ \A k \in 1 .. r, j \in 1 .. 5 : Stream[4 + 5 * (k-1) + j] = CellBytes(rom[k])[j]
    <3>1. WellFormed(code) /\ Pool(constants) /\ Pool(globals) /\ Len(rom) = Len(constants)
      BY <2>1 DEF Loading, Laid
    <3> QED
      BY <3>1, StreamIs
  <2>3. PICK bytes : bytes = Stream
    OBVIOUS
  <2>4. /\ bytes = Stream /\ bytes \in Seq(Octet) /\ Len(bytes) = n /\ n >= 4 + 5 * r /\ bytes[3] = r
        /\ rom \in [1 .. r -> Cell]
        /\ \A k \in 1 .. r, j \in 1 .. 5 : bytes[4 + 5 * (k-1) + j] = CellBytes(rom[k])[j]
    <3>1. bytes \in Seq(Octet) /\ Len(bytes) = n /\ bytes[3] = r
      BY <2>2, <2>3
    <3>2. \A k \in 1 .. r, j \in 1 .. 5 : bytes[4 + 5 * (k-1) + j] = CellBytes(rom[k])[j]
      BY <2>2, <2>3, Zenon
    <3> QED
      BY <2>2, <2>3, <3>1, <3>2
  <2>5. buffer = [a \in 0 .. n - 1 |-> bytes[a + 1]] /\ max_addr = n
    <3>1. Halfway(bytes, Ends(n))
      BY <1>2, <2>1, <2>4 DEF Loading
    <3>2. Upto(Ends(n), n) = n
      BY <2>4, UptoEnd
    <3> QED
      BY <2>4, <3>1, <3>2 DEF Halfway
  <2>6. \A k \in 1 .. n : Byte(k-1) = bytes[k]
    BY <2>4, <2>5 DEF Byte
  <2>7. [k \in 1 .. n |-> Byte(k-1)] = bytes
    BY <2>4, <2>6
  <2>8. Byte(2) = r
    <3>1. 3 \in 1 .. n /\ 3 - 1 = 2
      BY <2>4
    <3> QED
      BY <2>4, <2>6, <3>1
  <2>9. ASSUME NEW k \in 1 .. r
        PROVE  LET at == 4 + 5 * (k-1)
               IN  [cdr |-> Word(Byte(at+1), Byte(at)), car |-> Word(Byte(at+3), Byte(at+2)), bits |-> Byte(at+4)] = rom[k]
    <3>1. PICK at \in Nat : at = 4 + 5 * (k-1) /\ at + 5 <= n
      BY <2>4
    <3>2. PICK b : b = CellBytes(rom[k])
      OBVIOUS
    <3>3. \A j \in 1 .. 5 : Byte(at + (j-1)) = b[j]
      <4> TAKE j \in 1 .. 5
      <4>1. at + j \in 1 .. n /\ (at + j) - 1 = at + (j-1)
        BY <2>4, <3>1
      <4>2. Byte(at + (j-1)) = bytes[at + j]
        BY <2>6, <4>1
      <4> QED
        BY <2>4, <3>1, <3>2, <4>2
    <3>4. Byte(at) = b[1] /\ Byte(at+1) = b[2] /\ Byte(at+2) = b[3] /\ Byte(at+3) = b[4] /\ Byte(at+4) = b[5]
      BY <3>1, <3>3
    <3>5. rom[k] \in Cell
      BY <2>4
    <3>6. Word(b[2], b[1]) = rom[k].cdr /\ Word(b[4], b[3]) = rom[k].car /\ b[5] = rom[k].bits
      BY <3>2, <3>5, CellIs
    <3>7. rom[k] = [cdr |-> rom[k].cdr, car |-> rom[k].car, bits |-> rom[k].bits]
      BY <3>5 DEF Cell
    <3> QED
      BY <3>1, <3>4, <3>6, <3>7
  <2>10. RomHeap = rom
    BY <2>4, <2>8, <2>9 DEF RomHeap
  <2> QED
    BY <2>1, <2>4, <2>5, <2>7, <2>10
<1> QED
  BY <1>1, <1>2 DEF LoadsTheProgram

(***************************************************************************)
(* Whatever the program, if its bytes are bytes and the memory has room    *)
(* for it: a file is accepted only if it is the one that was written, with *)
(* no byte altered and its end in place, and then the machine has all of   *)
(* the program.                                                            *)
(***************************************************************************)
THEOREM EveryProgramLoads ==
  LGiven /\ [][LStep]_<<vars, lvars>> => [](Loadable => LoadsTheProgram)
<1> QED
  BY GivenLoading, StepLoading, LoadingLoads, PTL

(***************************************************************************)
(* LoadsTheProgram, for all programs of the specification that have room.  *)
(***************************************************************************)
THEOREM ProgramsLoad ==
  LSpec => [](Loadable => LoadsTheProgram)
<1>1. LInit => Loading
  BY InitGiven, GivenLoading DEF LInit, LGiven
<1>2. LNext => LStep
  BY DEF LNext, LStep, Write
<1>3. Loading /\ [LNext]_<<vars, lvars>> => Loading'
  BY <1>2, StepLoading
<1> QED
  BY <1>1, <1>3, LoadingLoads, PTL DEF LSpec

=============================================================================
