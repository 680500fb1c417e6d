------------------------------- MODULE Loader -------------------------------
(***************************************************************************)
(* From the assembler to the virtual machine: the Intel HEX file that      *)
(* asm-write-hex (src/compiler/asm.rkt) writes, and read_hex_file          *)
(* (src/main/hexfile.c), which puts it in the memory of the machine.       *)
(*                                                                         *)
(* A line of the file is the sequence of the bytes its digits stand for:   *)
(* a length n, two bytes of address, a type, n bytes and a checksum.  On   *)
(* its way to the machine the file may lose its end, from a line on, or    *)
(* have a byte altered.                                                    *)
(***************************************************************************)
EXTENDS Asm

CONSTANTS
  FilePushes,      \* bounds on the programs that are loaded: their constants,
  FileReferences,  \* their references
  FileLengths      \* and their bytes

ASSUME LoaderAssumption == FilePushes \in Nat /\ FileReferences \in Nat /\ FileLengths \subseteq Nat

VARIABLES
  file,      \* the lines that have not been read
  buffer,    \* the bytes that were stored, by address; the others are 0
  max_addr,
  loading,   \* "no", "reading", then what read_hex_file returns
  damaged    \* ghost: the machine did not see the file that was written

lvars == <<file, buffer, max_addr, loading, damaged>>

-----------------------------------------------------------------------------
(* The file.                                                               *)

\* asm-bits-8-and-up and asm-bits-0-to-7
High(n) == n \div 256
Low(n)  == n % 256

SumOf(bytes) == FoldLeft(+, 0, bytes)

\* print-line
Line(type, addr, bytes) ==
  LET fields == <<Len(bytes), High(addr), Low(addr), type>> \o bytes
  IN  Append(fields, Low(-SumOf(fields)))

\* Mutant: a line has the address after its bytes.
LinesLate(bytes) ==
  LET chunk(k) == SubSeq(bytes, 16 * (k-1) + 1, IF 16 * k < Len(bytes) THEN 16 * k ELSE Len(bytes))
  IN  <<Line(0, 0, << >>)>>
      \o [k \in 1 .. (Len(bytes) + 15) \div 16 |-> Line(0, 16 * k, chunk(k))]
      \o <<Line(1, 0, << >>)>>

\* asm-write-hex: a line is written when the next address is a multiple of 16,
\* the first of them without a byte.
Lines(bytes) ==
  LET chunk(k) == SubSeq(bytes, 16 * (k-1) + 1, IF 16 * k < Len(bytes) THEN 16 * k ELSE Len(bytes))
  IN  <<Line(0, 0, << >>)>>
      \o [k \in 1 .. (Len(bytes) + 15) \div 16 |-> Line(0, 16 * (k-1), chunk(k))]
      \o <<Line(1, 0, << >>)>>

\* asm-16 and asm-8, of the fields of a constant.
CellBytes(c) ==
  <<Low(c.cdr), Low(High(c.cdr)), Low(c.car), Low(High(c.car)), Low(c.bits)>>

\* What a program starts with.
Marker == <<215, 251>>

\* The code stream; its blocks are of any bytes.
Stream ==
  LET itemBytes(k) == IF code[k].op = "block" THEN [j \in 1 .. code[k].n |-> Low(j)] ELSE image[k]
  IN  Marker \o <<Low(Len(constants)), Low(Len(globals))>>
      \o FlattenSeq([k \in DOMAIN rom |-> CellBytes(rom[k])])
      \o FlattenSeq([k \in Items |-> itemBytes(k)])

\* A line with a byte altered: an address, the type, a data byte or the sum.
\* (An altered length can give a line that looks sound.)
Altered(line) ==
  {[line EXCEPT ![j] = Low(@ + 1)] : j \in {2, 3, 4, 5, Len(line)}}

-----------------------------------------------------------------------------
LInit ==
  /\ Init
  /\ file = << >> /\ buffer = << >> /\ max_addr = 0
  /\ loading = "no" /\ damaged = FALSE

AssembleStep == Next /\ UNCHANGED lvars

WriteFile ==
  /\ phase = "done" /\ loading = "no"
  /\ file' = Lines(Stream)
  /\ loading' = "reading"
  /\ UNCHANGED <<vars, buffer, max_addr, damaged>>

\* Of the programs of module Asm, those within the bounds.
Write ==
  /\ phase = "done" /\ others = 0 /\ Pushed \cup References # {}
  /\ Cardinality(Pushed) <= FilePushes /\ Cardinality(References) <= FileReferences
  /\ Len(Stream) \in FileLengths
  /\ WriteFile

\* hex2short
Word(high, low) == 256 * high + low

MemorySize == 256 * 256

\* The memory with the bytes of the line; after its last address comes 0.
Stored(line, addr, data) ==
  LET new == {(addr + j) % MemorySize : j \in 0 .. data - 1}
  IN  [a \in DOMAIN buffer \cup new |->
         IF a \in new THEN line[5 + ((a - addr) % MemorySize)] ELSE buffer[a]]

(***************************************************************************)
(* One round of the loop of read_hex_file, on the line given.  The bytes   *)
(* are stored before the checksum is looked at.                            *)
(***************************************************************************)
ReadLine(line) ==
  LET n    == line[1]
      addr == Word(line[2], line[3])
      data == IF line[4] = 0 THEN n ELSE 0
      next == (addr + data) % MemorySize
      fits   == line[4] = 0 => addr + n <= MemorySize
      sound  == fits /\ Low(SumOf(line)) = 0
      stored == Stored(line, addr, data)
  IN  /\ buffer' = stored
      /\ max_addr' = IF next > max_addr THEN next ELSE max_addr
      /\ loading' = IF ~sound THEN "rejected"
                    ELSE IF line[4] # 1 THEN "reading"
                    ELSE IF {0, 1} \subseteq DOMAIN stored /\ <<stored[0], stored[1]>> = Marker
                         THEN "accepted" ELSE "rejected"
      /\ file' = Tail(file)
      /\ UNCHANGED vars

ReadSound ==
  /\ loading = "reading" /\ file # << >>
  /\ ReadLine(Head(file))
  /\ UNCHANGED damaged

ReadAltered ==
  /\ loading = "reading" /\ file # << >>
  /\ \E line \in Altered(Head(file)) : ReadLine(line)
  /\ damaged' = TRUE

\* fgets returns NULL, since the rest of the file is missing.
ReadEnd ==
  /\ loading = "reading" /\ file # << >>
  /\ loading' = "rejected" /\ damaged' = TRUE
  /\ UNCHANGED <<vars, file, buffer, max_addr>>

LNext == AssembleStep \/ Write \/ ReadSound \/ ReadAltered \/ ReadEnd

LSpec == LInit /\ [][LNext]_<<vars, lvars>> /\ WF_<<vars, lvars>>(LNext)

-----------------------------------------------------------------------------
(* What the virtual machine makes of its memory (mm_init).                 *)

Byte(a) == IF a \in DOMAIN buffer THEN buffer[a] ELSE 0

\* The cells of rom_heap.
RomHeap ==
  [k \in 1 .. Byte(2) |->
     LET at == 4 + 5 * (k-1)
     IN  [cdr |-> Word(Byte(at+1), Byte(at)), car |-> Word(Byte(at+3), Byte(at+2)), bits |-> Byte(at+4)]]

(***************************************************************************)
(* A file is accepted only if it is the one that was written, and then the *)
(* machine has all of the program and nothing else, its constants where    *)
(* they are looked up and its end where the interpreter stops              *)
(* (interpreter.c:174); a sound file is never rejected.                    *)
(***************************************************************************)
LoadsTheProgram ==
  /\ loading = "rejected" => damaged
  /\ loading = "accepted" =>
       /\ ~damaged
       /\ DOMAIN buffer = 0 .. max_addr - 1
       /\ [k \in 1 .. max_addr |-> Byte(k-1)] = Stream
       /\ RomHeap = rom

=============================================================================
