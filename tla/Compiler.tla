------------------------------ MODULE Compiler ------------------------------
(***************************************************************************)
(* The compiler (src/compiler/picobit.rkt): the passes over the tree, the  *)
(* code generator and the passes over the basic blocks, one after another, *)
(* down to the code that module Asm assembles.                             *)
(***************************************************************************)
EXTENDS Loader, FrontEnd, Blocks

CONSTANTS
  Sources,   \* the programs that are compiled: sequences of forms
  Promised   \* pairs of one with the output that its library promises

VARIABLES
  source,  \* the program, until it is read
  meant,   \* ghost: what the program should print, and on whose word
  tree,    \* of the front end; EmptyTree when it is not in use
  bbs      \* the basic blocks, a function of their labels

cvars == <<source, meant, tree, bbs>>

-----------------------------------------------------------------------------
\* What a program should do; "direct" if module Source gives it a meaning.
MeantBy(m) == [out |-> m.out, wrong |-> m.wrong, direct |-> ~m.wrong, by |-> "source"]

MeantByNone == [out |-> << >>, wrong |-> FALSE, direct |-> FALSE, by |-> "none"]

PromisedBy(m, out) == [out |-> out, wrong |-> FALSE, direct |-> ~m.wrong, by |-> "library"]

\* Otherwise it is the code that module Asm starts with.
FromSource == meant.by # "none"

CInit ==
  /\ \/ source \in Sources /\ meant = MeantBy(Meaning(source))
     \/ \E p \in Promised : source = p[1] /\ meant = PromisedBy(Meaning(p[1]), p[2])
  /\ tree = EmptyTree /\ bbs = << >>
  /\ phase = "parse"
  /\ others = 0 /\ code = << >> /\ pending = << >> /\ constants = << >> /\ globals = << >>
  /\ rom = << >> /\ size = << >> /\ label = << >> /\ image = << >>
  /\ file = << >> /\ buffer = << >> /\ max_addr = 0 /\ loading = "no" /\ damaged = FALSE

\* The state of the assembler and of the loader, but for the phase.
Later == <<others, pending, constants, globals, rom, code, size, label, image, lvars>>

ParseSource ==
  /\ phase = "parse"
  /\ \E g \in {ParseProgram(source)} :
       /\ tree' = g
       /\ phase' = IF g.error THEN "failed" ELSE "adjust"
  /\ source' = << >>
  /\ UNCHANGED <<meant, bbs, Later>>

\* The phases of the compiler, before the assembler has its own.
TreePasses == {"adjust", "propagate", "left-left", "inline", "propagate again", "fold", "clean up", "mark"}
Passes     == TreePasses \cup {"parse", "generate", "shake", "reorder", "linearize"}

\* A pass over the tree.
Pass(Transformed(_, _), now, next) ==
  /\ phase = now
  /\ tree' = Transformed(tree, tree.root)
  /\ phase' = next
  /\ UNCHANGED <<source, meant, bbs, Later>>

NotSeen(g, n) == InlineCalls(g, n, {})

Adjust         == Pass(AdjustUnmutable, "adjust", "propagate")
Propagate      == Pass(CopyPropagate, "propagate", "left-left")
InlineLambdas  == Pass(InlineLeftLeft, "left-left", "inline")
Inline         == Pass(NotSeen, "inline", "propagate again")
PropagateAgain == Pass(CopyPropagate, "propagate again", "fold")
Fold           == Pass(ConstantFold, "fold", "clean up")
CleanUp        == Pass(CopyPropagate, "clean up", "mark")
Mark           == Pass(MarkNeeded, "mark", "generate")

Generate ==
  /\ phase = "generate"
  /\ \E ctx \in {Comp(tree, tree.root, "none", InitContext)} :
       IF ctx.error THEN phase' = "failed" /\ bbs' = << >>
       ELSE phase' = "shake" /\ bbs' = Resolved(ctx)
  /\ tree' = EmptyTree
  /\ UNCHANGED <<source, meant, Later>>

Shake ==
  /\ phase = "shake"
  /\ bbs' = TreeShaken(bbs)
  /\ phase' = "reorder"
  /\ UNCHANGED <<source, meant, tree, Later>>

Reorder ==
  /\ phase = "reorder"
  /\ bbs' = Reordered(bbs)
  /\ phase' = "linearize"
  /\ UNCHANGED <<source, meant, tree, Later>>

\* linearize; the assembler takes over.
Linearize ==
  /\ phase = "linearize"
  /\ LET l == Linear(bbs)
     IN  /\ code' = l.code
         /\ phase' = IF l.error THEN "failed" ELSE "collect"
         /\ pending' = PushedBy(l.code) /\ size' = NoSizes(l.code) /\ label' = NoLabels(l.code)
  /\ bbs' = << >>
  /\ UNCHANGED <<source, meant, tree, others, constants, globals, rom, image, lvars>>

Compile ==
  \/ ParseSource \/ Adjust \/ Propagate \/ InlineLambdas \/ Inline \/ PropagateAgain
  \/ Fold \/ CleanUp \/ Mark \/ Generate \/ Shake \/ Reorder \/ Linearize

-----------------------------------------------------------------------------
(***************************************************************************)
(* A program with a meaning is compiled, and every pass leaves a tree with *)
(* that meaning: what is moved, copied, merged or dropped is not missed    *)
(* where it was, and has no effect where it goes.                          *)
(***************************************************************************)
MeaningKept ==
  ~meant.wrong =>
    /\ phase # "failed"
    /\ phase \in TreePasses \ {"adjust"} /\ meant.direct =>
         Meaning(<<Expr(tree, tree.root)>>) = [out |-> meant.out, wrong |-> FALSE]

=============================================================================
