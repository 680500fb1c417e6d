------------------------------ MODULE CodeGen -------------------------------
(***************************************************************************)
(* The generation of code: comp.rkt, code-gen.rkt and ir.rkt in            *)
(* src/compiler.                                                           *)
(*                                                                         *)
(* A context has the last label, the basic blocks, the one being filled    *)
(* last, and two compile-time environments: what the slots of the stack    *)
(* hold, a local variable or NoName, and the variables of the closure,     *)
(* below.  Only their names are known there.                               *)
(***************************************************************************)
EXTENDS Tree

NoName == Name("")

Env(local, closed) == [local |-> local, closed |-> closed]
Bb(label, instrs)  == [label |-> label, instrs |-> instrs]

InitContext ==
  [last |-> 0, bbs |-> <<Bb(0, << >>)>>, env |-> Env(<< >>, << >>), env2 |-> Env(<< >>, << >>),
   entry |-> << >>, error |-> FALSE]

-----------------------------------------------------------------------------
(* ir.rkt and code-gen.rkt *)

MakeLabels(ctx, n) == [ctx EXCEPT !.last = @ + n]
AddBb(ctx, label)  == [ctx EXCEPT !.bbs = Append(@, Bb(label, << >>))]
WithEnv(ctx, env)  == [ctx EXCEPT !.env = env]
\* comp-test leaves its environment for the branch that is compiled last.
KeepEnv(ctx)       == [ctx EXCEPT !.env2 = ctx.env]

Slots(ctx) == ctx.env.local

\* gen-instruction
Gen(instr, pops, pushes, ctx) ==
  [ctx EXCEPT !.bbs[Len(ctx.bbs)].instrs = Append(@, instr),
              !.env.local = [k \in 1 .. pushes |-> NoName] \o SubSeq(@, pops + 1, Len(@))]

Op(name)       == [op |-> name]
OpTo(name, l)  == [op |-> name, to |-> l]
OpN(name, n)   == [op |-> name, n |-> n]
OpVar(name, x) == [op |-> name, var |-> x]

GenConstant(d, ctx)     == Gen([op |-> "datum", datum |-> d], 0, 1, ctx)
GenUnspecified(ctx)     == GenConstant(False, ctx)
GenGoto(l, ctx)         == Gen(OpTo("goto", l), 0, 0, ctx)
GenPrim(p, n, unspecified, ctx) == Gen(OpN("prim", Primitives[p].code), n, IF unspecified THEN 0 ELSE 1, ctx)
GenPop(ctx)             == Gen(OpN("prim", 2), 1, 0, ctx)
GenReturn(ctx)          == Gen(OpN("prim", 1), Len(Slots(ctx)), 0, ctx)

\* gen-push-local-var: the variables of the closure come after the slots.
GenLocal(x, ctx) ==
  LET among == Slots(ctx) \o ctx.env.closed
      first == CHOOSE k \in DOMAIN among : among[k] = x /\ \A j \in 1 .. k-1 : among[j] # x
  IN  Gen(OpN("push-stack", first - 1), 0, 1, ctx)

-----------------------------------------------------------------------------
(* comp.rkt.  The reason says what becomes of the value: none, push, tail. *)

RECURSIVE Comp(_, _, _, _)

CompTest(g, n, true, false, ctx) ==
  CASE KindOf(g, n) = "cst" -> KeepEnv(GenGoto(IF g.node[n].val # False THEN true ELSE false, ctx))
    [] KindOf(g, n) = "prc" -> KeepEnv(GenGoto(true, ctx))
    [] OTHER -> KeepEnv(Gen([op |-> "goto-if-false", to |-> false, else |-> true], 1, 0, Comp(g, n, "push", ctx)))

CompIf(g, n, reason, ctx) ==
  LET then == ctx.last + 1
      else == ctx.last + 2
      thenJoin == ctx.last + 3
      elseJoin == ctx.last + 4
      join == ctx.last + 5
      test == CompTest(g, Child(g, n, 1), then, else, MakeLabels(ctx, IF reason = "tail" THEN 2 ELSE 5))
      c8  == Comp(g, Child(g, n, 3), reason, AddBb(test, else))
      e   == IF reason = "tail" THEN c8 ELSE GenGoto(elseJoin, c8)
      c9  == Comp(g, Child(g, n, 2), reason, WithEnv(AddBb(e, then), test.env2))
      c10 == GenGoto(join, AddBb(GenGoto(thenJoin, c9), elseJoin))
  IN  IF reason = "tail" THEN c9
      ELSE AddBb(GenGoto(join, AddBb(c10, thenJoin)), join)

CompSeq(g, n, reason, ctx) ==
  LET cs   == g.node[n].children
      most == FoldLeft(LAMBDA acc, c : Comp(g, c, "none", acc), ctx, Front(cs))
  IN  Comp(g, Last(cs), reason, most)

\* build-closure: the list of the variables that are closed over.
BuildClosure(label, xs, ctx) ==
  LET pushed == GenConstant(Null, FoldLeft(LAMBDA acc, x : GenLocal(x, acc), ctx, xs))
      list   == FoldLeft(LAMBDA acc, x : GenPrim(Name("cons"), 2, FALSE, acc), pushed, xs)
  IN  Gen(OpTo("closure", label), 1, 1, list)

CompPrc(g, n, closure, ctx) ==
  LET node     == g.node[n]
      entry    == ctx.last + 1
      continue == ctx.last + 2
      ids(vs)  == [k \in DOMAIN vs |-> g.var[vs[k]].id]
      body     == Env(ids(node.params), ids(NonGlobalFV(g, n)))
      c3 == MakeLabels(ctx, 2)
      c4 == IF closure THEN BuildClosure(entry, body.closed, c3) ELSE c3
      c5 == GenGoto(continue, c4)
      c6 == Gen([op |-> "entry", n |-> Len(node.params), rest |-> node.rest], 0, 0,
                AddBb(WithEnv(c5, body), entry))
      c7 == Comp(g, node.children[1], "tail", c6)
  IN  AddBb([WithEnv(c7, c5.env) EXCEPT !.entry = (n :> entry) @@ @], continue)

\* The call of primitive p, of a procedure that needs no closure, or of any.
CompCall(g, n, reason, orig) ==
  LET op    == Operator(g, n)
      nargs == Len(Arguments(g, n))
      ctx   == FoldLeft(LAMBDA acc, a : Comp(g, a, "push", acc), orig, Arguments(g, n))
      ref   == KindOf(g, op) = "ref"
      p     == VarOf(g, op).id
      prim  == Primitives[p]
      called == GenPrim(p, prim.nargs, prim.unspecified, ctx)
      pushed == IF prim.unspecified THEN GenUnspecified(called) ELSE called
      prc   == ToplevelPrc(g, g.node[op].var)
      top(name) == Gen([op |-> name, prc |-> prc], nargs, 1, ctx)
      any(name) == Gen(OpN(name, nargs), nargs + 1, 1, Comp(g, op, "push", ctx))
  IN  IF ref /\ PrimitiveVar(g, g.node[op].var)
      THEN IF nargs # prim.nargs THEN [ctx EXCEPT !.error = TRUE]
           ELSE CASE reason = "tail" -> GenReturn(pushed)
                  [] reason = "push" -> pushed
                  [] OTHER -> IF prim.unspecified THEN called ELSE GenPop(called)
      ELSE LET gen(name) == IF ref /\ prc # 0 THEN top(name \o "-toplevel") ELSE any(name)
           IN  CASE reason = "tail" -> gen("jump")
                 [] reason = "push" -> gen("call")
                 [] OTHER -> GenPop(gen("call"))

\* What none, push and tail have in common; the structured nodes.
CompInside(g, n, reason, ctx) ==
  CASE KindOf(g, n) = "if"   -> CompIf(g, n, reason, ctx)
    [] KindOf(g, n) = "seq"  -> CompSeq(g, n, reason, ctx)
    [] KindOf(g, n) = "call" -> CompCall(g, n, reason, ctx)

CompNone(g, n, ctx) ==
  LET node == g.node[n]
      rhs  == node.children[1]
      prc  == ToplevelPrc(g, node.var)
  IN  CASE node.kind \in {"cst", "ref", "prc"} -> ctx
        [] node.kind = "def" /\ prc # 0 -> CompPrc(g, rhs, FALSE, ctx)
        [] node.kind \in {"def", "set"} /\ ~(node.kind = "def" /\ prc # 0) ->
             IF VarOf(g, n).needed
             THEN Gen(OpVar("set-global", VarOf(g, n).id), 1, 0, Comp(g, rhs, "push", ctx))
             ELSE Comp(g, rhs, "none", ctx)
        [] OTHER -> CompInside(g, n, "none", ctx)

CompTail(g, n, ctx) ==
  IF KindOf(g, n) \in {"cst", "ref", "def", "set", "prc"} THEN GenReturn(Comp(g, n, "push", ctx))
  ELSE CompInside(g, n, "tail", ctx)

CompPush(g, n, ctx) ==
  LET node == g.node[n]
      v    == VarOf(g, n)
      val  == VarVal(g, node.var)
  IN  CASE node.kind = "cst" -> GenConstant(node.val, ctx)
        [] node.kind = "ref" ->
             IF ~v.global THEN GenLocal(v.id, ctx)
             ELSE IF v.def = 0 THEN [ctx EXCEPT !.error = TRUE]
             ELSE IF val # 0 /\ KindOf(g, val) = "cst" THEN GenConstant(g.node[val].val, ctx)
             ELSE Gen(OpVar("push-global", v.id), 0, 1, ctx)
        [] node.kind \in {"def", "set"} -> GenUnspecified(Comp(g, n, "none", ctx))
        [] node.kind = "prc" -> CompPrc(g, n, TRUE, ctx)
        [] OTHER -> CompInside(g, n, "push", ctx)

\* An error ends the compilation.
Comp(g, n, reason, ctx) ==
  IF ctx.error THEN ctx
  ELSE CASE reason = "none" -> CompNone(g, n, ctx)
         [] reason = "push" -> CompPush(g, n, ctx)
         [] reason = "tail" -> CompTail(g, n, ctx)

=============================================================================
