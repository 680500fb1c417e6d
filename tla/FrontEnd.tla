------------------------------ MODULE FrontEnd ------------------------------
(***************************************************************************)
(* The transformations of the tree before the code is generated            *)
(* (src/compiler/front-end.rkt).  A pass walks over nodes that it replaces *)
(* on its way: it goes on with the children a node had when it came there, *)
(* in the program or not, and a clause that gives up leaves the node to    *)
(* the next one.                                                           *)
(***************************************************************************)
EXTENDS Tree

NoSubst == << >>

IsRef(g, n) == KindOf(g, n) = "ref"
IsCst(g, n) == KindOf(g, n) = "cst"
Trivial(g, n) == IsRef(g, n) \/ IsCst(g, n)

\* Mutant: what can be changed by an effect is moved past it.
MovableEffectLess(g, v, e) == Cardinality(g.var[v].refs) = 1 /\ EffectLess(g, e, FALSE, {})

\* The only reference to a variable can have its value e in its place.
Movable(g, v, e) == Cardinality(g.var[v].refs) = 1 /\ EffectLess(g, e, TRUE, {})

\* The number of the copy that Copy(g, _, _) makes.
CopyOf(g) == FreshNode(g)

Replace(g, parent, old, new) == Substitute(Copy(g, new, NoSubst), parent, old, CopyOf(g))

-----------------------------------------------------------------------------
\* A local variable that is never assigned is in no box.
RECURSIVE AdjustUnmutable(_, _)
AdjustUnmutable(g, n) ==
  LET node == g.node[n]
      unboxes ==
        /\ node.kind = "call" /\ Len(node.children) = 2
        /\ IsRef(g, Operator(g, n)) /\ IsRef(g, Child(g, n, 2))
        /\ Immutable(g, g.node[Child(g, n, 2)].var)
        /\ g.var[g.node[Operator(g, n)].var].id = Name("#%unbox")
  IN  IF unboxes THEN Replace(g, node.parent, n, Child(g, n, 2))
      ELSE ForEach(AdjustUnmutable, node.children, g)

(***************************************************************************)
(* copy-propagate!: a reference to an immutable variable is replaced by    *)
(* its value when it is the only one and the value can be moved, and when  *)
(* the value is itself a constant or a reference.                          *)
(***************************************************************************)
RECURSIVE CopyPropagate(_, _)
CopyPropagate(g, n) ==
  LET node == g.node[n]
      p    == node.parent
      val  == VarVal(g, node.var)
      ok   == IF Movable(g, node.var, val) THEN ~Inside(g, p, val) ELSE Trivial(g, val)
  IN  IF node.kind # "ref" THEN ForEach(CopyPropagate, node.children, g)
      ELSE IF val # 0 /\ ok /\ p # 0 THEN CopyPropagate(Replace(g, p, n, val), p)
      ELSE g

\* The references to v in the body are replaced by e.
Put(g, v, e, body) ==
  FoldLeft(LAMBDA h, r : IF Inside(h, r, body) THEN Replace(h, h.node[r].parent, r, e) ELSE h,
           g, Listed(g.var[v].refs))

\* The body of prc takes the place of n.
InPlace(g, n, prc) ==
  LET new    == g.node[prc].children[1]
      parent == g.node[n].parent
  IN  <<IF KindOf(g, parent) = "seq" /\ KindOf(g, new) = "seq" THEN Splice(g, n, new, parent)
        ELSE Replace(g, parent, n, new),
        new>>

BetaOf(g, n, prc) ==
  LET params == g.node[prc].params
      args   == Arguments(g, n)
      body   == g.node[prc].children[1]
  IN  IF g.node[prc].rest \/ Len(params) # Len(args) THEN <<g, 0>>
      ELSE InPlace(FoldLeft(LAMBDA h, k : Put(h, params[k], args[k], body), g, [k \in DOMAIN params |-> k]), n, prc)

(***************************************************************************)
(* beta!, of the call n of the procedure of node proc: the tree, and the   *)
(* node of the new body, 0 if it gave up.  The procedure is copied whole   *)
(* first, and what of the copy is not put into the program stays referred  *)
(* to by its variables.                                                    *)
(***************************************************************************)
Beta(g, n, proc) == BetaOf(Copy(g, proc, NoSubst), n, CopyOf(g))

\* inline-left-left-lambda!: a procedure that is called in place.
RECURSIVE InlineLeftLeft(_, _)
InlineLeftLeft(g, n) ==
  LET node   == g.node[n]
      prc    == Operator(g, n)
      params == g.node[prc].params
      args   == Arguments(g, n)
      both   == 1 .. (IF Len(args) < Len(params) THEN Len(args) ELSE Len(params))
      small(k) == Trivial(g, args[k]) \/ Movable(g, params[k], args[k])
  IN  IF node.kind = "call" /\ KindOf(g, prc) = "prc" /\ ~g.node[prc].rest /\ \A k \in both : small(k)
      THEN Then(Beta(g, n, prc), LAMBDA h, new : IF new # 0 THEN InlineLeftLeft(h, new) ELSE h)
      ELSE ForEach(InlineLeftLeft, node.children, g)

\* inline-calls-to-calls!: a procedure whose body is a call of as many trivial
\* arguments at most.
RECURSIVE InlineCalls(_, _, _)
InlineCalls(g, n, seen) ==
  LET node  == g.node[n]
      op    == Operator(g, n)
      v     == g.node[op].var
      proc  == VarVal(g, v)
      body  == g.node[proc].children[1]
      inner == Arguments(g, body)
      applies ==
        /\ node.kind = "call" /\ IsRef(g, op)
        /\ proc # 0 /\ KindOf(g, proc) = "prc" /\ ~g.node[proc].rest
        /\ KindOf(g, body) = "call" /\ IsRef(g, Operator(g, body))
        /\ Len(inner) <= Len(Arguments(g, n))
        /\ \A k \in DOMAIN inner : Trivial(g, inner[k]) /\ EffectLess(g, inner[k], TRUE, {})
        /\ \A s \in seen : ~SameVar(g, s, g.node[Operator(g, body)].var)
  IN  IF applies
      THEN Then(Beta(g, n, proc), LAMBDA h, new : IF new # 0 THEN InlineCalls(h, new, seen \cup {v}) ELSE h)
      ELSE FoldLeft(LAMBDA acc, c : InlineCalls(acc, c, {}), g, node.children)

\* constant-fold!; a clause that gives up has its children walked again.
RECURSIVE ConstantFold(_, _)
ConstantFold(g0, n) ==
  LET node == g0.node[n]
      p    == node.parent
      folds == node.kind = "call" /\ IsRef(g0, Operator(g0, n)) /\ PrimitiveVar(g0, g0.node[Operator(g0, n)].var)
      g    == ForEach(ConstantFold, IF folds THEN Arguments(g0, n) ELSE node.children, g0)
      now  == g.node[n].children
      again == ForEach(ConstantFold, now, g)
      args == [k \in 1 .. Len(now) - 1 |-> g.node[now[k + 1]].val]
      prim == VarOf(g, now[1]).id
      res  == Computes(prim[1], args, << >>)
  IN  CASE folds ->
             IF /\ Primitives[prim].folds /\ \A k \in 2 .. Len(now) : IsCst(g, now[k])
                /\ Len(args) = Primitives[prim].nargs /\ res # << >>
             THEN Substitute(AddNode(g, [Node("cst") EXCEPT !.val = res[1]]), p, n, FreshNode(g))
             ELSE again
        [] node.kind = "if" ->
             IF IsCst(g, now[1])
             THEN Replace(g, p, n, IF g.node[now[1]].val # False THEN now[2] ELSE now[3]) ELSE again
        [] node.kind = "seq" ->
             IF \A k \in 1 .. Len(now) - 1 : EffectLess(g, now[k], FALSE, {})
             THEN Replace(g, p, n, Last(now)) ELSE again
        [] OTHER -> g

=============================================================================
