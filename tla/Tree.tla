-------------------------------- MODULE Tree --------------------------------
(***************************************************************************)
(* The tree that the compiler works on: its nodes and variables (ast.rkt,  *)
(* env.rkt), the parser that builds it (parser.rkt) and what the passes    *)
(* ask about it (analysis.rkt).                                            *)
(*                                                                         *)
(* A tree g is changed in place, and its links go both ways: a node knows  *)
(* its parent, a variable knows the nodes that refer to it and those that  *)
(* assign it, wherever these nodes are, in the program or not any more.    *)
(* Nodes and variables are numbers; 0 is none.                             *)
(***************************************************************************)
EXTENDS Source

Node(kind) ==
  [kind |-> kind, parent |-> 0, children |-> << >>, var |-> 0, val |-> False, params |-> << >>, rest |-> FALSE]

VarRecord(x, global, def) ==
  [id |-> x, global |-> global, refs |-> {}, sets |-> {}, def |-> def, needed |-> FALSE]

FreshNode(g) == Len(g.node) + 1
FreshVar(g)  == Len(g.var) + 1

AddNode(g, n) == [g EXCEPT !.node = Append(@, n)]
AddVar(g, v)  == [g EXCEPT !.var = Append(@, v)]
Fail(g)       == [g EXCEPT !.error = TRUE]

\* The elements of a set, in some order.
Listed(S) == FoldSet(LAMBDA e, acc : Append(acc, e), << >>, S)

\* A pass for each of some nodes, in order.
ForEach(Pass(_, _), nodes, g) == FoldLeft(LAMBDA acc, n : Pass(acc, n), g, nodes)

-----------------------------------------------------------------------------
(* ast.rkt *)

Child(g, n, k) == g.node[n].children[k]
Operator(g, n) == Child(g, n, 1)
Arguments(g, n) == Tail(g.node[n].children)

KindOf(g, n)    == g.node[n].kind
VarOf(g, n)     == g.var[g.node[n].var]
Immutable(g, v) == g.var[v].sets = {}
PrimitiveVar(g, v) == IsPrimitive(g.var[v].id) /\ g.var[v].global

\* var-val: the node of the value of an immutable variable, 0 if it is not known.
VarVal(g, v) ==
  LET def == g.var[v].def
  IN  IF Immutable(g, v) /\ def # 0 /\ g.node[def].kind # "prc" THEN g.node[def].children[1] ELSE 0

SetParent(g, n, p)    == [g EXCEPT !.node[n].parent = p]
FixChildren(g, p)     == FoldLeft(LAMBDA acc, c : SetParent(acc, c, p), g, g.node[p].children)
SetChildren(g, p, cs) == [g EXCEPT !.node[p].children = cs]

\* A new node over cs.
AddOver(g, n, cs) == FixChildren(AddNode(g, [n EXCEPT !.children = cs]), FreshNode(g))

AddRef(g, v) ==   \* create-ref
  AddNode([g EXCEPT !.var[v].refs = @ \cup {FreshNode(g)}], [Node("ref") EXCEPT !.var = v])

\* discard-node!
RECURSIVE Discard(_, _)
Discard(g, n) ==
  LET node == g.node[n]
      g1 == [g EXCEPT !.node[n].parent = 0, !.node[n].children = << >>]
      g2 == IF node.var = 0 THEN g1
            ELSE [g1 EXCEPT !.var[node.var] = [@ EXCEPT !.refs = @ \ {n}, !.sets = @ \ {n}]]
  IN  ForEach(Discard, node.children, g2)

\* substitute-child!
Substitute(g, parent, old, new) ==
  Discard([g EXCEPT !.node[new].parent = parent,
                    !.node[parent].children = [k \in DOMAIN @ |-> IF @[k] = old THEN new ELSE @[k]]],
          old)

RECURSIVE Inside(_, _, _)
Inside(g, c, p) == c = p \/ (c # 0 /\ Inside(g, g.node[c].parent, p))

\* splice-begin!
Splice(g, old, child, parent) ==
  LET put(c) == IF c = old THEN g.node[child].children ELSE <<c>>
      cs     == g.node[parent].children
  IN  FixChildren(SetChildren(g, parent, FlattenSeq([k \in DOMAIN cs |-> put(cs[k])])), parent)

(***************************************************************************)
(* copy-node: the copy is the first of the nodes that are added, number    *)
(* FreshNode(g).  A copied procedure has parameters of its own, which      *)
(* substs maps the old ones to.                                            *)
(***************************************************************************)
RECURSIVE Copy(_, _, _)
Copy(g, e, substs) ==
  LET node == g.node[e]
      n    == FreshNode(g)
      v    == IF node.var \in DOMAIN substs THEN substs[node.var] ELSE node.var
      new  == [k \in DOMAIN node.params |-> Len(g.var) + k]
      fresh(k) == VarRecord(<<g.var[node.params[k]].id[1], new[k]>>, FALSE, n)
      g1   == AddNode(g, [node EXCEPT !.parent = 0, !.children = << >>, !.var = v, !.params = new])
      g2   == CASE node.kind = "ref" -> [g1 EXCEPT !.var[v].refs = @ \cup {n}]
                [] node.kind = "set" -> [g1 EXCEPT !.var[node.var].sets = @ \cup {n}]
                [] node.kind = "prc" -> [g1 EXCEPT !.var = @ \o [k \in DOMAIN new |-> fresh(k)]]
                [] node.kind = "def" -> Fail(g1)
                [] OTHER -> g1
      inner == [p \in {node.params[k] : k \in DOMAIN new} |->
                  new[CHOOSE k \in DOMAIN new : node.params[k] = p]] @@ substs
      g3 == FoldLeft(LAMBDA acc, c :
                       LET m == FreshNode(acc)
                           h == Copy(acc, c, inner)
                       IN  SetChildren(h, n, Append(h.node[n].children, m)),
                     g2, node.children)
  IN  FixChildren(g3, n)

\* node->expr
RECURSIVE Expr(_, _)
Expr(g, n) ==
  LET node == g.node[n]
      all  == [k \in DOMAIN node.children |-> Expr(g, node.children[k])]
      id(v) == g.var[v].id
  IN  CASE node.kind = "cst" -> Cst(node.val)
        [] node.kind = "ref" -> <<"ref", id(node.var)>>
        [] node.kind \in {"def", "set"} -> <<node.kind, id(node.var), all[1]>>
        [] node.kind = "if" -> If(all[1], all[2], all[3])
        [] node.kind = "prc" -> <<"prc", [k \in DOMAIN node.params |-> id(node.params[k])], node.rest, all>>
        [] OTHER -> <<node.kind, all>>

-----------------------------------------------------------------------------
(* env.rkt.  An environment is a sequence of local variables; those of     *)
(* g.global come after them.                                               *)

Hits(g, among, x) == {k \in DOMAIN among : g.var[among[k]].id = x}

\* env-lookup, which makes a variable for a name that is not there.
Lookup(g, env, x) ==
  LET among == env \o g.global
      hits  == Hits(g, among, x)
  IN  IF hits # {} THEN <<among[CHOOSE k \in hits : \A j \in hits : k <= j], g>>
      ELSE <<FreshVar(g), [AddVar(g, VarRecord(x, TRUE, 0))
                             EXCEPT !.global = Append(@, FreshVar(g)), !.error = @ \/ ~g.forward]>>

\* var=?
SameVar(g, v, w) == g.var[v].id = g.var[w].id /\ g.var[v].def = g.var[w].def

\* create-eta-expansion (primitives.rkt:32-51) of primitive p, for the first
\* use of it as a value: a procedure, the references in it, the call of p, and
\* the definition of the procedure.
Eta(g, p) ==
  LET n    == Primitives[g.var[p].id].nargs
      v    == Len(g.var)
      r    == FreshNode(g)
      call == r + n + 2
      def  == r + n + 3
      vars == <<p>> \o [k \in 1 .. n |-> v + k]
  IN  [g EXCEPT
        !.node = @ \o <<[Node("prc") EXCEPT !.parent = def, !.params = Tail(vars), !.children = <<call>>]>>
                   \o [k \in 1 .. n + 1 |-> [Node("ref") EXCEPT !.parent = call, !.var = vars[k]]]
                   \o <<[Node("call") EXCEPT !.parent = r, !.children = [k \in 1 .. n + 1 |-> r + k]],
                        [Node("def") EXCEPT !.var = v + n + 1, !.children = <<r>>]>>,
        !.var = [@ EXCEPT ![p].refs = @ \cup {r + 1}]
                  \o [k \in 1 .. n |-> [VarRecord(<<"temp", v + k>>, FALSE, r) EXCEPT !.refs = {r + k + 1}]]
                  \o <<VarRecord(<<g.var[p].id[1], v + n + 1>>, TRUE, def)>>,
        !.extra = <<def>> \o @,
        !.eta = (p :> v + n + 1) @@ @]

-----------------------------------------------------------------------------
(* parser.rkt.  A parser returns the node and the tree, lookup a variable  *)
(* and the tree.                                                           *)

RECURSIVE Parse(_, _, _, _)

Then(p, Next(_, _)) == Next(p[1], p[2])

\* The node that was added last.
Top(g) == <<Len(g.node), g>>

\* One after another; an error ends the compilation.
InOrder(Parser(_, _), es, g) ==
  FoldLeft(LAMBDA acc, e : IF acc[2].error THEN acc
                           ELSE Then(Parser(e, acc[2]), LAMBDA n, h : <<Append(acc[1], n), h>>),
           <<<< >>, g>>, es)

ParseAll(es, env, g) == InOrder(LAMBDA e, h : Parse(e, "value", env, h), es, g)

CallOf(x, e) == Call(<<Var(x), e>>)

\* A local variable may be in a box.
Unboxed(g, v, env) ==
  Then(Parse(Var("#%unbox"), "value", env, AddRef(g, v)),
       LAMBDA n, h : Top(AddOver(h, Node("call"), <<n, FreshNode(g)>>)))

EtaRef(g, v) == Top(AddRef(g, g.eta[v]))

\* An identifier: a primitive that is not called is its eta-expansion.
ParseRef(x, operator, env, g0) ==
  Then(Lookup(g0, env, x), LAMBDA v, g :
    IF PrimitiveVar(g, v) /\ ~operator THEN EtaRef(IF v \in DOMAIN g.eta THEN g ELSE Eta(g, v), v)
    ELSE IF g.var[v].global THEN Top(AddRef(g, v)) ELSE Unboxed(g, v, env))

\* The top of the tree assigns v.
Assigned(g, v) == Top([g EXCEPT !.var[v].sets = @ \cup {Len(g.node)}])

BoxSet(g, v, env, n) ==
  Then(Lookup(AddRef(g, v), env, Name("#%box-set!")), LAMBDA w, h :
    AddOver(AddRef(h, w), Node("call"), <<FreshNode(g) + 1, FreshNode(g), n>>))

\* The value is parsed before the reference to the variable is made.
ParseAssign(x, e, env, g0) ==
  Then(Lookup(g0, env, x), LAMBDA v, g1 :
    Then(Parse(e, "value", env, g1), LAMBDA n, g :
      IF PrimitiveVar(g, v) THEN Top(Fail(g))
      ELSE Assigned(IF g.var[v].global THEN AddOver(g, [Node("set") EXCEPT !.var = v], <<n>>)
                    ELSE BoxSet(g, v, env, n), v)))

AddLocals(g, xs, def) ==
  [g EXCEPT !.var = @ \o [k \in DOMAIN xs |-> VarRecord(xs[k], FALSE, def)]]

Own(g, r, params, cs) ==
  FixChildren([g EXCEPT !.node[r].params = params, !.node[r].children = cs], r)

\* A parameter that is assigned is moved to a box, under the same name, by a
\* procedure around the body.
Boxed(g, r, xs, mut, body, new, env) ==
  LET p    == FreshNode(g)
      ids  == [k \in DOMAIN mut |-> g.var[mut[k]].id]
      tmp  == [k \in DOMAIN mut |-> Len(g.var) + k]
      over == AddOver(g, [Node("prc") EXCEPT !.params = mut], <<body>>)
      boxed(args, h) ==
        FoldLeft(LAMBDA acc, w : [acc EXCEPT !.var[w].def = p],
                 AddOver(h, Node("call"), <<p>> \o args), mut)
  IN  Then(ParseAll([k \in DOMAIN mut |-> CallOf("#%box", <<"ref", ids[k]>>)],
                    tmp \o new \o env, AddLocals(over, ids, r)),
           LAMBDA args, h : Own(boxed(args, h), r,
                                [k \in DOMAIN xs |-> Lookup(h, tmp \o new, xs[k])[1]], <<FreshNode(h)>>))

ParseLambda(e, env, g0) ==
  LET r    == FreshNode(g0)
      new  == [k \in DOMAIN e[2] |-> Len(g0.var) + k]
      g1   == AddLocals(AddNode(g0, [Node("prc") EXCEPT !.rest = e[3]]), e[2], r)
      mutable(g) == SelectSeq(new, LAMBDA v : g.var[v].sets # {})
  IN  Then(Parse(Begin(e[4]), "value", new \o env, g1), LAMBDA body, g :
        <<r, IF mutable(g) = << >> THEN Own(g, r, new, <<body>>)
             ELSE Boxed(g, r, e[2], mutable(g), body, new, env)>>)

\* The cases of "or", "and" and "cond", each in terms of a smaller one; only
\* whether "or" is true matters in a test.
ExpandOr(es, use, t) ==
  LET more == Or(Tail(es))
  IN  CASE es = << >> -> Cst(False)
        [] Len(es) = 1 -> es[1]
        [] Len(es) > 1 /\ use = "test" -> If(es[1], Cst(True), more)
        [] OTHER -> Call(<<<<"prc", <<t>>, FALSE, <<If(<<"ref", t>>, <<"ref", t>>, more)>>>>, es[1]>>)

ExpandAnd(es) ==
  CASE es = << >> -> Cst(True)
    [] Len(es) = 1 -> es[1]
    [] OTHER -> If(es[1], And(Tail(es)), Cst(False))

ExpandCond(cs, t) ==
  LET c == Head(cs)
      more == Cond(Tail(cs))
  IN  CASE cs = << >> -> If(Cst(False), Cst(False), Cst(False))
        [] c[2] = "else" -> Begin(c[3])
        [] c[2] = "=>" ->
             Call(<<<<"prc", <<t>>, FALSE, <<If(<<"ref", t>>, Call(<<c[3], <<"ref", t>>>>), more)>>>>, c[1]>>)
        [] OTHER -> If(c[1], Begin(c[3]), more)

\* use is "operator", "test" or "value".
Parse(e, use, env, g) ==
  LET all(es) == ParseAll(es, env, g)
      over(n, p) == Top(AddOver(p[2], n, p[1]))
      inner == IF use = "test" THEN "test" ELSE "value"
      as(d) == Parse(d, inner, env, g)
      t     == <<"temp", FreshVar(g)>>   \* generate-temporary
  IN  IF g.error THEN <<0, g>>
      ELSE CASE Kind(e) = "cst" -> Top(AddNode(g, [Node("cst") EXCEPT !.val = e[2]]))
             [] Kind(e) = "ref" -> ParseRef(e[2], use = "operator", env, g)
             [] Kind(e) = "set" -> ParseAssign(e[2], e[3], env, g)
             [] Kind(e) = "if"  ->
                  Then(Parse(e[2], "test", env, g), LAMBDA a, g1 :
                    Then(Parse(e[3], inner, env, g1), LAMBDA b, g2 :
                      Then(Parse(e[4], inner, env, g2), LAMBDA c, g3 : over(Node("if"), <<<<a, b, c>>, g3>>))))
             [] Kind(e) = "or"   -> as(ExpandOr(e[2], use, t))
             [] Kind(e) = "and"  -> as(ExpandAnd(e[2]))
             [] Kind(e) = "cond" -> as(ExpandCond(e[2], t))
             [] Kind(e) = "prc" -> ParseLambda(e, env, g)
             [] Kind(e) = "seq" ->
                  IF Len(e[2]) = 1 THEN Parse(e[2][1], "value", env, g) ELSE over(Node("seq"), all(e[2]))
             [] Kind(e) = "call" ->
                  Then(Parse(Head(e[2]), "operator", env, g), LAMBDA op, g1 :
                    Then(ParseAll(Tail(e[2]), env, g1), LAMBDA args, g2 : over(Node("call"), <<<<op>> \o args, g2>>)))

\* Mutant: what has been used already may not be defined any more.
DefinedUnused(g, v) == Top([g EXCEPT !.error = @ \/ g.var[v].refs # {}, !.var[v].def = Len(g.node)])

Defined(g, v) == Top([g EXCEPT !.error = @ \/ g.var[v].def # 0, !.var[v].def = Len(g.node)])

\* parse-top: only the definition of a procedure may refer to what comes later.
ParseTop(form, g0) ==
  IF Kind(form) # "def" THEN Parse(form, "value", << >>, g0)
  ELSE Then(Lookup(g0, << >>, form[2]), LAMBDA v, g1 :
         Then(Parse(form[3], "value", << >>, [g1 EXCEPT !.forward = (Kind(form[3]) = "prc")]), LAMBDA n, g :
           Defined(AddOver([g EXCEPT !.forward = TRUE], [Node("def") EXCEPT !.var = v], <<n>>), v)))

\* The part of the library (library.scm:136-140) that the parser itself calls.
Library ==
  <<Define("#%box", Lambda(<<"a">>, <<Call(<<Var("cons"), Var("a"), Cst(Null)>>)>>)),
    Define("#%unbox", Var("car")),
    Define("#%box-set!", Var("set-car!"))>>

EmptyTree ==
  LET names == Listed(DOMAIN Primitives)
  IN  [node |-> << >>, var |-> << >> \o [k \in DOMAIN names |-> VarRecord(names[k], TRUE, 0)],
       global |-> [k \in DOMAIN names |-> k], forward |-> TRUE,
       extra |-> << >>, eta |-> << >>, root |-> 0, error |-> FALSE]

\* The forms of the begins at the top take their place.
RECURSIVE Spliced(_)
Spliced(forms) ==
  FlattenSeq([k \in DOMAIN forms |-> IF Kind(forms[k]) = "seq" THEN Spliced(forms[k][2]) ELSE <<forms[k]>>])

\* parse-program
Rooted(g) == [g EXCEPT !.root = Len(g.node)]

ParseProgram(forms) ==
  LET lst == Library \o Spliced(forms) \o <<Call(<<Var("#%halt")>>)>>
  IN  Then(InOrder(ParseTop, lst, EmptyTree),
           LAMBDA ns, g : Rooted(AddOver(g, Node("seq"), g.extra \o ns)))

-----------------------------------------------------------------------------
(* analysis.rkt *)

(***************************************************************************)
(* side-effect-less?, and if oblivious, side-effect-oblivious?.  A call of *)
(* a procedure in place has one, since the arguments of the recursive call *)
(* are swapped (line 80); a call whose operator is any other expression    *)
(* has none, since the cond ends without a clause for it.                  *)
(***************************************************************************)
RECURSIVE EffectLess(_, _, _, _)
EffectLess(g, n, oblivious, seen) ==
  LET node == g.node[n]
      op   == Operator(g, n)
      v    == g.node[op].var
      val  == VarVal(g, v)
      p    == Primitives[g.var[v].id]
  IN  \/ node.kind \in {"cst", "prc"}
      \/ node.kind = "ref" /\ ~(oblivious /\ ~Immutable(g, node.var))
      \/ /\ node.kind \in {"seq", "if"}
         /\ \A k \in DOMAIN node.children : EffectLess(g, node.children[k], oblivious, seen)
      \/ /\ node.kind = "call"
         /\ \A k \in 2 .. Len(node.children) : EffectLess(g, node.children[k], oblivious, seen)
         /\ CASE KindOf(g, op) = "prc" -> FALSE
              [] KindOf(g, op) = "ref" /\ PrimitiveVar(g, v) -> p.folds /\ ~(oblivious /\ p.reads)
              [] KindOf(g, op) = "ref" ->
                   /\ val # 0 /\ KindOf(g, val) = "prc"
                   /\ \A s \in seen : ~SameVar(g, s, v)
                   /\ EffectLess(g, g.node[val].children[1], oblivious, seen \cup {v})
              [] OTHER -> TRUE

\* mark-var! and mark-needed-global-vars!
RECURSIVE MarkNeeded(_, _)
MarkNeeded(g, n) ==
  LET node == g.node[n]
      v    == node.var
      val  == VarVal(g, v)
      g1   == [g EXCEPT !.var[v].needed = TRUE]
  IN  CASE node.kind = "ref" ->
             IF ~g.var[v].global \/ g.var[v].needed \/ (val # 0 /\ KindOf(g, val) = "cst") THEN g
             ELSE IF val # 0 /\ EffectLess(g, val, FALSE, {}) THEN MarkNeeded(g1, val) ELSE g1
        [] node.kind = "def" ->
             IF EffectLess(g, node.children[1], FALSE, {}) THEN g ELSE MarkNeeded(g, node.children[1])
        [] OTHER -> ForEach(MarkNeeded, node.children, g)

\* needs-closure? is said of a procedure that needs none: the node of the
\* procedure of v, if all references to v call it with all its arguments; else 0.
ToplevelPrc(g, v) ==
  LET val == VarVal(g, v)
      called(r) ==
        LET p == g.node[r].parent
        IN  /\ p # 0 /\ KindOf(g, p) = "call" /\ Operator(g, p) = r
            /\ Len(g.node[val].params) = Len(g.node[p].children) - 1
  IN  IF val # 0 /\ KindOf(g, val) = "prc" /\ ~g.node[val].rest /\ \A r \in g.var[v].refs : called(r)
      THEN val ELSE 0

\* fv
RECURSIVE FreeVars(_, _)
FreeVars(g, n) ==
  LET node == g.node[n]
      below == UNION {FreeVars(g, node.children[k]) : k \in DOMAIN node.children}
  IN  CASE node.kind \in {"ref", "def", "set"} -> {node.var} \cup below
        [] node.kind = "prc" -> below \ ToSet(node.params)
        [] OTHER -> below

NonGlobalFV(g, n) == Listed({v \in FreeVars(g, n) : ~g.var[v].global})

=============================================================================
