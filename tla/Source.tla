------------------------------- MODULE Source -------------------------------
(***************************************************************************)
(* Scheme programs, and what they mean: the language that the compiler     *)
(* translates (src/compiler/parser.rkt:47-227) and the results it has to   *)
(* give, without any of its transformations.                               *)
(*                                                                         *)
(* A form is a tuple, its kind first.  The arguments of a call are         *)
(* evaluated from left to right and its operator last, as comp-call        *)
(* (comp.rkt:196-246) has it; Scheme leaves that open.  A program shows    *)
(* what it prints.  The primitives of continuations have no meaning here.  *)
(***************************************************************************)
EXTENDS Constants, TLC

\* A name is what the programmer wrote, and a number, 0 unless the compiler made it.
Name(x) == <<x, 0>>

Cst(d)             == <<"cst", d>>
Var(x)             == <<"ref", Name(x)>>
Assign(x, e)       == <<"set", Name(x), e>>
If(a, b, c)        == <<"if", a, b, c>>
Begin(es)          == <<"seq", es>>
Call(es)           == <<"call", es>>
Define(x, e)       == <<"def", Name(x), e>>
Names(xs)          == [k \in DOMAIN xs |-> Name(xs[k])]
Lambda(xs, es)     == <<"prc", Names(xs), FALSE, es>>
LambdaRest(xs, es) == <<"prc", Names(xs), TRUE, es>>   \* the last one takes the rest

\* The derived forms; those with a meaning of their own are expanded by the
\* parser.  A clause of Cond is a test, "=>" or "", and expressions.
And(es)    == <<"and", es>>
Or(es)     == <<"or", es>>
Cond(cs)   == <<"cond", cs>>
Clause(t, es)  == <<t, "", es>>
Arrow(t, e)    == <<t, "=>", e>>
Else(es)       == <<Cst(True), "else", es>>
Let(xs, vs, es) == Call(<<Lambda(xs, es)>> \o vs)
Letrec(xs, vs, es) ==
  Let(xs, [k \in DOMAIN xs |-> Cst(False)], [k \in DOMAIN xs |-> Assign(xs[k], vs[k])] \o es)
NamedLet(x, xs, vs, es) == Letrec(<<x>>, <<Lambda(xs, es)>>, <<Call(<<Var(x)>> \o vs)>>)

RECURSIVE LetStar(_, _, _)
LetStar(xs, vs, es) ==
  IF xs = << >> THEN Begin(es)
  ELSE Let(<<Head(xs)>>, <<Head(vs)>>, <<LetStar(Tail(xs), Tail(vs), es)>>)

-----------------------------------------------------------------------------
(***************************************************************************)
(* The primitives of the model: the number of arguments, the encoding,     *)
(* whether there is no result, whether the compiler can fold it, whether   *)
(* it reads mutable data.                                                  *)
(***************************************************************************)
Prim(n, code, unspecified, folds, reads) ==
  [nargs |-> n, code |-> code, unspecified |-> unspecified, folds |-> folds, reads |-> reads]

Primitives ==
     Name("#%halt")   :> Prim(0, 0, FALSE, FALSE, FALSE)
  @@ Name("get-cont")       :> Prim(0, 3, FALSE, FALSE, FALSE)
  @@ Name("graft-to-cont")  :> Prim(2, 4, TRUE, FALSE, FALSE)
  @@ Name("return-to-cont") :> Prim(2, 5, FALSE, FALSE, FALSE)
  @@ Name("pair?")    :> Prim(1, 6, FALSE, TRUE, FALSE)
  @@ Name("cons")     :> Prim(2, 7, FALSE, FALSE, FALSE)
  @@ Name("car")      :> Prim(1, 8, FALSE, TRUE, TRUE)
  @@ Name("cdr")      :> Prim(1, 9, FALSE, TRUE, TRUE)
  @@ Name("set-car!") :> Prim(2, 10, TRUE, FALSE, FALSE)
  @@ Name("set-cdr!") :> Prim(2, 11, TRUE, FALSE, FALSE)
  @@ Name("null?")    :> Prim(1, 12, FALSE, TRUE, FALSE)
  @@ Name("=")        :> Prim(2, 14, FALSE, TRUE, FALSE)
  @@ Name("#%+")      :> Prim(2, 15, FALSE, TRUE, FALSE)
  @@ Name("#%-")      :> Prim(2, 16, FALSE, TRUE, FALSE)
  @@ Name("<")        :> Prim(2, 20, FALSE, TRUE, FALSE)
  @@ Name("eq?")      :> Prim(2, 26, FALSE, TRUE, FALSE)
  @@ Name("not")      :> Prim(1, 27, FALSE, TRUE, FALSE)
  @@ Name("print")    :> Prim(1, 38, TRUE, FALSE, FALSE)

IsPrimitive(x) == x \in DOMAIN Primitives

Boolean(b) == IF b THEN True ELSE False

\* A value is a datum, a pair that was made at run time (of cell n of the
\* store), a closure or a primitive.
Cell(n) == <<"cell", n>>
IsPair(v) == Kind(v) \in {"pair", "cell"}

\* What a primitive without an effect gives for vs, in a store; << >> if it
\* fails.  eq? of larger integers, which depends on their cells, is left out.
Computes(p, vs, store) ==
  LET x == vs[1]
      ints == \A k \in DOMAIN vs : Kind(vs[k]) = "integer"
      ok(v) == <<v>>
  IN  CASE p = "pair?" -> ok(Boolean(IsPair(x)))
        [] p = "null?" -> ok(Boolean(x = Null))
        [] p = "not"   -> ok(Boolean(x = False))
        [] p = "eq?" /\ (Kind(x) = "integer" => x[2] \in -1 .. 255) -> ok(Boolean(x = vs[2]))
        [] p = "=" /\ ints   -> ok(Boolean(x = vs[2]))
        [] p = "car" /\ IsPair(x) -> ok(IF Kind(x) = "cell" THEN store[x[2]][1] ELSE x[2])
        [] p = "cdr" /\ IsPair(x) -> ok(IF Kind(x) = "cell" THEN store[x[2]][2] ELSE x[3])
        [] p = "#%+" /\ ints -> ok(Integer(x[2] + vs[2][2]))
        [] p = "#%-" /\ ints -> ok(Integer(x[2] - vs[2][2]))
        [] p = "<" /\ ints   -> ok(Boolean(x[2] < vs[2][2]))
        [] OTHER -> << >>

\* How a value is printed; a procedure is not told from another.
RECURSIVE Shown(_, _)
Shown(v, store) ==
  CASE Kind(v) = "cell" -> Pair(Shown(store[v[2]][1], store), Shown(store[v[2]][2], store))
    [] Kind(v) = "pair" -> Pair(Shown(v[2], store), Shown(v[3], store))
    [] Kind(v) \in {"closure", "primitive"} -> <<"procedure">>
    [] OTHER -> v

(***************************************************************************)
(* The effect of primitive p, whose name is p, on a state with a store and *)
(* an output; every state of the model has these and "wrong".              *)
(***************************************************************************)
Applied(p, vs, s) ==
  LET v == Computes(p, vs, s.store)
      Gives(w) == [value |-> w, state |-> s]
      Wrong == [value |-> False, state |-> [s EXCEPT !.wrong = TRUE]]
  IN  CASE Len(vs) # Primitives[Name(p)].nargs -> Wrong
        [] p = "#%halt" -> [value |-> False, state |-> [s EXCEPT !.halted = TRUE]]
        [] p = "cons" -> [value |-> Cell(Len(s.store) + 1), state |-> [s EXCEPT !.store = Append(@, vs)]]
        [] p = "set-car!" /\ Kind(vs[1]) = "cell" ->
             [value |-> False, state |-> [s EXCEPT !.store[vs[1][2]] = <<vs[2], @[2]>>]]
        [] p = "set-cdr!" /\ Kind(vs[1]) = "cell" ->
             [value |-> False, state |-> [s EXCEPT !.store[vs[1][2]] = <<@[1], vs[2]>>]]
        [] p = "print" -> [value |-> False, state |-> [s EXCEPT !.out = Append(@, Shown(vs[1], s.store))]]
        [] OTHER -> IF v = << >> THEN Wrong ELSE Gives(v[1])

-----------------------------------------------------------------------------
(* The meaning.  env gives the place of a local variable in the store.     *)

RECURSIVE Eval(_, _, _), EvalUntil(_, _, _, _), EvalClauses(_, _, _)

Bad(s) == [value |-> False, state |-> [s EXCEPT !.wrong = TRUE]]

EvalAll(es, env, s) ==
  FoldLeft(LAMBDA acc, e :
             LET r == Eval(e, env, acc.state)
             IN  [values |-> Append(acc.values, r.value), state |-> r.state],
           [values |-> << >>, state |-> s], es)

Apply(f, vs, s) ==
  IF Kind(f) = "primitive" THEN Applied(f[2][1], vs, s)
  ELSE IF Kind(f) # "closure" THEN Bad(s)
  ELSE
    LET prc  == f[2]
        xs   == prc[2]
        n    == IF prc[3] THEN Len(xs) - 1 ELSE Len(xs)
        rest == SubSeq(vs, n + 1, Len(vs))
        len  == Len(s.store)
        \* The list of the other arguments: of cells len + 1 ..
        cells == [k \in DOMAIN rest |-> <<rest[k], IF k = Len(rest) THEN Null ELSE Cell(len + k + 1)>>]
        bound == SubSeq(vs, 1, n) \o (IF ~prc[3] THEN << >> ELSE IF rest = << >> THEN <<Null>> ELSE <<Cell(len + 1)>>)
        base  == len + Len(cells)
        env   == [x \in {xs[k] : k \in DOMAIN xs} |-> base + CHOOSE k \in DOMAIN xs : xs[k] = x] @@ f[3]
    IN  IF Len(vs) < n \/ (rest # << >> /\ ~prc[3]) THEN Bad(s)
        ELSE Eval(Begin(prc[4]), env, [s EXCEPT !.store = @ \o cells \o bound])

\* The first true value for "or", the first false one for "and", or the last.
EvalUntil(true, es, env, s) ==
  LET r == Eval(es[1], env, s)
  IN  IF es = << >> THEN [value |-> Boolean(~true), state |-> s]
      ELSE IF Len(es) = 1 \/ (r.value # False) = true THEN r
      ELSE EvalUntil(true, Tail(es), env, r.state)

EvalClauses(cs, env, s) ==
  LET c == Head(cs)
      r == Eval(c[1], env, s)
      f == Eval(c[3], env, r.state)
  IN  IF cs = << >> THEN [value |-> False, state |-> s]
      ELSE IF r.value = False THEN EvalClauses(Tail(cs), env, r.state)
      ELSE IF c[2] = "=>" THEN Apply(f.value, <<r.value>>, f.state)
      ELSE Eval(Begin(c[3]), env, r.state)

Eval(e, env, s) ==
  LET Val(v) == [value |-> v, state |-> s]
      x == e[2]
  IN  IF s.wrong \/ s.halted THEN Val(False)
      ELSE CASE Kind(e) = "cst" -> Val(e[2])
        [] Kind(e) = "ref" ->
             IF x \in DOMAIN env THEN Val(s.store[env[x]])
             ELSE IF x \in DOMAIN s.global THEN Val(s.global[x])
             ELSE IF IsPrimitive(x) THEN Val(<<"primitive", x>>) ELSE Bad(s)
        [] Kind(e) \in {"set", "def"} ->
             LET r == Eval(e[3], env, s)
             IN  IF r.state.wrong THEN r
                 ELSE IF x \in DOMAIN env
                      THEN [value |-> False, state |-> [r.state EXCEPT !.store[env[x]] = r.value]]
                 ELSE IF Kind(e) = "def" \/ x \in DOMAIN s.global
                      THEN [value |-> False, state |-> [r.state EXCEPT !.global = (x :> r.value) @@ @]]
                 ELSE Bad(s)
        [] Kind(e) = "if" ->
             LET r == Eval(e[2], env, s)
             IN  Eval(IF r.value # False THEN e[3] ELSE e[4], env, r.state)
        [] Kind(e) \in {"and", "or"} -> EvalUntil(Kind(e) = "or", x, env, s)
        [] Kind(e) = "cond" -> EvalClauses(x, env, s)
        [] Kind(e) = "prc" -> Val(<<"closure", e, env>>)
        [] Kind(e) = "seq" ->
             LET r == EvalAll(e[2], env, s) IN [value |-> Last(r.values), state |-> r.state]
        [] Kind(e) = "call" ->
             LET args == EvalAll(Tail(e[2]), env, s)
                 op   == Eval(Head(e[2]), env, args.state)
             IN  IF op.state.wrong THEN op ELSE Apply(op.value, args.values, op.state)

Started == [store |-> << >>, global |-> << >>, out |-> << >>, halted |-> FALSE, wrong |-> FALSE]

\* What the forms of a program print, and whether something is wrong with it.
Meaning(forms) ==
  LET s == EvalAll(forms, << >>, Started).state
  IN  [out |-> s.out, wrong |-> s.wrong]

=============================================================================
