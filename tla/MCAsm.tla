------------------------------- MODULE MCAsm -------------------------------
(***************************************************************************)
(* Instructions and distances for the runs of module Asm, and programs     *)
(* for those of modules Compiler and Machine.                              *)
(***************************************************************************)
EXTENDS Machine, SchemeLibrary

\* The instructions with n below the given bounds; those there is no form
\* for are an error of the assembler.
Instrs(maxGlobal) ==
  {i \in [op : {"push-constant"}, n : 0 .. 516]
      \cup [op : {"push-global", "set-global"}, n : 0 .. maxGlobal]
      \cup [op : {"push-stack", "call", "jump"}, n : 0 .. 32]
      \cup [op : {"prim"}, n : 0 .. 63] : Encodable(i)}

FewGlobals == Instrs(15)
AllGlobals == Instrs(255)

\* Around 0, and where the short forms end, forward and back.
SomeDistances == 0 .. 20 \cup 110 .. 135 \cup 250 .. 260

\* All short files, and the lengths at which the address outgrows a byte.
SomeLengths == 0 .. 52 \cup 252 .. 262

\* Data of every kind, that share parts and are parts of each other.
SomeData ==
  LET a == <<"symbol", "a">>
      big == Integer(5 * 65536 + 300)
  IN  {Integer(-2), Integer(300), big, <<"character", 97>>, a, <<"symbol", "b">>,
       Pair(Integer(300), Null), Pair(a, Pair(Integer(300), Null)),
       <<"string", <<97, 98>>>>, IntList(<<97, 98>>), <<"vector", <<a, True>>>>,
       <<"u8vector", <<98, 255>>>>, <<"string", << >>>>}

-----------------------------------------------------------------------------
(* Programs to compile.                                                    *)

x == Var("x")
a == Var("a")
b == Var("b")
u == Var("u")
v == Var("v")
Paired(d, e) == P("cons", <<d, e>>)
Shows(e) == P("print", <<e>>)

(***************************************************************************)
(* An expression in every context that the code generator tells apart: as  *)
(* a value, for its effect, at the end of a procedure, as a test.  Its     *)
(* parts use a variable as a value, in a closure and assigned.  The        *)
(* procedure is called twice, so that it stays one, and with two values,   *)
(* so that most of the tests go both ways.                                 *)
(***************************************************************************)
Small == P("<", <<x, I(3)>>)

Simple ==
  {x, Cst(False), Small, P("g", <<x>>), P("car", <<Paired(Small, I(2))>>),
   Begin(<<Assign("x", P("#%-", <<I(7), x>>)), Small>>), Begin(<<Shows(x), Small>>),
   Let(<<"y">>, <<P("#%-", <<I(4), x>>)>>, <<P("<", <<Var("y"), x>>)>>),
   Call(<<Call(<<Lambda(<<"z">>, <<Lambda(<< >>, <<Paired(x, Var("z"))>>)>>), I(9)>>)>>)}

Branches ==
  UNION {{If(t, x, If(x, I(6), x)), If(t, Begin(<<Shows(I(1)), x>>), P("g", <<x>>))} : t \in Simple}

Contexts(e) ==
  <<Shows(e), e, Begin(<<e, x>>), Shows(If(e, I(1), I(2))), If(If(e, x, Cst(False)), I(1), e),
    Call(<<If(e, Var("g"), Var("car")), Cst(Pair(Integer(7), Null))>>), Paired(e, P("g", <<e>>))>>

Within(e) ==
  <<Begin(<<Define("g", Lambda(<<"a">>, <<Paired(a, a)>>)), Begin(<<I(0)>>)>>),
    Define("f", Lambda(<<"x">>, <<e>>)), Shows(P("f", <<I(2)>>)), Shows(P("f", <<I(5)>>))>>

\* The derived forms, with tests that are used again, have an effect, or fail.
Derived ==
  LET shown(n, e) == Begin(<<Shows(I(n)), e>>)
  IN  {Or(<<shown(1, Small), shown(2, x)>>), Or(<<Cst(False), Or(<<Small, P("g", <<x>>)>>)>>), Or(<< >>),
       And(<<shown(1, Small), shown(2, x)>>), And(<<x, Or(<<Small, x>>), Small>>), And(<<Small>>),
       Cond(<<Clause(Small, <<Shows(x), I(1)>>), Arrow(Or(<<Cst(False), x>>), Var("g")), Else(<<I(2)>>)>>),
       Cond(<<Arrow(shown(1, Small), Lambda(<<"y">>, <<Assign("x", I(4)), Paired(x, Var("y"))>>))>>),
       Cond(<<Clause(And(<<Small, x>>), <<x>>), Clause(Assign("x", I(6)), <<I(1)>>), Else(<<Or(<<Small, x>>)>>)>>),
       If(Or(<<Small, Assign("x", I(3))>>), x, shown(2, x)),
       NamedLet("l", <<"n">>, <<x>>, <<If(P("<", <<Var("n"), I(1)>>), x, P("l", <<P("#%-", <<Var("n"), I(2)>>)>>))>>),
       LetStar(<<"y", "x">>, <<x, Paired(x, Var("y"))>>, <<Shows(x), Var("y")>>)}

InContext == {Within(e) : e \in UNION {Range(Contexts(c)) : c \in Branches \cup Simple \cup Derived}}

(***************************************************************************)
(* A procedure p of n arguments and a rest, in every way it can be used:   *)
(* called from the top, under another name, passed on, called in place, at *)
(* the end of another one, in a loop.  a and b are globals too.            *)
(***************************************************************************)
Bodies ==
  {<<a>>, <<Paired(a, b)>>, <<Assign("a", Paired(a, b)), Paired(a, a)>>,
   <<Call(<<Lambda(<<"c">>, <<Paired(Var("c"), Paired(a, b))>>), I(8)>>)>>,
   <<Let(<<"c">>, <<Paired(b, I(1))>>, <<Assign("c", Paired(Var("c"), a)), Var("c")>>)>>,
   <<Let(<<"c">>, <<Lambda(<< >>, <<Assign("b", I(7)), a>>)>>, <<Call(<<Var("c")>>), Paired(b, Call(<<Var("c")>>))>>)>>,
   <<Call(<<Let(<<"c">>, <<a>>, <<Lambda(<<"a">>, <<Paired(Var("c"), a)>>)>>), I(7)>>)>>}

\* The last of them is a closure.
Procedures ==
  {<<1, Lambda(<<"a">>, e)>> : e \in Bodies} \cup {<<2, Lambda(<<"b", "a">>, e)>> : e \in Bodies}
    \cup {<<3, LambdaRest(<<"b", "a">>, e)>> : e \in Bodies}
    \cup {<<n, LambdaRest(<<"b">>, <<Paired(a, b)>>)>> : n \in {0, 2}}
    \cup {<<n, Let(<<"c">>, <<Paired(a, b)>>, <<LambdaRest(<<"b", "a">>, <<Paired(Var("c"), a)>>)>>)>> : n \in 1 .. 2}

Args(n) == [k \in 1 .. n |-> I(10 * k)]
Vars(n) == [k \in 1 .. n |-> <<"u", "v", "w">>[k]]
Given(n) == [k \in 1 .. n |-> Var(Vars(n)[n - k + 1])]

\* After p is defined.
Uses(n, p) ==
  {<<Shows(P("p", Args(n)))>>,
   <<Define("ap", Lambda(<<"q">>, <<Call(<<Var("q")>> \o Args(n))>>)), Shows(P("ap", <<Var("p")>>))>>,
   <<Define("ap", Lambda(<<"q">>, <<Paired(Call(<<Var("q")>> \o Args(n)), I(0))>>)), Shows(P("ap", <<Var("p")>>)), P("ap", <<Var("p")>>)>>,
   <<Shows(Let(<<"q">>, <<Var("p")>>, <<Paired(P("q", Args(n)), P("q", Args(n)))>>))>>,
   <<Define("q", Var("p")), Shows(P("q", Args(n))), Assign("q", Var("car")), Shows(P("q", <<Paired(a, b)>>)),
     Shows(P("p", Args(n)))>>,
   <<Shows(Call(<<p>> \o Args(n)))>>,
   <<Define("fw", Lambda(Vars(n), <<P("p", Given(n))>>)), Shows(P("fw", Args(n))), Shows(P("p", Args(n)))>>,
   <<Define("l", Lambda(<<"n">>, <<If(P("<", <<Var("n"), I(1)>>), P("p", Args(n)), P("l", <<P("#%-", <<Var("n"), I(1)>>)>>))>>)),
     Shows(P("l", <<I(2)>>))>>,
   <<Shows(Letrec(<<"l">>,
       <<Lambda(<<"n">>, <<If(P("<", <<Var("n"), I(1)>>), P("p", Args(n)), Paired(Var("n"), P("l", <<P("#%-", <<Var("n"), I(1)>>)>>)))>>)>>,
       <<P("l", <<I(2)>>)>>))>>}

Called ==
  UNION {{<<Define("a", I(50)), Define("b", I(60)), Define("p", q[2])>> \o use : use \in Uses(q[1], q[2])} :
           q \in Procedures}

(***************************************************************************)
(* Globals: what one is defined as, what another is, and what happens then *)
(* to them.                                                                *)
(***************************************************************************)
Firsts == {I(1), Paired(I(1), I(2)), Lambda(<< >>, <<I(3)>>), Cst(Pair(Integer(1), Integer(300))), Begin(<<Shows(I(0)), I(4)>>)}

Seconds ==
  {u, Lambda(<< >>, <<u>>), Paired(u, u), If(u, I(1), I(2)), Begin(<<Shows(u), u>>), P("pair?", <<u>>),
   Begin(<<P("#%+", <<I(1), I(2)>>), If(Cst(False), Assign("u", I(5)), I(300))>>),
   Let(<<"t">>, <<u>>, <<Paired(Var("t"), Var("t"))>>)}

Thens ==
  {<< >>, <<Assign("u", I(9))>>, <<Assign("v", Paired(v, u))>>, <<P("cons", <<u, v>>)>>,
   <<Define("w", Lambda(<<"y">>, <<Assign("u", Var("y")), u>>)), Shows(P("w", <<I(3)>>))>>}

\* u is not renamed if it is assigned.
Globals ==
  {<<Define("u", d), Define("v", e)>> \o t \o <<Shows(Paired(u, v))>> : <<d, e, t>> \in
     {<<d, e, t>> \in Firsts \X Seconds \X Thens : e = u => \A k \in DOMAIN t : t[k] # Assign("u", I(9)) /\ t[k][2] # Name("w")}}

Compiled == InContext \cup Called \cup Globals

(***************************************************************************)
(* What the library promises: an expression with what it prints.           *)
(***************************************************************************)
Quoted(s)   == Cst(IntList(s))
Consed(s)   == P("list", [n \in DOMAIN s |-> I(s[n])])
Sum(s)      == FoldLeft(LAMBDA m, n : m + n, 0, s)
OnSequences == <<<< >>, <<3>>, <<3, 4, 5>>>>
Tens(s)     == [n \in DOMAIN s |-> s[n] + 10]
AddTen      == Lambda(<<"y">>, <<P("#%+", <<Var("y"), I(10)>>)>>)

\* Each of them is a sequence of uses, with all that they print.
OnLists ==
  UNION {
    {<<[n \in 1 .. 3 |-> Shows(P("append", <<Quoted(s), Consed(OnSequences[n])>>))],
       [n \in 1 .. 3 |-> IntList(s \o OnSequences[n])]>>,
     <<<<Shows(P("reverse", <<Consed(s)>>)), Shows(P("map", <<AddTen, Consed(s)>>)), Shows(P("length", <<Quoted(s)>>))>>,
       <<IntList(Reverse(s)), IntList(Tens(s)), Integer(Len(s))>>>>,
     <<<<P("for-each", <<Var("print"), Quoted(s)>>), Shows(P("length", <<P("map", <<Var("pair?"), Quoted(s)>>)>>))>>,
       [n \in DOMAIN s |-> Integer(s[n])] \o <<Integer(Len(s))>>>>,
     <<<<Shows(P("memq", <<I(4), Consed(s)>>)), Shows(P("+", <<I(1)>> \o [n \in DOMAIN s |-> I(s[n])]))>>,
       <<IF Len(s) < 2 THEN False ELSE IntList(Tail(s)), Integer(1 + Sum(s))>>>>} : s \in Range(OnSequences)}
  \cup
    {<<<<Shows(P("list-ref", <<Consed(<<3, 4, 5>>), I(n)>>)),
         Shows(Let(<<"c">>, <<Consed(<<3, 4, 5>>)>>, <<P("list-set!", <<Var("c"), I(n), I(9)>>), Var("c")>>))>>,
       <<Integer(3 + n), IntList([<<3, 4, 5>> EXCEPT ![n + 1] = 9])>>>> : n \in 0 .. 2}

\* call/cc around e, which may use k; what it amounts to.
CallCC(h, e) == P("call/cc", <<Lambda(<<h>>, <<e>>)>>)

Escapes ==
  LET down(n, e) == NamedLet("l", <<"n">>, <<x>>, <<If(P("<", <<Var("n"), I(1)>>), e, n)>>)
      less == P("l", <<P("#%-", <<Var("n"), I(2)>>)>>)
  IN  {<<CallCC("k", Paired(I(1), P("k", <<x>>))), x>>,
       <<CallCC("k", Begin(<<Shows(I(1)), Small>>)), Begin(<<Shows(I(1)), Small>>)>>,
       <<CallCC("k", Paired(I(1), CallCC("j", Begin(<<P("k", <<Small>>), Shows(x)>>)))), Small>>,
       <<CallCC("k", Paired(I(1), CallCC("j", Paired(x, P("j", <<x>>))))), Paired(I(1), x)>>,
       <<CallCC("k", down(Paired(Var("n"), less), P("k", <<Var("n")>>))), down(less, Var("n"))>>}

\* Threads in every order: children that print and yield, before and after.
Act(n)      == <<"print", n>>
YieldAct    == <<"yield">>
ExitAct     == <<"exit">>
Spawned(acts) == <<"spawn", acts>>

Children(n) ==
  {<<Act(n)>>, <<Act(n), YieldAct, Act(n + 1)>>, <<YieldAct, Act(n), YieldAct, YieldAct, Act(n + 1)>>,
   <<Spawned(<<Act(n + 2), YieldAct, Act(n + 3)>>), Act(n), YieldAct, Act(n + 1)>>}

Script(c, d, end) == <<Spawned(c), Act(1), YieldAct, Spawned(d), Act(2)>> \o end

\* A program starts threads twice: each procedure of threads is used twice,
\* so that it stays one.
Scripts ==
  {<<Script(c, d, <<YieldAct, Act(3)>>), Script(d, c, <<Act(3), ExitAct>>)>> : c \in Children(10), d \in Children(20)}

Promises ==
  {<<ListForms \o PlusForms \o p[1], p[2]>> : p \in OnLists}
    \cup {<<CallCCForm \o <<Shows(CallCC("k", P("k", <<I(0)>>)))>> \o Within(Contexts(p[1])[n]),
            <<Integer(0)>> \o Meaning(Within(Contexts(p[2])[n])).out>> :
              p \in Escapes, n \in 1 .. 7}
    \cup {<<ThreadForms \o <<StartedWith(s[1]), StartedWith(s[2]), Shows(I(99))>>,
            TurnsOf(s[1]) \o TurnsOf(s[2]) \o <<Integer(99)>>>> : s \in Scripts}

(***************************************************************************)
(* Programs that are outside of the families: with Renamed for Compiled,   *)
(* copy-propagate! reads u too late (front-end.rkt:216) and TLC refutes    *)
(* MeaningKept; with Unneeded, mark-needed-global-vars! does not see that  *)
(* v starts as u, which is never stored, and TLC refutes RunsAsMeant; with *)
(* SingleUse for Promises, call/cc is moved to its only use, where         *)
(* get-cont is that of f, and TLC refutes LibraryKeepsPromise.             *)
(***************************************************************************)
Renamed == {<<Define("u", I(1)), Define("v", u), Assign("u", I(2)), Shows(v)>>}

Unneeded == {<<Define("u", Paired(I(1), I(2))), Define("v", u), Shows(v), Assign("v", I(5))>>}

SingleUse ==
  {<<CallCCForm \o Within(Paired(I(1), CallCC("k", P("k", <<x>>)))), Meaning(Within(Paired(I(1), x))).out>>}

=============================================================================
