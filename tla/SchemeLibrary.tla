---------------------------- MODULE SchemeLibrary ----------------------------
(***************************************************************************)
(* Procedures of src/compiler/library.scm as forms of module Source, with  *)
(* what they promise: lists against the sequences of TLA+, call/cc as an   *)
(* exit, and threads that take turns.  Programs that use continuations     *)
(* have no meaning in module Source, which has none; what they have to     *)
(* print is told from their scripts here.                                  *)
(***************************************************************************)
EXTENDS Source

P(name, es) == Call(<<Var(name)>> \o es)
I(n)        == Cst(Integer(n))

LOCAL lst  == Var("lst")
LOCAL lst1 == Var("lst1")
LOCAL i    == Var("i")
LOCAL k    == Var("k")
LOCAL f    == Var("f")

-----------------------------------------------------------------------------
(* Numbers and lists.                                                      *)

PlusForms ==
  <<Define("+", LambdaRest(<<"x", "rest">>,
      <<If(P("pair?", <<Var("rest")>>), P("#%+-aux", <<Var("x"), Var("rest")>>), Var("x"))>>)),
    Define("#%+-aux", Lambda(<<"x", "rest">>,
      <<If(P("pair?", <<Var("rest")>>),
           P("#%+-aux", <<P("#%+", <<Var("x"), P("car", <<Var("rest")>>)>>), P("cdr", <<Var("rest")>>)>>),
           Var("x"))>>))>>

ListForm == <<Define("list", LambdaRest(<<"lst">>, <<lst>>))>>

LengthForms ==
  <<Define("length", Lambda(<<"lst">>, <<P("#%length-aux", <<lst, I(0)>>)>>)),
    Define("#%length-aux", Lambda(<<"lst", "n">>,
      <<If(P("pair?", <<lst>>), P("#%length-aux", <<P("cdr", <<lst>>), P("#%+", <<Var("n"), I(1)>>)>>), Var("n"))>>))>>

AppendForm ==
  <<Define("append", Lambda(<<"lst1", "lst2">>,
      <<If(P("pair?", <<lst1>>),
           P("cons", <<P("car", <<lst1>>), P("append", <<P("cdr", <<lst1>>), Var("lst2")>>)>>),
           Var("lst2"))>>))>>

ReverseForms ==
  <<Define("reverse", Lambda(<<"lst">>, <<P("#%reverse-aux", <<lst, Cst(Null)>>)>>)),
    Define("#%reverse-aux", Lambda(<<"lst", "rev">>,
      <<If(P("pair?", <<lst>>),
           P("#%reverse-aux", <<P("cdr", <<lst>>), P("cons", <<P("car", <<lst>>), Var("rev")>>)>>),
           Var("rev"))>>))>>

IndexForms ==
  <<Define("list-ref", Lambda(<<"lst", "i">>,
      <<If(P("=", <<i, I(0)>>), P("car", <<lst>>), P("list-ref", <<P("cdr", <<lst>>), P("#%-", <<i, I(1)>>)>>))>>)),
    Define("list-set!", Lambda(<<"lst", "i", "x">>,
      <<If(P("=", <<i, I(0)>>), P("set-car!", <<lst, Var("x")>>),
           P("list-set!", <<P("cdr", <<lst>>), P("#%-", <<i, I(1)>>), Var("x")>>))>>))>>

MapForms ==
  <<Define("map", Lambda(<<"f", "lst">>,
      <<If(P("pair?", <<lst>>),
           P("cons", <<P("f", <<P("car", <<lst>>)>>), P("map", <<f, P("cdr", <<lst>>)>>)>>),
           Cst(Null))>>)),
    Define("for-each", Lambda(<<"f", "lst">>,
      <<If(P("pair?", <<lst>>),
           Begin(<<P("f", <<P("car", <<lst>>)>>), P("for-each", <<f, P("cdr", <<lst>>)>>)>>),
           Cst(False))>>))>>

MemqForm ==
  <<Define("memq", Lambda(<<"t", "l">>,
      <<Cond(<<Clause(P("null?", <<Var("l")>>), <<Cst(False)>>),
               Clause(P("eq?", <<P("car", <<Var("l")>>), Var("t")>>), <<Var("l")>>),
               Else(<<P("memq", <<Var("t"), P("cdr", <<Var("l")>>)>>)>>)>>)>>))>>

ListForms == ListForm \o LengthForms \o AppendForm \o ReverseForms \o IndexForms \o MapForms \o MemqForm

-----------------------------------------------------------------------------
(* Continuations and threads.                                              *)

CallCCForm ==
  <<Define("call/cc", Lambda(<<"receiver">>,
      <<Let(<<"k">>, <<P("get-cont", << >>)>>,
            <<P("receiver", <<Lambda(<<"r">>, <<P("return-to-cont", <<k, Var("r")>>)>>)>>)>>)>>))>>

StartForms ==
  <<Define("root-k", Cst(False)),
    Define("readyq", Cst(False)),
    Define("start-first-process", Lambda(<<"thunk">>,
      <<Assign("root-k", P("get-cont", << >>)),
        Assign("readyq", P("cons", <<Cst(False), Cst(False)>>)),
        P("set-cdr!", <<Var("readyq"), Var("readyq")>>),
        P("thunk", << >>)>>))>>

SpawnForm ==
  <<Define("spawn", Lambda(<<"thunk">>,
      <<LetStar(<<"k", "next">>,
                <<P("get-cont", << >>), P("cons", <<k, P("cdr", <<Var("readyq")>>)>>)>>,
          <<P("set-cdr!", <<Var("readyq"), Var("next")>>),
            P("graft-to-cont", <<Var("root-k"), Lambda(<< >>, <<P("thunk", << >>), P("exit", << >>)>>)>>)>>)>>))>>

ExitForm ==
  <<Define("exit", Lambda(<< >>,
      <<Let(<<"next">>, <<P("cdr", <<Var("readyq")>>)>>,
        <<If(P("eq?", <<Var("next"), Var("readyq")>>),
             Cst(False),
             Begin(<<P("set-cdr!", <<Var("readyq"), P("cdr", <<Var("next")>>)>>),
                     P("return-to-cont", <<P("car", <<Var("next")>>), Cst(False)>>)>>))>>)>>))>>

\* What a step of yield does before the next thread is resumed.
YieldForms(steps) ==
  <<Define("yield", Lambda(<< >>,
      <<Let(<<"k">>, <<P("get-cont", << >>)>>,
        <<P("set-car!", <<Var("readyq"), k>>)>> \o steps \o
        <<Let(<<"next-k">>, <<P("car", <<Var("readyq")>>)>>,
            <<P("set-car!", <<Var("readyq"), Cst(False)>>),
              P("return-to-cont", <<Var("next-k"), Cst(False)>>)>>)>>)>>))>>

\* Mutant: the queue stays where it is.
YieldFormInPlace == YieldForms(<< >>)

YieldForm == YieldForms(<<Assign("readyq", P("cdr", <<Var("readyq")>>))>>)

ThreadForms == StartForms \o SpawnForm \o ExitForm \o YieldForm

\* What a thread does, in order: prints, yields, spawns and exits.
RECURSIVE Body(_)
Body(script) ==
  [n \in DOMAIN script |->
     LET act == script[n]
     IN  CASE act[1] = "print" -> P("print", <<I(act[2])>>)
           [] act[1] = "yield" -> P("yield", << >>)
           [] act[1] = "exit"  -> P("exit", << >>)
           [] act[1] = "spawn" -> P("spawn", <<Lambda(<< >>, Body(act[2]))>>)]

StartedWith(script) == P("start-first-process", <<Lambda(<< >>, Body(script))>>)

(***************************************************************************)
(* What threads print that take turns as in module ReadyQueue.  A thread   *)
(* is what it has left to do; the program goes on when the first one       *)
(* returns, or the last one ends.                                          *)
(***************************************************************************)
RECURSIVE Turns(_, _)
Turns(now, queue) ==
  LET act  == Head(now.acts)
      rest == [now EXCEPT !.acts = Tail(@)]
      all  == Append(queue, rest)
  IN  IF now.acts = << >>
      THEN IF now.first \/ queue = << >> THEN << >> ELSE Turns(Head(queue), Tail(queue))
      ELSE CASE act[1] = "print" -> <<Integer(act[2])>> \o Turns(rest, queue)
             [] act[1] = "yield" -> Turns(Head(all), Tail(all))
             [] act[1] = "spawn" -> Turns([acts |-> act[2], first |-> FALSE], <<rest>> \o queue)
             [] act[1] = "exit"  -> IF queue = << >> THEN Turns(rest, queue)
                                    ELSE Turns(Head(queue), Tail(queue))

TurnsOf(script) == Turns([acts |-> script, first |-> TRUE], << >>)

=============================================================================
