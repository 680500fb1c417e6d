------------------------------- MODULE Blocks -------------------------------
(***************************************************************************)
(* From the basic blocks to the sequence of instructions: back-end.rkt,    *)
(* tree-shaker.rkt and scheduling.rkt in src/compiler.                     *)
(*                                                                         *)
(* bbs is a function from labels 0 .. n to the instructions of each block, *)
(* the last of which is its jump.                                          *)
(***************************************************************************)
EXTENDS CodeGen

\* The labels an instruction refers to.
LabelsOf(i) ==
  IF i.op = "goto-if-false" THEN {i.to, i.else}
  ELSE IF i.op \in {"goto", "closure", "call-toplevel", "jump-toplevel"} THEN {i.to} ELSE {}

Targets(block) == UNION {LabelsOf(block[k]) : k \in DOMAIN block}

\* code->vector and resolve-toplevel-labels!
Resolved(ctx) ==
  LET resolved(i) == IF i.op \in {"call-toplevel", "jump-toplevel"} THEN OpTo(i.op, ctx.entry[i.prc]) ELSE i
      block(l) == ctx.bbs[CHOOSE k \in DOMAIN ctx.bbs : ctx.bbs[k].label = l].instrs
  IN  [l \in 0 .. ctx.last |-> [k \in DOMAIN block(l) |-> resolved(block(l)[k])]]

\* renumber-labels: new maps the labels that stay to 0 .. n.
Renumbered(bbs, new) ==
  LET fix(i) == IF i.op = "goto-if-false" THEN [i EXCEPT !.to = new[@], !.else = new[@]]
                ELSE IF LabelsOf(i) # {} THEN [i EXCEPT !.to = new[@]] ELSE i
      old(m) == CHOOSE l \in DOMAIN new : new[l] = m
  IN  [m \in {new[l] : l \in DOMAIN new} |-> [k \in DOMAIN bbs[old(m)] |-> fix(bbs[old(m)][k])]]

-----------------------------------------------------------------------------
(***************************************************************************)
(* tree-shake!.  Of its two parts the first, tighten-jump-cascades!,       *)
(* changes nothing: it goes over the number of blocks (in-indexed of a     *)
(* number, tree-shaker.rkt:47) and matches none of these numbers.          *)
(***************************************************************************)
RECURSIVE Reached(_, _, _)
Reached(bbs, todo, seen) ==
  IF todo = {} THEN seen
  ELSE LET more == UNION {Targets(bbs[l]) : l \in todo}
       IN  Reached(bbs, more \ (seen \cup todo), seen \cup todo)

TreeShaken(bbs) ==
  LET kept == Reached(bbs, {0}, {})
  IN  Renumbered(bbs, [l \in kept |-> Cardinality({j \in kept : j < l})])

-----------------------------------------------------------------------------
(* reorder!: a block comes before the one it falls through to.  The labels *)
(* that are still to be placed are in todo.                                *)

\* label-refs
Referred(block) ==
  LET refs == SelectSeq(block, LAMBDA i : i.op \in {"closure", "call-toplevel", "jump-toplevel"})
  IN  [k \in DOMAIN refs |-> refs[k].to]

RECURSIVE ScheduleHere(_, _, _), ScheduleTodo(_, _)
ScheduleHere(bbs, l, st) ==
  LET jump == Last(bbs[l])
      st1  == [new  |-> (l :> Cardinality(DOMAIN st.new)) @@ st.new,
               todo |-> Referred(bbs[l]) \o st.todo]
      unscheduled(m) == m \notin DOMAIN st1.new
  IN  CASE jump.op = "goto" /\ unscheduled(jump.to) -> ScheduleHere(bbs, jump.to, st1)
        [] jump.op = "goto-if-false" /\ unscheduled(jump.else) ->
             ScheduleHere(bbs, jump.else, [st1 EXCEPT !.todo = <<jump.to>> \o @])
        [] jump.op = "goto-if-false" /\ ~unscheduled(jump.else) /\ unscheduled(jump.to) ->
             ScheduleHere(bbs, jump.to, st1)
        [] OTHER -> st1

ScheduleTodo(bbs, st) ==
  IF st.todo = << >> THEN st
  ELSE LET l    == Head(st.todo)
           rest == [st EXCEPT !.todo = Tail(@)]
       IN  ScheduleTodo(bbs, IF l \in DOMAIN st.new THEN rest ELSE ScheduleHere(bbs, l, rest))

Reordered(bbs) ==
  Renumbered(bbs, ScheduleTodo(bbs, ScheduleHere(bbs, 0, [new |-> << >>, todo |-> << >>])).new)

-----------------------------------------------------------------------------
(* linearize.  todo are labels, each with the position it was met at.      *)

Emit1(st, i) == [st EXCEPT !.code = Append(@, i)]

\* Mutant: the pointer to the last label stays behind; what was put there is
\* lost with the next one.
ToEndOver(st, l) ==
  [st EXCEPT !.todo = Append(IF @ = << >> THEN @ ELSE Front(@), <<l, Len(st.code)>>)]

\* schedule!, at the end or at the front.
ToEnd(st, l)   == [st EXCEPT !.todo = Append(@, <<l, Len(st.code)>>)]
ToFront(st, l) == [st EXCEPT !.todo = <<<<l, Len(st.code)>>>> \o @]

Undumped(st) == SelectSeq(st.todo, LAMBDA x : x[1] \notin st.dumped)

\* Mutant: what was dumped already is not left out.
IsNextDumped(st, l) == st.todo # << >> /\ Head(st.todo)[1] = l

\* next
IsNext(st, l) == Undumped(st) # << >> /\ Head(Undumped(st))[1] = l

(***************************************************************************)
(* dump-bb.  The result says whether what is emitted next is reached by    *)
(* falling through.  #%not is no primitive, which the assembler finds.     *)
(***************************************************************************)
DumpBb(bbs, l, st) ==
  LET block == bbs[l]
      jump  == Last(block)
      each(acc, i) ==
        Emit1(IF i.op \in {"closure", "call-toplevel"} THEN ToEnd(acc, i.to) ELSE acc, i)
      body  == FoldLeft(each, Emit1(st, [op |-> "label", to |-> l]), Front(block))
      Goes(s, falls) == <<s, falls>>
      front == CASE jump.op = "goto-if-false" -> ToFront(ToFront(body, jump.to), jump.else)
                 [] jump.op \in {"goto", "jump-toplevel"} -> ToFront(body, jump.to)
                 [] OTHER -> body
      unless(m) == Emit1(front, OpTo("goto-if-false", m))
  IN  CASE jump.op = "goto" ->
             IF IsNext(front, jump.to) THEN Goes(front, TRUE) ELSE Goes(Emit1(front, jump), FALSE)
        [] jump.op = "goto-if-false" ->
             IF IsNext(front, jump.else) THEN Goes(unless(jump.to), TRUE)
             ELSE IF IsNext(front, jump.to)
                  THEN Goes([unless(jump.else) EXCEPT !.error = TRUE], TRUE)
             ELSE Goes(Emit1(unless(jump.to), OpTo("goto", jump.else)), FALSE)
        [] OTHER -> Goes(Emit1(front, jump), FALSE)

\* get: the next label, or the one that was met last.
RECURSIVE Dump(_, _, _)
Dump(bbs, st, falls) ==
  LET left == Undumped(st)
      best == CHOOSE k \in DOMAIN left : \A j \in DOMAIN left :
                left[j][2] < left[k][2] \/ (left[j][2] = left[k][2] /\ k <= j)
      l    == IF falls THEN Head(st.todo)[1] ELSE left[best][1]
      st1  == IF falls THEN [st EXCEPT !.todo = Tail(@)] ELSE st
      d    == DumpBb(bbs, l, [st1 EXCEPT !.dumped = @ \cup {l}])
  IN  IF (falls /\ st.todo = << >>) \/ (~falls /\ left = << >>) THEN st
      ELSE IF l \in st.dumped THEN Dump(bbs, st1, falls)
      ELSE Dump(bbs, d[1], d[2])

Linear(bbs) ==
  Dump(bbs, ToFront([todo |-> << >>, code |-> << >>, dumped |-> {}, error |-> FALSE], 0), TRUE)

=============================================================================
