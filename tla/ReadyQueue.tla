----------------------------- MODULE ReadyQueue -----------------------------
(***************************************************************************)
(* Cooperative threads as a queue: the one that runs, and the others in    *)
(* the order in which they will get their turn.                            *)
(***************************************************************************)
EXTENDS Sequences

CONSTANTS Thread, Main

VARIABLES running, queue, ended

vars == <<running, queue, ended>>

Init == running = Main /\ queue = << >> /\ ended = {}

New(t) == t # running /\ t \notin ended /\ \A i \in DOMAIN queue : queue[i] # t

Start ==
  /\ running = Main /\ queue = << >>
  /\ running' \in {t \in Thread : New(t)}
  /\ UNCHANGED <<queue, ended>>

\* The new thread runs at once, its parent comes right after it.
Spawn ==
  /\ running # Main
  /\ running' \in {t \in Thread : New(t)}
  /\ queue' = <<running>> \o queue
  /\ UNCHANGED ended

Yield ==
  /\ running # Main
  /\ LET turns == Append(queue, running)
     IN  running' = Head(turns) /\ queue' = Tail(turns)
  /\ UNCHANGED ended

\* The last thread to end gives way to the rest of the program.
Exit ==
  /\ running # Main
  /\ ended' = ended \cup {running}
  /\ IF queue = << >> THEN running' = Main /\ UNCHANGED queue
     ELSE running' = Head(queue) /\ queue' = Tail(queue)

Next == Start \/ Spawn \/ Yield \/ Exit

Spec == Init /\ [][Next]_vars

=============================================================================
