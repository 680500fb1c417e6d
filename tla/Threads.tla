------------------------------ MODULE Threads ------------------------------
(***************************************************************************)
(* The cooperative threads of src/compiler/library.scm:195-237.  The ready *)
(* ones are kept as continuations in a circular list of pairs.  readyq is  *)
(* the pair of the running thread; its car is #f while that thread runs.   *)
(*                                                                         *)
(* A thread here stands for the continuation that get-cont returns when it *)
(* is suspended.  The virtual machine can resume a continuation once only  *)
(* (module VM, run vm_reentry): the list must never hand one out twice.    *)
(***************************************************************************)
EXTENDS Naturals, Sequences, FiniteSets

CONSTANTS
  Thread,
  Main,    \* root-k: the program that called start-first-process
  False,   \* #f
  Pair     \* the pairs of the list

ASSUME ThreadAssumption ==
  /\ Main \notin Thread /\ False \notin Thread \cup {Main} \cup Pair
  /\ IsFiniteSet(Thread) /\ IsFiniteSet(Pair)
  /\ Cardinality(Pair) > Cardinality(Thread)

VARIABLES
  car, cdr,   \* the fields of the pairs
  readyq,
  running,    \* the thread that runs, or Main
  ended       \* ghost: the threads that have run to their end

vars == <<car, cdr, readyq, running, ended>>

-----------------------------------------------------------------------------
\* The pair that is n steps behind p.
Behind(p, n) == LET at[i \in 0 .. n] == IF i = 0 THEN p ELSE cdr[at[i-1]] IN at[n]

\* The pairs of the circular list from p on, and how many there are.
RingSize(p) ==
  CHOOSE n \in 1 .. Cardinality(Pair) :
    Behind(p, n) = p /\ \A m \in 1 .. n-1 : Behind(p, m) # p
Ring == IF readyq = False THEN {} ELSE {Behind(readyq, n) : n \in 0 .. RingSize(readyq)-1}

\* The threads in the list, in order.
Ready == IF readyq = False THEN << >>
         ELSE [n \in 1 .. RingSize(readyq)-1 |-> car[Behind(readyq, n)]]

\* cons takes a pair that nothing leads to.
NewPair == CHOOSE p \in Pair \ Ring : TRUE

NewThreads == {t \in Thread : t # running /\ t \notin ended
                              /\ \A p \in Ring : car[p] # t}

-----------------------------------------------------------------------------
Init ==
  /\ car = [p \in Pair |-> False] /\ cdr = [p \in Pair |-> False]
  /\ readyq = False
  /\ running = Main
  /\ ended = {}

\* start-first-process; the program may call it again when it is back.
StartFirstProcess ==
  /\ running = Main
  /\ running' \in NewThreads
  /\ readyq' = NewPair
  /\ car' = [car EXCEPT ![NewPair] = False]
  /\ cdr' = [cdr EXCEPT ![NewPair] = NewPair]
  /\ UNCHANGED ended

\* Mutant: the new pair leads back to readyq.
SpawnClosingRing ==
  /\ running # Main
  /\ running' \in NewThreads
  /\ car' = [car EXCEPT ![NewPair] = running]
  /\ cdr' = [cdr EXCEPT ![NewPair] = readyq, ![readyq] = NewPair]
  /\ UNCHANGED <<readyq, ended>>

Spawn ==
  /\ running # Main
  /\ running' \in NewThreads
  /\ car' = [car EXCEPT ![NewPair] = running]
  /\ cdr' = [cdr EXCEPT ![NewPair] = cdr[readyq], ![readyq] = NewPair]
  /\ UNCHANGED <<readyq, ended>>

\* Mutant: the next thread is looked up before this one is put in the list.
YieldLookingFirst ==
  /\ running # Main
  /\ readyq' = cdr[readyq]
  /\ running' = car[readyq']
  /\ car' = [car EXCEPT ![readyq] = running, ![readyq'] = False]
  /\ UNCHANGED <<cdr, ended>>

\* Mutant: the next thread is run in the pair of this one.
YieldInPlace ==
  /\ running # Main
  /\ car' = [car EXCEPT ![readyq] = False, ![cdr[readyq]] = running]
  /\ running' = IF cdr[readyq] = readyq THEN running ELSE car[cdr[readyq]]
  /\ UNCHANGED <<cdr, readyq, ended>>

Yield ==
  /\ running # Main
  /\ readyq' = cdr[readyq]
  /\ running' = IF readyq' = readyq THEN running ELSE car[readyq']
  /\ car' = [car EXCEPT ![readyq] = running, ![readyq'] = False]
  /\ UNCHANGED <<cdr, ended>>

\* Mutant: the continuation that is resumed stays in the list.
ExitKeepingPair ==
  /\ running # Main
  /\ ended' = ended \cup {running}
  /\ running' = IF cdr[readyq] = readyq THEN Main ELSE car[cdr[readyq]]
  /\ UNCHANGED <<car, cdr, readyq>>

(***************************************************************************)
(* exit, which a thread calls, or spawn for it when its thunk returns.     *)
(* When no other thread is left it returns #f: the thunk returns, to       *)
(* root-k.  The first process has to call it too (tests/succeed/procs.scm) *)
(* since it returns to root-k directly.                                    *)
(***************************************************************************)
Exit ==
  /\ running # Main
  /\ ended' = ended \cup {running}
  /\ LET next == cdr[readyq]
     IN  IF next = readyq
         THEN running' = Main /\ UNCHANGED cdr
         ELSE running' = car[next] /\ cdr' = [cdr EXCEPT ![readyq] = cdr[next]]
  /\ UNCHANGED <<car, readyq>>

Next == StartFirstProcess \/ Spawn \/ Yield \/ Exit

(***************************************************************************)
(* The threads cooperate: the one that runs yields or ends sooner or       *)
(* later.  Nothing takes its turn away from it.                            *)
(***************************************************************************)
Spec == Init /\ [][Next]_vars /\ WF_vars(Yield \/ Exit)

-----------------------------------------------------------------------------
\* What runs is a thread or the main program, never the #f that marks the pair
\* of the running thread.
TypeOK ==
  /\ car \in [Pair -> Thread \cup {False}]
  /\ cdr \in [Pair -> Pair \cup {False}]
  /\ readyq \in Pair \cup {False}
  /\ running \in Thread \cup {Main}
  /\ ended \subseteq Thread

(***************************************************************************)
(* No continuation is handed out twice: it is in one pair of the list at   *)
(* most, in none while its thread runs or after it has ended, and root-k   *)
(* is only returned to when no thread is left that would return to it too. *)
(***************************************************************************)
ResumedOnce ==
  /\ \A p, q \in Ring : car[p] = car[q] /\ car[p] # False => p = q
  /\ \A p \in Ring : car[p] # running /\ car[p] \notin ended
  /\ running = Main => \A p \in Ring : car[p] = False

\* The list behaves as a queue of threads.
Queue == INSTANCE ReadyQueue WITH queue <- Ready
InTurn == Queue!Spec

\* Every thread that waits in the list gets its turn.
EveryoneRuns == \A t \in Thread : (\E p \in Ring : car[p] = t) ~> running = t

=============================================================================
