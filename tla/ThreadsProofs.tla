--------------------------- MODULE ThreadsProofs ---------------------------
(***************************************************************************)
(* The circular list of library.scm is a queue of threads, however many    *)
(* there are: it stays a ring, never holds a continuation twice, and       *)
(* behaves as module ReadyQueue says.                                      *)
(***************************************************************************)
EXTENDS Threads, TLAPS, WellFoundedInduction, FiniteSetTheorems, SequenceTheorems

-----------------------------------------------------------------------------
(* A property of numbers that fails has a smallest number where it fails.  *)

Less == {ss \in Nat \X Nat : ss[1] < ss[2]}

LEMMA Smallest ==
  ASSUME NEW S \in SUBSET Nat, S # {}
  PROVE  \E m \in S : \A k \in Nat : k < m => k \notin S
<1>1. IsWellFoundedOn(Less, Nat)
  BY NatLessThanWellFounded DEF OpToRel, Less
<1>2. PICK m \in S : \A k \in S : ~(<<k, m>> \in Less)
  BY <1>1, WFMin
<1> QED
  BY <1>2 DEF Less

-----------------------------------------------------------------------------
(* What is n steps behind a pair.                                          *)

IsWay(f, p, n) == f = [i \in 0 .. n |-> IF i = 0 THEN p ELSE cdr[f[i-1]]]

LEMMA WayIs ==
  ASSUME NEW f, NEW p, NEW n \in Nat
  PROVE  IsWay(f, p, n) =>
           /\ f[0] = p
           /\ \A i \in Nat : i + 1 <= n => f[i + 1] = cdr[f[i]]
<1> SUFFICES ASSUME IsWay(f, p, n)
             PROVE  f[0] = p /\ \A i \in Nat : i + 1 <= n => f[i + 1] = cdr[f[i]]
  OBVIOUS
<1>1. \A i \in 0 .. n : f[i] = IF i = 0 THEN p ELSE cdr[f[i-1]]
  BY DEF IsWay
<1>2. ASSUME NEW i \in Nat, i + 1 <= n PROVE f[i + 1] = cdr[f[i]]
  <2>1. i + 1 \in 0 .. n /\ i + 1 # 0 /\ (i + 1) - 1 = i
    BY <1>2
  <2> QED
    BY <1>1, <2>1
<1> QED
  BY <1>1, <1>2

LEMMA WayExists ==
  ASSUME NEW p, NEW n \in Nat
  PROVE  \E f : IsWay(f, p, n)
<1> DEFINE Bad == {k \in Nat : ~ \E f : IsWay(f, p, k)}
<1> SUFFICES ASSUME Bad # {} PROVE FALSE
  OBVIOUS
<1>1. PICK m \in Bad : \A k \in Nat : k < m => k \notin Bad
  BY Smallest
<1>2. CASE m = 0
  <2> DEFINE f == [i \in 0 .. 0 |-> p]
  <2>1. \A i \in 0 .. 0 : i = 0
    OBVIOUS
  <2>2. f = [i \in 0 .. 0 |-> IF i = 0 THEN p ELSE cdr[f[i-1]]]
    BY <2>1
  <2> QED
    BY <1>2, <2>2 DEF IsWay
<1>3. CASE m # 0
  <2>1. m - 1 \in Nat /\ m - 1 < m
    BY <1>3
  <2>2. PICK g : IsWay(g, p, m - 1)
    BY <1>1, <2>1
  <2> DEFINE f == [i \in 0 .. m |-> IF i = m THEN cdr[g[m-1]] ELSE g[i]]
  <2>3. \A i \in 0 .. m - 1 : g[i] = IF i = 0 THEN p ELSE cdr[g[i-1]]
    BY <2>2 DEF IsWay
  <2>4. ASSUME NEW i \in 0 .. m PROVE f[i] = IF i = 0 THEN p ELSE cdr[f[i-1]]
    <3>1. CASE i = m
      BY <1>3, <2>1, <3>1
    <3>2. CASE i # m
      <4>1. i \in 0 .. m - 1 /\ (i # 0 => i - 1 \in 0 .. m /\ i - 1 # m)
        BY <3>2
      <4> QED
        BY <2>3, <3>2, <4>1
    <3> QED
      BY <3>1, <3>2
  <2>5. IsWay(f, p, m)
    BY <2>4 DEF IsWay
  <2> QED
    BY <2>5
<1> QED
  BY <1>2, <1>3

LEMMA WaysAgree ==
  ASSUME NEW p, NEW n \in Nat, NEW m \in Nat, NEW f, NEW g, IsWay(f, p, n), IsWay(g, p, m),
         NEW i \in Nat, i <= n, i <= m
  PROVE  f[i] = g[i]
<1> DEFINE Bad == {k \in Nat : k <= n /\ k <= m /\ f[k] # g[k]}
<1>1. SUFFICES ASSUME Bad # {} PROVE FALSE
  OBVIOUS
<1>2. PICK k \in Bad : \A j \in Nat : j < k => j \notin Bad
  BY <1>1, Smallest
<1>3. k # 0
  BY WayIs
<1>4. k - 1 \in Nat /\ k - 1 < k /\ k - 1 <= n /\ k - 1 <= m /\ (k - 1) + 1 = k
  BY <1>3
<1>5. f[k - 1] = g[k - 1]
  BY <1>2, <1>4
<1> QED
  BY <1>4, <1>5, WayIs

LEMMA BehindIs ==
  ASSUME NEW p, NEW n \in Nat
  PROVE  Behind(p, 0) = p /\ Behind(p, n + 1) = cdr[Behind(p, n)]
<1> DEFINE Way(k) == CHOOSE f : f = [i \in 0 .. k |-> IF i = 0 THEN p ELSE cdr[f[i-1]]]
<1>1. \A k : Behind(p, k) = Way(k)[k]
  BY DEF Behind
<1>2. \A k \in Nat : IsWay(Way(k), p, k)
  BY WayExists DEF IsWay
<1> HIDE DEF Way
<1>3. Behind(p, 0) = p
  BY <1>1, <1>2, WayIs
<1>4. Way(n + 1)[n + 1] = cdr[Way(n + 1)[n]]
  BY <1>2, WayIs
<1>5. Way(n + 1)[n] = Way(n)[n]
  BY <1>2, WaysAgree
<1> QED
  BY <1>1, <1>3, <1>4, <1>5

-----------------------------------------------------------------------------
(***************************************************************************)
(* The inductive invariant.  ResumedOnce speaks of the pairs that can be   *)
(* reached from readyq.  That a change of one cdr leaves them a ring can   *)
(* only be seen from the ring itself, its n pairs s in order: the one of   *)
(* the running thread first, then one for each thread that waits.          *)
(***************************************************************************)
RingOf(n, s) ==
  /\ \A i, j \in 1 .. n : s[i] = s[j] => i = j
  /\ s[1] = readyq
  /\ \A i \in 1 .. n : cdr[s[i]] = IF i = n THEN readyq ELSE s[i+1]

Waiting(n, s) ==
  /\ car[readyq] = False
  /\ \A i \in 2 .. n : car[s[i]] \in Thread \ ({running} \cup ended)
  /\ \A i, j \in 2 .. n : car[s[i]] = car[s[j]] => i = j
  /\ running = Main => n = 1

RingInv ==
  \E n \in 1 .. Cardinality(Pair) : \E s \in [1 .. n -> Pair] :
    RingOf(n, s) /\ Waiting(n, s)

IInv ==
  /\ TypeOK /\ running \notin ended
  /\ readyq = False => running = Main
  /\ readyq # False => RingInv

-----------------------------------------------------------------------------
(* What Ring and Ready are when the pairs form a ring.                     *)

LEMMA CountIs ==
  ASSUME NEW S, IsFiniteSet(S), NEW n \in Nat, NEW f \in [1 .. n -> S],
         \A i, j \in 1 .. n : f[i] = f[j] => i = j
  PROVE  n <= Cardinality(S)
<1>1. f \in Injection(1 .. n, S)
  BY DEF Injection, IsInjective
<1>2. Cardinality(1 .. n) = n
  BY FS_Interval
<1>3. Cardinality(1 .. n) <= Cardinality(S)
  BY <1>1, FS_Injection
<1> QED
  BY <1>2, <1>3

LEMMA PairFacts ==
  /\ IsFiniteSet(Pair) /\ Cardinality(Pair) \in Nat
  /\ IsFiniteSet(Thread) /\ Cardinality(Thread) \in Nat
  /\ Cardinality(Pair) > Cardinality(Thread)
  /\ False \notin Pair /\ False \notin Thread /\ Main \notin Thread /\ False # Main
  BY ThreadAssumption, FS_CardinalityType

LEMMA BehindInRing ==
  ASSUME NEW n \in Nat \ {0}, NEW s \in [1 .. n -> Pair], RingOf(n, s)
  PROVE  /\ \A k \in 0 .. n - 1 : Behind(readyq, k) = s[k + 1]
         /\ Behind(readyq, n) = readyq
<1>1. \A k \in 0 .. n - 1 : Behind(readyq, k) = s[k + 1]
  <2> DEFINE Bad == {k \in Nat : k <= n - 1 /\ Behind(readyq, k) # s[k + 1]}
  <2>1. SUFFICES ASSUME Bad # {} PROVE FALSE
    OBVIOUS
  <2>2. PICK k \in Bad : \A j \in Nat : j < k => j \notin Bad
    BY <2>1, Smallest
  <2>3. k # 0
    BY BehindIs DEF RingOf
  <2>4. k - 1 \in Nat /\ k - 1 < k /\ k - 1 <= n - 1 /\ (k - 1) + 1 = k
    BY <2>3
  <2>5. Behind(readyq, k - 1) = s[k]
    BY <2>2, <2>4
  <2>6. Behind(readyq, k) = cdr[s[k]]
    BY <2>4, <2>5, BehindIs
  <2>7. k \in 1 .. n /\ k # n
    BY <2>3
  <2>8. cdr[s[k]] = s[k + 1]
    BY <2>7 DEF RingOf
  <2> QED
    BY <2>6, <2>8
<1>2. Behind(readyq, n) = readyq
  <2>1. n - 1 \in 0 .. n - 1 /\ n - 1 \in Nat /\ (n - 1) + 1 = n /\ n \in 1 .. n
    OBVIOUS
  <2>2. Behind(readyq, n - 1) = s[n]
    BY <1>1, <2>1
  <2>3. Behind(readyq, (n - 1) + 1) = cdr[Behind(readyq, n - 1)]
    BY <2>1, BehindIs
  <2> QED
    BY <2>1, <2>2, <2>3 DEF RingOf
<1> QED
  BY <1>1, <1>2

LEMMA RingIs ==
  ASSUME readyq # False,
         NEW n \in Nat \ {0}, NEW s \in [1 .. n -> Pair], RingOf(n, s)
  PROVE  /\ n <= Cardinality(Pair)
         /\ RingSize(readyq) = n
         /\ Ring = {s[i] : i \in 1 .. n}
         /\ Ready = [i \in 1 .. n - 1 |-> car[s[i + 1]]]
<1>1. n <= Cardinality(Pair)
  BY CountIs, PairFacts DEF RingOf
<1> DEFINE Round(k) == Behind(readyq, k) = readyq /\ \A m \in 1 .. k - 1 : Behind(readyq, m) # readyq
<1>2. ASSUME NEW m \in 1 .. n - 1 PROVE Behind(readyq, m) # readyq
  <2>1. m + 1 \in 1 .. n /\ m + 1 # 1 /\ 1 \in 1 .. n /\ m \in 0 .. n - 1
    OBVIOUS
  <2>2. Behind(readyq, m) = s[m + 1]
    BY <2>1, BehindInRing
  <2> QED
    BY <2>1, <2>2 DEF RingOf
<1>3. Round(n) /\ n \in 1 .. Cardinality(Pair)
  BY <1>1, <1>2, BehindInRing, PairFacts
<1>4. ASSUME NEW k \in 1 .. Cardinality(Pair), Round(k) PROVE k = n
  <2>1. ~(k < n)
    BY <1>2, <1>4
  <2>2. ~(n < k)
    BY <1>3, <1>4
  <2> QED
    BY <2>1, <2>2
<1>5. RingSize(readyq) = n
  BY <1>3, <1>4 DEF RingSize
<1>6. Ring = {s[i] : i \in 1 .. n}
  <2>1. Ring = {Behind(readyq, k) : k \in 0 .. n - 1}
    BY <1>5 DEF Ring
  <2>2. \A k \in 0 .. n - 1 : k + 1 \in 1 .. n /\ Behind(readyq, k) = s[k + 1]
    BY BehindInRing
  <2>3. \A i \in 1 .. n : i - 1 \in 0 .. n - 1 /\ Behind(readyq, i - 1) = s[i]
    BY <2>2
  <2> QED
    BY <2>1, <2>2, <2>3
<1>7. Ready = [i \in 1 .. n - 1 |-> car[s[i + 1]]]
  <2>1. \A i \in 1 .. n - 1 : Behind(readyq, i) = s[i + 1]
    BY BehindInRing
  <2> QED
    BY <1>5, <2>1 DEF Ready
<1> QED
  BY <1>1, <1>5, <1>6, <1>7

\* cons finds a pair: there are more of them than threads.
LEMMA NewPairIs ==
  ASSUME IInv, NEW t \in NewThreads
  PROVE  NewPair \in Pair /\ NewPair \notin Ring
<1>1. CASE readyq = False
  <2>1. Pair # {}
    BY PairFacts, FS_EmptySet
  <2> QED
    BY <1>1, <2>1 DEF NewPair, Ring
<1>2. CASE readyq # False
  <2>0. PICK n \in 1 .. Cardinality(Pair) :
          \E s \in [1 .. n -> Pair] : RingOf(n, s) /\ Waiting(n, s)
    BY <1>2 DEF IInv, RingInv
  <2>1. PICK s \in [1 .. n -> Pair] : RingOf(n, s) /\ Waiting(n, s)
    BY <2>0
  <2>2. n \in Nat \ {0} /\ Ring = {s[i] : i \in 1 .. n}
    BY <1>2, <2>1, RingIs
  <2> DEFINE f == [i \in 1 .. n |-> IF i = 1 THEN t ELSE car[s[i]]]
  <2>3. \A i \in 1 .. n : i = 1 \/ i \in 2 .. n
    BY <2>2
  <2>4. f \in [1 .. n -> Thread]
    BY <2>1, <2>3 DEF Waiting, NewThreads
  <2>5. \A i, j \in 1 .. n : f[i] = f[j] => i = j
    BY <2>1, <2>2, <2>3 DEF Waiting, NewThreads
  <2> HIDE DEF f
  <2>6. n <= Cardinality(Thread)
    BY <2>2, <2>4, <2>5, CountIs, PairFacts
  <2>7. Pair \ Ring # {}
    <3>1. s \in Surjection(1 .. n, Ring)
      BY <2>2 DEF Surjection
    <3>2. Cardinality(Ring) <= n
      BY <2>2, <3>1, FS_Surjection, FS_Interval
    <3>3. ASSUME Ring = Pair PROVE FALSE
      <4>1. Cardinality(Pair) <= n
        BY <3>2, <3>3
      <4> QED
        BY <2>2, <2>6, <4>1, PairFacts
    <3>4. Ring \subseteq Pair
      BY <2>2
    <3> QED
      BY <3>3, <3>4
  <2> QED
    BY <2>7 DEF NewPair
<1> QED
  BY <1>1, <1>2

\* What the list of threads reads as, in this state and in the next one.
Reads(n, s) ==
  /\ Ready \in Seq(Thread \cup {False}) /\ Len(Ready) = n - 1
  /\ \A i \in 1 .. n - 1 : Ready[i] = car[s[i + 1]]

ReadyIs ==
  TypeOK /\ readyq # False =>
    \A n \in Nat \ {0} : \A s \in [1 .. n -> Pair] : RingOf(n, s) => Reads(n, s)

LEMMA ReadyNow == ReadyIs
<1> SUFFICES ASSUME TypeOK, readyq # False, NEW n \in Nat \ {0},
                    NEW s \in [1 .. n -> Pair], RingOf(n, s)
             PROVE  Reads(n, s)
  BY DEF ReadyIs
<1>1. Ready = [i \in 1 .. n - 1 |-> car[s[i + 1]]]
  BY RingIs
<1>2. n - 1 \in Nat /\ \A i \in 1 .. n - 1 : car[s[i + 1]] \in Thread \cup {False}
  BY DEF TypeOK
<1> QED
  BY <1>1, <1>2 DEF Reads

LEMMA ReadyNext ==
  ASSUME NEW n \in Nat \ {0}, NEW s \in [1 .. n -> Pair],
         TypeOK', (readyq # False)', RingOf(n, s)'
  PROVE  Reads(n, s)'
<1>1. ReadyIs'
  BY ReadyNow, PTL
<1> QED
  BY <1>1 DEF ReadyIs

\* The ring of a state of the invariant, and what the queue is there.
LEMMA ThereIsARing ==
  ASSUME IInv, readyq # False
  PROVE  \E n \in Nat \ {0} : \E s \in [1 .. n -> Pair] :
           /\ RingOf(n, s) /\ Waiting(n, s) /\ Reads(n, s)
           /\ Ring = {s[i] : i \in 1 .. n}
<1>1. PICK n \in 1 .. Cardinality(Pair) :
        \E s \in [1 .. n -> Pair] : RingOf(n, s) /\ Waiting(n, s)
  BY DEF IInv, RingInv
<1>2. PICK s \in [1 .. n -> Pair] : RingOf(n, s) /\ Waiting(n, s)
  BY <1>1
<1>3. n \in Nat \ {0}
  BY PairFacts
<1>4. Reads(n, s) /\ Ring = {s[i] : i \in 1 .. n}
  BY <1>2, <1>3, ReadyNow, RingIs DEF ReadyIs, IInv
<1> QED
  BY <1>2, <1>3, <1>4

\* What a step has to show about the new ring.
LEMMA NewRing ==
  ASSUME NEW n \in Nat \ {0}, NEW s \in [1 .. n -> Pair],
         TypeOK', (running \notin ended)', (readyq # False)', RingOf(n, s)', Waiting(n, s)'
  PROVE  IInv' /\ Reads(n, s)'
<1>1. n \in 1 .. Cardinality(Pair)
  BY CountIs, PairFacts DEF RingOf
<1>2. RingInv'
  BY <1>1 DEF RingInv
<1> QED
  BY <1>2, ReadyNext DEF IInv

LEMMA SameSequence ==
  ASSUME NEW S, NEW a \in Seq(S), NEW b \in Seq(S), Len(a) = Len(b),
         \A i \in 1 .. Len(a) : a[i] = b[i]
  PROVE  a = b
  BY SeqEqual

-----------------------------------------------------------------------------
(* Each step keeps the invariant, and is a step of the queue.              *)

LEMMA StartKeeps == IInv /\ StartFirstProcess => IInv' /\ Queue!Start
<1> SUFFICES ASSUME IInv, StartFirstProcess PROVE IInv' /\ Queue!Start
  OBVIOUS
<1>1. /\ running = Main /\ running' \in NewThreads /\ readyq' = NewPair
      /\ car' = [car EXCEPT ![NewPair] = False]
      /\ cdr' = [cdr EXCEPT ![NewPair] = NewPair]
      /\ ended' = ended
  BY DEF StartFirstProcess
<1>2. NewPair \in Pair /\ NewPair # False
  BY <1>1, NewPairIs, PairFacts
<1>3. TypeOK' /\ car'[NewPair] = False /\ cdr'[NewPair] = NewPair
  BY <1>1, <1>2 DEF IInv, TypeOK, NewThreads
<1>4. PICK v \in [1 .. 1 -> Pair] : v[1] = NewPair
  <2> DEFINE f == [i \in 1 .. 1 |-> NewPair]
  <2>1. f \in [1 .. 1 -> Pair] /\ f[1] = NewPair
    BY <1>2
  <2> QED
    BY <2>1
<1>5. RingOf(1, v)' /\ Waiting(1, v)'
  <2>1. \A i \in 1 .. 1 : i = 1
    OBVIOUS
  <2>2. 2 .. 1 = {}
    OBVIOUS
  <2> QED
    BY <1>1, <1>3, <1>4, <2>1, <2>2 DEF RingOf, Waiting
<1>6. IInv' /\ Reads(1, v)'
  <2>1. running' \notin ended' /\ readyq' # False
    BY <1>1, <1>2 DEF NewThreads
  <2>2. 1 \in Nat \ {0}
    OBVIOUS
  <2> QED
    BY <1>3, <1>5, <2>1, <2>2, NewRing
<1>7. Ready = << >>
  <2>1. CASE readyq = False
    BY <2>1 DEF Ready
  <2>2. CASE readyq # False
    <3>1. PICK n \in Nat \ {0} :
            \E s \in [1 .. n -> Pair] : Waiting(n, s) /\ Reads(n, s)
      BY <2>2, ThereIsARing
    <3> QED
      BY <1>1, <3>1 DEF Waiting, Reads
  <2> QED
    BY <2>1, <2>2
<1>8. Ready' = << >>
  BY <1>6 DEF Reads
<1> QED
  BY <1>1, <1>6, <1>7, <1>8 DEF Queue!Start, Queue!New, NewThreads

LEMMA SpawnKeeps == IInv /\ Spawn => IInv' /\ Queue!Spawn
<1> SUFFICES ASSUME IInv, Spawn PROVE IInv' /\ Queue!Spawn
  OBVIOUS
<1>1. /\ running # Main /\ running' \in NewThreads
      /\ car' = [car EXCEPT ![NewPair] = running]
      /\ cdr' = [cdr EXCEPT ![NewPair] = cdr[readyq], ![readyq] = NewPair]
      /\ readyq' = readyq /\ ended' = ended
  BY DEF Spawn
<1>2. TypeOK /\ running \notin ended /\ readyq # False /\ running \in Thread
  BY <1>1 DEF IInv, TypeOK
<1>3. PICK n \in Nat \ {0} :
        \E s \in [1 .. n -> Pair] : /\ RingOf(n, s) /\ Waiting(n, s) /\ Reads(n, s)
                                   /\ Ring = {s[i] : i \in 1 .. n}
  BY <1>2, ThereIsARing
<1>4. PICK s \in [1 .. n -> Pair] :
        RingOf(n, s) /\ Waiting(n, s) /\ Reads(n, s) /\ Ring = {s[i] : i \in 1 .. n}
  BY <1>3
<1>5. PICK q \in Pair : q = NewPair /\ \A i \in 1 .. n : s[i] # q
  BY <1>1, <1>4, NewPairIs
<1>6. /\ running' \in Thread /\ running' # running /\ running' \notin ended
      /\ \A i \in 1 .. n : car[s[i]] # running'
  BY <1>1, <1>4 DEF NewThreads
<1>7. n + 1 \in Nat \ {0} /\ \A i \in 1 .. n + 1 : i \in {1, 2} \/ (i \in 3 .. n + 1 /\ i - 1 \in 2 .. n)
  OBVIOUS
<1>8. PICK v \in [1 .. n + 1 -> Pair] :
        v[1] = s[1] /\ v[2] = q /\ \A i \in 3 .. n + 1 : v[i] = s[i - 1]
  <2> DEFINE f == [i \in 1 .. n + 1 |-> IF i = 1 THEN s[1] ELSE IF i = 2 THEN q ELSE s[i - 1]]
  <2>1. f \in [1 .. n + 1 -> Pair]
    BY <1>5, <1>7
  <2>2. f[1] = s[1] /\ f[2] = q /\ \A i \in 3 .. n + 1 : f[i] = s[i - 1]
    OBVIOUS
  <2> QED
    BY <2>1, <2>2
<1>9. s[1] = readyq /\ readyq \in Pair /\ readyq # q /\ \A i \in 2 .. n : s[i] # readyq /\ s[i] # q
  BY <1>4, <1>5 DEF RingOf
<1>10. /\ cdr'[readyq] = q /\ cdr'[q] = cdr[readyq]
       /\ \A i \in 2 .. n : cdr'[s[i]] = cdr[s[i]]
       /\ car'[readyq] = False /\ car'[q] = running
       /\ \A i \in 2 .. n : car'[s[i]] = car[s[i]]
  <2>1. car \in [Pair -> Thread \cup {False}] /\ cdr \in [Pair -> Pair \cup {False}]
    BY <1>2 DEF TypeOK
  <2> QED
    BY <1>1, <1>4, <1>5, <1>9, <2>1 DEF Waiting
<1>11. TypeOK'
  BY <1>1, <1>2, <1>5, <1>6, <1>9 DEF TypeOK
<1>12. RingOf(n + 1, v)'
  <2>1. \A i, j \in 1 .. n + 1 : v[i] = v[j] => i = j
    <3>1. \A i, j \in 1 .. n : s[i] = s[j] => i = j
      BY <1>4 DEF RingOf
    <3> QED
      BY <1>5, <1>7, <1>8, <1>9, <3>1
  <2>2. ASSUME NEW i \in 1 .. n + 1 PROVE cdr'[v[i]] = IF i = n + 1 THEN readyq ELSE v[i + 1]
    <3>1. CASE i = 1
      BY <1>8, <1>9, <1>10, <3>1
    <3>2. CASE i = 2
      <4>1. cdr[readyq] = IF 1 = n THEN readyq ELSE s[2]
        BY <1>4, <1>9 DEF RingOf
      <4>2. n # 1 => v[3] = s[2]
        BY <1>8
      <4> QED
        BY <1>8, <1>10, <3>2, <4>1, <4>2
    <3>3. CASE i \in 3 .. n + 1
      <4>1. i - 1 \in 2 .. n /\ i - 1 \in 1 .. n /\ v[i] = s[i - 1]
        BY <1>8, <3>3
      <4>2. cdr[s[i - 1]] = IF i - 1 = n THEN readyq ELSE s[(i - 1) + 1]
        BY <1>4, <4>1 DEF RingOf
      <4>3. i # n + 1 => v[i + 1] = s[i]
        BY <1>8, <3>3
      <4> QED
        BY <1>10, <4>1, <4>2, <4>3
    <3> QED
      BY <1>7, <3>1, <3>2, <3>3
  <2> QED
    BY <1>1, <1>8, <1>9, <2>1, <2>2 DEF RingOf
<1>13. Waiting(n + 1, v)'
  <2>1. \A i \in 2 .. n + 1 : i = 2 \/ (i \in 3 .. n + 1 /\ i - 1 \in 2 .. n /\ i - 1 \in 1 .. n)
    OBVIOUS
  <2>2. /\ \A i \in 2 .. n : car[s[i]] \in Thread \ ({running} \cup ended)
        /\ \A i, j \in 2 .. n : car[s[i]] = car[s[j]] => i = j
    BY <1>4 DEF Waiting
  <2>3. car'[v[2]] = running /\ \A i \in 3 .. n + 1 : car'[v[i]] = car[s[i - 1]]
    BY <1>8, <1>10, <2>1
  <2>4. \A i \in 2 .. n + 1 : car'[v[i]] \in Thread \ ({running'} \cup ended')
    BY <1>1, <1>2, <1>6, <2>1, <2>2, <2>3
  <2>5. \A i, j \in 2 .. n + 1 : car'[v[i]] = car'[v[j]] => i = j
    BY <2>1, <2>2, <2>3
  <2>6. running' # Main
    BY <1>6, PairFacts
  <2> QED
    BY <1>1, <1>10, <2>4, <2>5, <2>6 DEF Waiting
<1>14. IInv' /\ Reads(n + 1, v)'
  BY <1>1, <1>2, <1>6, <1>7, <1>11, <1>12, <1>13, NewRing
<1>15. Ready' = <<running>> \o Ready
  <2>1. /\ Ready \in Seq(Thread \cup {False}) /\ Len(Ready) = n - 1
        /\ \A i \in 1 .. n - 1 : Ready[i] = car[s[i + 1]]
    BY <1>4 DEF Reads
  <2>2. /\ Ready' \in Seq(Thread \cup {False}) /\ Len(Ready') = n
        /\ \A i \in 1 .. n : Ready'[i] = car'[v[i + 1]]
    BY <1>14 DEF Reads
  <2>3. <<running>> \o Ready \in Seq(Thread \cup {False}) /\ Len(<<running>> \o Ready) = n
    BY <1>2, <2>1
  <2>4. ASSUME NEW i \in 1 .. n PROVE Ready'[i] = (<<running>> \o Ready)[i]
    <3>1. CASE i = 1
      BY <1>8, <1>10, <2>1, <2>2, <3>1
    <3>2. CASE i # 1
      <4>1. i - 1 \in 1 .. n - 1 /\ i + 1 \in 3 .. n + 1 /\ i \in 2 .. n
        BY <3>2
      <4>2. (<<running>> \o Ready)[i] = Ready[i - 1]
        BY <2>1, <4>1
      <4>3. Ready'[i] = car[s[i]]
        BY <1>8, <1>10, <2>2, <4>1
      <4> QED
        BY <2>1, <4>1, <4>2, <4>3
    <3> QED
      BY <3>1, <3>2
  <2> QED
    BY <2>2, <2>3, <2>4, SameSequence
<1>16. Queue!New(running')
  <2>1. \A i \in 1 .. n - 1 : i + 1 \in 1 .. n
    OBVIOUS
  <2>2. DOMAIN Ready = 1 .. n - 1 /\ \A i \in 1 .. n - 1 : Ready[i] = car[s[i + 1]]
    BY <1>4 DEF Reads
  <2> QED
    BY <1>6, <2>1, <2>2 DEF Queue!New
<1> QED
  BY <1>1, <1>6, <1>14, <1>15, <1>16 DEF Queue!Spawn

LEMMA YieldKeeps == IInv /\ Yield => IInv' /\ Queue!Yield
<1> SUFFICES ASSUME IInv, Yield PROVE IInv' /\ Queue!Yield
  OBVIOUS
<1>1. /\ running # Main /\ readyq' = cdr[readyq]
      /\ running' = IF readyq' = readyq THEN running ELSE car[readyq']
      /\ car' = [car EXCEPT ![readyq] = running, ![readyq'] = False]
      /\ cdr' = cdr /\ ended' = ended
  BY DEF Yield
<1>2. TypeOK /\ running \notin ended /\ readyq # False /\ running \in Thread
  BY <1>1 DEF IInv, TypeOK
<1>3. PICK n \in Nat \ {0} :
        \E s \in [1 .. n -> Pair] : RingOf(n, s) /\ Waiting(n, s) /\ Reads(n, s)
  BY <1>2, ThereIsARing
<1>4. PICK s \in [1 .. n -> Pair] : RingOf(n, s) /\ Waiting(n, s) /\ Reads(n, s)
  BY <1>3
<1>5. \A i \in 1 .. n : i = n \/ (i \in 1 .. n - 1 /\ i + 1 \in 2 .. n /\ i + 1 \in 1 .. n)
  OBVIOUS
\* The ring is turned by one.
<1>6. PICK v \in [1 .. n -> Pair] : v[n] = s[1] /\ \A i \in 1 .. n - 1 : v[i] = s[i + 1]
  <2> DEFINE f == [i \in 1 .. n |-> IF i = n THEN s[1] ELSE s[i + 1]]
  <2>1. f \in [1 .. n -> Pair]
    BY <1>5
  <2>2. f[n] = s[1] /\ \A i \in 1 .. n - 1 : f[i] = s[i + 1]
    OBVIOUS
  <2> QED
    BY <2>1, <2>2
<1>7. /\ s[1] = readyq /\ readyq \in Pair /\ \A i \in 2 .. n : s[i] # readyq
      /\ \A i, j \in 1 .. n : s[i] = s[j] => i = j
  BY <1>4 DEF RingOf
<1>8. readyq' = v[1] /\ readyq' \in Pair
  <2>1. cdr[readyq] = IF 1 = n THEN readyq ELSE s[2]
    BY <1>4, <1>7 DEF RingOf
  <2>2. n # 1 => v[1] = s[2]
    BY <1>6
  <2>3. n = 1 => v[1] = s[1]
    BY <1>6
  <2>4. v[1] \in Pair
    BY <1>6
  <2> QED
    BY <1>1, <1>7, <2>1, <2>2, <2>3, <2>4
<1>9. /\ n = 1 => readyq' = readyq /\ running' = running
      /\ n # 1 => /\ readyq' = s[2] /\ readyq' # readyq /\ running' = car[s[2]]
                  /\ car'[readyq] = running
      /\ car'[readyq'] = False
      /\ \A i \in 3 .. n : car'[s[i]] = car[s[i]]
  <2>1. car \in [Pair -> Thread \cup {False}]
    BY <1>2 DEF TypeOK
  <2>2. n = 1 => v[1] = s[1]
    BY <1>6
  <2>3. n # 1 => v[1] = s[2] /\ 2 \in 2 .. n
    BY <1>6
  <2>4. \A i \in 3 .. n : i \in 2 .. n /\ i \in 1 .. n /\ i # 2 /\ 2 \in 1 .. n /\ n # 1
    OBVIOUS
  <2>5. \A i \in 3 .. n : s[i] \in Pair /\ s[i] # readyq /\ s[i] # readyq'
    BY <1>7, <1>8, <2>3, <2>4
  <2> QED
    BY <1>1, <1>7, <1>8, <2>1, <2>2, <2>3, <2>5
<1>10. running' \in Thread /\ running' \notin ended
  BY <1>2, <1>4, <1>9 DEF Waiting
<1>11. TypeOK'
  BY <1>1, <1>2, <1>7, <1>8, <1>10 DEF TypeOK
<1>12. RingOf(n, v)'
  <2>1. \A i, j \in 1 .. n : v[i] = v[j] => i = j
    BY <1>5, <1>6, <1>7
  <2>2. ASSUME NEW i \in 1 .. n PROVE cdr'[v[i]] = IF i = n THEN readyq' ELSE v[i + 1]
    <3>1. CASE i = n
      BY <1>1, <1>6, <1>7, <3>1
    <3>2. CASE i # n
      <4>1. i \in 1 .. n - 1 /\ i + 1 \in 1 .. n /\ v[i] = s[i + 1]
        BY <1>6, <3>2
      <4>2. cdr[s[i + 1]] = IF i + 1 = n THEN readyq ELSE s[(i + 1) + 1]
        BY <1>4, <4>1 DEF RingOf
      <4>3. v[i + 1] = IF i + 1 = n THEN readyq ELSE s[(i + 1) + 1]
        BY <1>6, <1>7, <3>2
      <4> QED
        BY <1>1, <3>2, <4>1, <4>2, <4>3
    <3> QED
      BY <3>1, <3>2
  <2> QED
    BY <1>8, <2>1, <2>2 DEF RingOf
<1>13. \A i \in 2 .. n : car'[v[i]] = IF i = n THEN running ELSE car[s[i + 1]]
  <2>1. \A i \in 2 .. n : n # 1 /\ (i # n => i \in 1 .. n - 1 /\ i + 1 \in 3 .. n)
    OBVIOUS
  <2> QED
    BY <1>6, <1>7, <1>9, <2>1
<1>14. Waiting(n, v)'
  <2>1. /\ \A i \in 2 .. n : car[s[i]] \in Thread \ ({running} \cup ended)
        /\ \A i, j \in 2 .. n : car[s[i]] = car[s[j]] => i = j
    BY <1>4 DEF Waiting
  <2>2. \A i \in 2 .. n : n # 1 /\ 2 \in 2 .. n /\ (i # n => i + 1 \in 2 .. n /\ i + 1 # 2)
    OBVIOUS
  <2>3. ASSUME NEW i \in 2 .. n PROVE car'[v[i]] \in Thread \ ({running'} \cup ended')
    <3>1. CASE i = n
      <4>1. car'[v[i]] = running /\ running' = car[s[2]]
        BY <1>9, <1>13, <2>2, <3>1
      <4>2. car[s[2]] # running
        BY <2>1, <2>2
      <4> QED
        BY <1>1, <1>2, <4>1, <4>2
    <3>2. CASE i # n
      <4>1. car'[v[i]] = car[s[i + 1]] /\ running' = car[s[2]]
        BY <1>9, <1>13, <2>2, <3>2
      <4>2. car[s[i + 1]] \in Thread \ ended /\ car[s[i + 1]] # car[s[2]]
        BY <2>1, <2>2, <3>2
      <4> QED
        BY <1>1, <4>1, <4>2
    <3> QED
      BY <3>1, <3>2
  <2>4. \A i, j \in 2 .. n : car'[v[i]] = car'[v[j]] => i = j
    BY <1>13, <2>1, <2>2
  <2>5. running' # Main
    BY <1>10, PairFacts
  <2> QED
    BY <1>9, <2>3, <2>4, <2>5 DEF Waiting
<1>15. IInv' /\ Reads(n, v)'
  BY <1>1, <1>8, <1>10, <1>11, <1>12, <1>14, PairFacts, NewRing
<1> DEFINE turns == Append(Ready, running)
<1>16. /\ Ready \in Seq(Thread \cup {False}) /\ Len(Ready) = n - 1
       /\ \A i \in 1 .. n - 1 : Ready[i] = car[s[i + 1]]
  BY <1>4 DEF Reads
<1>17. /\ turns \in Seq(Thread \cup {False}) /\ Len(turns) = n
       /\ \A i \in 1 .. n - 1 : turns[i] = car[s[i + 1]]
       /\ turns[n] = running
  BY <1>2, <1>16
<1> HIDE DEF turns
<1>18. running' = Head(turns)
  <2>1. Head(turns) = turns[1]
    BY <1>17
  <2>2. n # 1 => 1 \in 1 .. n - 1
    OBVIOUS
  <2> QED
    BY <1>9, <1>17, <2>1, <2>2
<1>19. Ready' = Tail(turns)
  <2>1. /\ Ready' \in Seq(Thread \cup {False}) /\ Len(Ready') = n - 1
        /\ \A i \in 1 .. n - 1 : Ready'[i] = car'[v[i + 1]]
    BY <1>15 DEF Reads
  <2>2. /\ Tail(turns) \in Seq(Thread \cup {False}) /\ Len(Tail(turns)) = n - 1
        /\ \A i \in 1 .. n - 1 : Tail(turns)[i] = turns[i + 1]
    BY <1>17
  <2>3. ASSUME NEW i \in 1 .. n - 1 PROVE Ready'[i] = Tail(turns)[i]
    <3>1. i + 1 \in 2 .. n /\ (i + 1 # n => i + 1 \in 1 .. n - 1)
      OBVIOUS
    <3> QED
      BY <1>13, <1>17, <2>1, <2>2, <3>1
  <2> QED
    BY <2>1, <2>2, <2>3, SameSequence
<1> QED
  BY <1>1, <1>15, <1>18, <1>19 DEF Queue!Yield, turns

LEMMA ExitKeeps == IInv /\ Exit => IInv' /\ Queue!Exit
<1> SUFFICES ASSUME IInv, Exit PROVE IInv' /\ Queue!Exit
  OBVIOUS
<1>1. /\ running # Main /\ ended' = ended \cup {running}
      /\ cdr[readyq] = readyq => running' = Main /\ cdr' = cdr
      /\ cdr[readyq] # readyq => /\ running' = car[cdr[readyq]]
                                 /\ cdr' = [cdr EXCEPT ![readyq] = cdr[cdr[readyq]]]
      /\ car' = car /\ readyq' = readyq
  BY DEF Exit
<1>2. TypeOK /\ running \notin ended /\ readyq # False /\ running \in Thread
  BY <1>1 DEF IInv, TypeOK
<1>3. PICK n \in Nat \ {0} :
        \E s \in [1 .. n -> Pair] : RingOf(n, s) /\ Waiting(n, s) /\ Reads(n, s)
  BY <1>2, ThereIsARing
<1>4. PICK s \in [1 .. n -> Pair] : RingOf(n, s) /\ Waiting(n, s) /\ Reads(n, s)
  BY <1>3
<1>5. /\ s[1] = readyq /\ readyq \in Pair /\ \A i \in 2 .. n : s[i] # readyq
      /\ \A i, j \in 1 .. n : s[i] = s[j] => i = j
      /\ cdr[readyq] = IF n = 1 THEN readyq ELSE s[2]
  BY <1>4 DEF RingOf
<1>6. /\ Ready \in Seq(Thread \cup {False}) /\ Len(Ready) = n - 1
      /\ \A i \in 1 .. n - 1 : Ready[i] = car[s[i + 1]]
  BY <1>4 DEF Reads
<1>7. CASE n = 1
  <2>1. running' = Main /\ cdr' = cdr
    BY <1>1, <1>5, <1>7
  <2>2. TypeOK'
    BY <1>1, <1>2, <2>1 DEF TypeOK
  <2>3. RingOf(n, s)'
    BY <1>1, <1>4, <2>1 DEF RingOf
  <2>4. Waiting(n, s)'
    <3>1. 2 .. n = {}
      BY <1>7
    <3> QED
      BY <1>1, <1>4, <1>7, <3>1 DEF Waiting
  <2>5. running' \notin ended'
    BY <1>1, <1>2, <2>1, PairFacts DEF TypeOK
  <2>6. IInv' /\ Reads(n, s)'
    BY <1>1, <1>2, <2>2, <2>3, <2>4, <2>5, NewRing
  <2>7. Ready = << >> /\ Ready' = << >>
    BY <1>6, <1>7, <2>6 DEF Reads
  <2> QED
    BY <1>1, <2>1, <2>6, <2>7 DEF Queue!Exit
<1>8. CASE n # 1
  <2>1. n - 1 \in Nat \ {0} /\ 2 \in 2 .. n /\ 2 \in 1 .. n
    BY <1>8
  <2>2. cdr[readyq] = s[2] /\ cdr[readyq] # readyq /\ running' = car[s[2]]
    BY <1>1, <1>5, <1>8, <2>1
  <2>3. cdr[s[2]] = IF n = 2 THEN readyq ELSE s[3]
    BY <1>4, <2>1 DEF RingOf
  <2>4. /\ cdr'[readyq] = cdr[s[2]]
        /\ \A i \in 3 .. n : cdr'[s[i]] = cdr[s[i]]
    <3>1. cdr \in [Pair -> Pair \cup {False}] /\ cdr' = [cdr EXCEPT ![readyq] = cdr[s[2]]]
      BY <1>1, <1>2, <2>2 DEF TypeOK
    <3>2. \A i \in 3 .. n : i \in 2 .. n /\ i \in 1 .. n
      OBVIOUS
    <3>3. \A i \in 3 .. n : s[i] \in Pair /\ s[i] # readyq
      BY <1>5, <3>2
    <3> QED
      BY <1>5, <3>1, <3>3
  \* The pair of the next thread is left out of the ring.
  <2>5. PICK v \in [1 .. n - 1 -> Pair] :
          v[1] = s[1] /\ \A i \in 2 .. n - 1 : v[i] = s[i + 1]
    <3> DEFINE f == [i \in 1 .. n - 1 |-> IF i = 1 THEN s[1] ELSE s[i + 1]]
    <3>1. \A i \in 1 .. n - 1 : i \in 1 .. n /\ i + 1 \in 1 .. n
      OBVIOUS
    <3>2. f \in [1 .. n - 1 -> Pair]
      BY <2>1, <3>1
    <3>3. f[1] = s[1] /\ \A i \in 2 .. n - 1 : f[i] = s[i + 1]
      BY <2>1
    <3> QED
      BY <3>2, <3>3
  <2>6. \A i \in 1 .. n - 1 : i = 1 \/ (i \in 2 .. n - 1 /\ i + 1 \in 3 .. n /\ i + 1 \in 1 .. n)
    OBVIOUS
  <2>7. running' \in Thread /\ running' \notin ended /\ running' # running
    BY <1>4, <2>1, <2>2 DEF Waiting
  <2>8. TypeOK'
    <3>1. cdr[s[2]] \in Pair \cup {False}
      BY <1>2, <2>1 DEF TypeOK
    <3> QED
      BY <1>1, <1>2, <1>5, <2>2, <2>7, <3>1 DEF TypeOK
  <2>9. RingOf(n - 1, v)'
    <3>1. \A i, j \in 1 .. n - 1 : v[i] = v[j] => i = j
      BY <1>5, <2>1, <2>5, <2>6
    <3>2. ASSUME NEW i \in 1 .. n - 1 PROVE cdr'[v[i]] = IF i = n - 1 THEN readyq ELSE v[i + 1]
      <4>1. CASE i = 1
        <5>1. n # 2 => v[2] = s[3]
          BY <1>8, <2>5
        <5> QED
          BY <1>5, <2>3, <2>4, <2>5, <4>1, <5>1
      <4>2. CASE i \in 2 .. n - 1
        <5>1. i + 1 \in 3 .. n /\ i + 1 \in 1 .. n /\ v[i] = s[i + 1]
          BY <2>5, <4>2
        <5>2. cdr[s[i + 1]] = IF i + 1 = n THEN readyq ELSE s[(i + 1) + 1]
          BY <1>4, <5>1 DEF RingOf
        <5>3. i # n - 1 => v[i + 1] = s[(i + 1) + 1]
          BY <2>5, <4>2
        <5> QED
          BY <2>4, <5>1, <5>2, <5>3
      <4> QED
        BY <2>6, <4>1, <4>2
    <3> QED
      BY <1>1, <1>5, <2>5, <3>1, <3>2 DEF RingOf
  <2>10. Waiting(n - 1, v)'
    <3>1. /\ car[readyq] = False
          /\ \A i \in 2 .. n : car[s[i]] \in Thread \ ({running} \cup ended)
          /\ \A i, j \in 2 .. n : car[s[i]] = car[s[j]] => i = j
      BY <1>4 DEF Waiting
    <3>2. \A i \in 2 .. n - 1 : i + 1 \in 2 .. n /\ i + 1 # 2 /\ v[i] = s[i + 1]
      BY <2>5
    <3>3. \A i \in 2 .. n - 1 : car'[v[i]] \in Thread \ ({running'} \cup ended')
      BY <1>1, <2>1, <2>2, <3>1, <3>2
    <3>4. \A i, j \in 2 .. n - 1 : car'[v[i]] = car'[v[j]] => i = j
      BY <1>1, <3>1, <3>2
    <3>5. running' # Main
      BY <2>7, PairFacts
    <3> QED
      BY <1>1, <3>1, <3>3, <3>4, <3>5 DEF Waiting
  <2>11. IInv' /\ Reads(n - 1, v)'
    BY <1>1, <1>2, <2>1, <2>7, <2>8, <2>9, <2>10, NewRing
  <2>12. running' = Head(Ready) /\ Ready # << >>
    <3>1. Ready # << >> /\ Head(Ready) = Ready[1] /\ 1 \in 1 .. n - 1
      BY <1>6, <2>1
    <3> QED
      BY <1>6, <2>2, <3>1
  <2>13. Ready' = Tail(Ready)
    <3>1. /\ Ready' \in Seq(Thread \cup {False}) /\ Len(Ready') = (n - 1) - 1
          /\ \A i \in 1 .. (n - 1) - 1 : Ready'[i] = car'[v[i + 1]]
      BY <2>11 DEF Reads
    <3>2. /\ Tail(Ready) \in Seq(Thread \cup {False}) /\ Len(Tail(Ready)) = (n - 1) - 1
          /\ \A i \in 1 .. (n - 1) - 1 : Tail(Ready)[i] = Ready[i + 1]
      BY <1>6, <2>1
    <3>3. ASSUME NEW i \in 1 .. (n - 1) - 1 PROVE Ready'[i] = Tail(Ready)[i]
      <4>1. i + 1 \in 2 .. n - 1 /\ i + 1 \in 1 .. n - 1
        OBVIOUS
      <4>2. Ready'[i] = car[s[(i + 1) + 1]]
        BY <1>1, <2>5, <3>1, <4>1
      <4>3. Tail(Ready)[i] = car[s[(i + 1) + 1]]
        BY <1>6, <3>2, <4>1
      <4> QED
        BY <4>2, <4>3
    <3> QED
      BY <3>1, <3>2, <3>3, SameSequence
  <2> QED
    BY <1>1, <2>11, <2>12, <2>13 DEF Queue!Exit
<1> QED
  BY <1>7, <1>8

-----------------------------------------------------------------------------
(* The invariant holds, and what follows from it.                          *)

LEMMA InitKeeps == Init => IInv /\ Queue!Init
<1> SUFFICES ASSUME Init PROVE IInv /\ Queue!Init
  OBVIOUS
<1>1. TypeOK
  BY DEF Init, TypeOK
<1>2. Ready = << >>
  BY DEF Init, Ready
<1> QED
  BY <1>1, <1>2 DEF Init, IInv, Queue!Init

LEMMA StutterKeeps == IInv /\ UNCHANGED vars => IInv' /\ UNCHANGED Queue!vars
<1> SUFFICES ASSUME IInv, UNCHANGED vars PROVE IInv' /\ UNCHANGED Queue!vars
  OBVIOUS
<1>1. car' = car /\ cdr' = cdr /\ readyq' = readyq /\ running' = running /\ ended' = ended
  BY DEF vars
<1>2. TypeOK' = TypeOK
  BY <1>1 DEF TypeOK
<1>3. \A n, s : RingOf(n, s)' = RingOf(n, s) /\ Waiting(n, s)' = Waiting(n, s)
  BY <1>1 DEF RingOf, Waiting
<1>4. RingInv' = RingInv
  BY <1>3 DEF RingInv
<1>5. Ready' = Ready
  BY <1>1 DEF Ready, RingSize, Behind
<1> QED
  BY <1>1, <1>2, <1>4, <1>5 DEF IInv, Queue!vars

LEMMA NextKeeps == IInv /\ [Next]_vars => IInv' /\ [Queue!Next]_(Queue!vars)
  BY StartKeeps, SpawnKeeps, YieldKeeps, ExitKeeps, StutterKeeps DEF Next, Queue!Next

LEMMA IInvHolds == Spec => []IInv
  BY InitKeeps, NextKeeps, PTL DEF Spec

\* What runs is a thread or the main program, never the #f that marks the pair
\* of the running thread.
THEOREM ThreadsTypeOK == Spec => []TypeOK
<1>1. IInv => TypeOK
  BY DEF IInv
<1> QED
  BY <1>1, IInvHolds, PTL

(***************************************************************************)
(* No continuation is handed out twice, however many threads are started   *)
(* and end.  This is what the virtual machine needs of library.scm: it can *)
(* resume a continuation once only.                                        *)
(***************************************************************************)
THEOREM ThreadsResumedOnce == Spec => []ResumedOnce
<1>1. ASSUME IInv, readyq # False PROVE ResumedOnce
  <2>1. PICK n \in Nat \ {0} :
          \E s \in [1 .. n -> Pair] : /\ RingOf(n, s) /\ Waiting(n, s)
                                     /\ Ring = {s[i] : i \in 1 .. n}
    BY <1>1, ThereIsARing
  <2>2. PICK s \in [1 .. n -> Pair] :
          RingOf(n, s) /\ Waiting(n, s) /\ Ring = {s[i] : i \in 1 .. n}
    BY <2>1
  <2>3. \A i \in 1 .. n : i = 1 \/ i \in 2 .. n
    OBVIOUS
  <2>4. running # False /\ False \notin ended
    BY <1>1, PairFacts DEF IInv, TypeOK
  <2>5. car[s[1]] = False
    BY <2>2 DEF RingOf, Waiting
  <2>6. \A i \in 1 .. n : car[s[i]] # running /\ car[s[i]] \notin ended
    BY <2>2, <2>3, <2>4, <2>5 DEF Waiting
  <2>7. \A i, j \in 1 .. n : car[s[i]] = car[s[j]] /\ car[s[i]] # False => i = j
    BY <2>2, <2>3, <2>5 DEF Waiting
  <2>8. running = Main => \A i \in 1 .. n : car[s[i]] = False
    BY <2>2, <2>5 DEF Waiting
  <2> QED
    BY <2>2, <2>6, <2>7, <2>8 DEF ResumedOnce
<1>2. ASSUME readyq = False PROVE ResumedOnce
  BY <1>2 DEF ResumedOnce, Ring
<1>3. IInv => ResumedOnce
  BY <1>1, <1>2
<1> QED
  BY <1>3, IInvHolds, PTL

(***************************************************************************)
(* The circular list behaves as a queue of threads: the one that yields    *)
(* goes to its end, the one that ends leaves its place to the next, and    *)
(* control returns to the program when the queue is empty.                 *)
(***************************************************************************)
THEOREM ThreadsInTurn == Spec => InTurn
  BY InitKeeps, NextKeeps, IInvHolds, PTL DEF Spec, InTurn, Queue!Spec

=============================================================================
