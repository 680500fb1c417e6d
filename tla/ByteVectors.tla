---------------------------- MODULE ByteVectors ----------------------------
(***************************************************************************)
(* What a program relies on when it uses byte vectors: a vector keeps its  *)
(* bytes until the program changes them, whatever else is allocated,       *)
(* collected or compacted.  The bytes of a new vector are arbitrary        *)
(* (new_vector in src/main/vm_arch.c does not clear them).                 *)
(***************************************************************************)
EXTENDS Naturals

CONSTANTS Vector, Length, Byte

VARIABLE contents   \* the vectors of the program, each a function of the index

Init == contents = [v \in {} |-> << >>]

KeepsAllBut(S) == \A v \in DOMAIN contents \ S : contents'[v] = contents[v]

Make(v, l) ==
  /\ v \notin DOMAIN contents
  /\ DOMAIN contents' = DOMAIN contents \cup {v}
  /\ contents'[v] = [i \in 0 .. l-1 |-> contents'[v][i]]
  /\ KeepsAllBut({})

SetByte(v, i, b) ==
  /\ i \in DOMAIN contents[v]
  /\ contents' = [contents EXCEPT ![v][i] = b]

Forget(v) == contents' = [w \in DOMAIN contents \ {v} |-> contents[w]]

Next ==
  \/ \E v \in Vector, l \in Length : Make(v, l)
  \/ \E v \in DOMAIN contents :
       \/ Forget(v)
       \/ \E i \in DOMAIN contents[v], b \in Byte : SetByte(v, i, b)

Spec == Init /\ [][Next]_contents

=============================================================================
