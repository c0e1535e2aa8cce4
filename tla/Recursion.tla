------------------------------ MODULE Recursion ------------------------------
(* Facts about functions defined by recursion, for the proofs of the modules
   that use them.  The theorems of the library say the same of operators.  *)
EXTENDS Integers, TLAPS, WellFoundedInduction

(* A set of natural numbers has a least element. *)
LEMMA Least ==
  ASSUME NEW A \in SUBSET Nat, A # {}
  PROVE  \E x \in A : \A y \in A : x <= y
<1>1. PICK x \in A : \A y \in A : ~(<<y, x>> \in OpToRel(<, Nat))
  BY NatLessThanWellFounded, WFMin, Zenon
<1>2. \A y \in A : ~(y < x)
  BY <1>1 DEF OpToRel
<1>3. QED
  BY <1>2

(* step gives what a definition says of a function, from a function that may
   differ from it where the definition does not look: at arguments that are
   not below the one in hand.                                              *)
LooksBelow(D, R, rank, step) ==
  \A g \in [D -> R], h \in [D -> R], d \in D :
    (\A e \in D : rank[e] < rank[d] => g[e] = h[e]) => step[g][d] = step[h][d]

(* The definition of a function from D to R, start being any of them. *)
Recursive(D, R, rank, step, start, N) ==
  /\ rank \in [D -> Nat] /\ step \in [[D -> R] -> [D -> R]]
  /\ start \in [D -> R] /\ LooksBelow(D, R, rank, step)
  /\ N \in Nat /\ \A d \in D : rank[d] < N

(* f is what the definition says as far as n. *)
Agrees(D, rank, step, f, n) == \A d \in D : rank[d] < n => f[d] = step[f][d]

(* There is a function of which the definition is true. *)
LEMMA Recursion ==
  ASSUME NEW D, NEW R, NEW rank, NEW step, NEW start, NEW N,
         Recursive(D, R, rank, step, start, N)
  PROVE  \E f \in [D -> R] : f = step[f]
<1>0. /\ rank \in [D -> Nat] /\ step \in [[D -> R] -> [D -> R]]
      /\ start \in [D -> R] /\ LooksBelow(D, R, rank, step)
      /\ N \in Nat /\ \A d \in D : rank[d] < N
  BY DEF Recursive
<1> DEFINE Bad == {n \in Nat : ~ \E f \in [D -> R] : Agrees(D, rank, step, f, n)}
<1>1. Bad = {}
  <2>1. SUFFICES ASSUME Bad # {} PROVE FALSE
    OBVIOUS
  <2>2. PICK n \in Bad : \A y \in Bad : n <= y
    <3>1. Bad \in SUBSET Nat
      OBVIOUS
    <3> HIDE DEF Bad
    <3>2. QED
      BY <2>1, <3>1, Least
  <2>3. n \in Nat /\ ~ \E f \in [D -> R] : Agrees(D, rank, step, f, n)
    BY <2>2
  <2>4. n # 0
    <3>1. Agrees(D, rank, step, start, 0)
      BY <1>0 DEF Agrees
    <3>2. QED
      BY <1>0, <2>3, <3>1
  <2>5. PICK f \in [D -> R] : Agrees(D, rank, step, f, n - 1)
    <3>1. n - 1 \in Nat /\ ~(n <= n - 1)
      BY <2>3, <2>4
    <3>2. n - 1 \notin Bad
      <4> HIDE DEF Bad
      <4>1. QED
        BY <2>2, <3>1
    <3>3. QED
      BY <3>1, <3>2
  <2>6. step[f] \in [D -> R]
    BY <1>0
  <2>7. ASSUME NEW d \in D, rank[d] < n
        PROVE  step[f][d] = step[step[f]][d]
    <3>1. \A e \in D : rank[e] < rank[d] => f[e] = step[f][e]
      <4>1. \A e \in D : rank[e] < rank[d] => rank[e] < n - 1
        BY <1>0, <2>3, <2>7
      <4>2. QED
        BY <2>5, <4>1 DEF Agrees
    <3>2. QED
      BY <1>0, <2>6, <3>1 DEF LooksBelow
  <2>8. Agrees(D, rank, step, step[f], n)
    BY <2>7 DEF Agrees
  <2>9. QED
    BY <2>3, <2>6, <2>8
<1>2. PICK f \in [D -> R] : Agrees(D, rank, step, f, N)
  BY <1>0, <1>1
<1>3. \A d \in D : f[d] = step[f][d]
  BY <1>0, <1>2 DEF Agrees
<1>4. step[f] \in [D -> R]
  BY <1>0
<1>5. f = step[f]
  BY <1>3, <1>4
<1>6. QED
  BY <1>5

(* Induction on the numbers up to N; P are those of which something holds. *)
LEMMA UpTo ==
  ASSUME NEW N \in Nat, NEW P, 0 \in P, \A i \in 1 .. N : i - 1 \in P => i \in P
  PROVE  \A i \in 0 .. N : i \in P
<1> DEFINE Bad == {i \in 0 .. N : i \notin P}
<1>1. SUFFICES ASSUME Bad # {} PROVE FALSE
  OBVIOUS
<1>2. PICK n \in Bad : \A y \in Bad : n <= y
  <2>1. Bad \in SUBSET Nat
    OBVIOUS
  <2> HIDE DEF Bad
  <2>2. QED
    BY <1>1, <2>1, Least
<1>3. n \in 0 .. N /\ n \notin P /\ n # 0
  BY <1>2
<1>4. n - 1 \in 0 .. N /\ n \in 1 .. N /\ ~(n <= n - 1)
  BY <1>3
<1>5. n - 1 \notin Bad
  <2> HIDE DEF Bad
  <2>1. QED
    BY <1>2, <1>4
<1>6. QED
  BY <1>3, <1>4, <1>5

(* f is start at 0, and is made at each number from what it is at the number
   before, all of it in R.                                                 *)
Advances(R, N, next) == next \in [R \X (1 .. N) -> R]
Staged(f, R, N, start, next) ==
  /\ f \in [0 .. N -> R]
  /\ f = [i \in 0 .. N |-> IF i = 0 THEN start ELSE next[<<f[i - 1], i>>]]

(* There is such a function. *)
LEMMA InSteps ==
  ASSUME NEW R, NEW N \in Nat, NEW start \in R, NEW next, Advances(R, N, next)
  PROVE  \E f : Staged(f, R, N, start, next)
<1>0. next \in [R \X (1 .. N) -> R]
  BY DEF Advances
<1> DEFINE D == 0 .. N
           rank == [i \in D |-> i]
           body(g, i) == IF i = 0 THEN start ELSE next[<<g[i - 1], i>>]
           step == [g \in [D -> R] |-> [i \in D |-> body(g, i)]]
           first == [i \in D |-> start]
<1>1. \A g \in [D -> R], i \in D : body(g, i) \in R
  <2> TAKE g \in [D -> R], i \in D
  <2>1. CASE i = 0
    BY <2>1
  <2>2. CASE i # 0
    <3>1. i - 1 \in D /\ i \in 1 .. N
      BY <2>2
    <3>2. <<g[i - 1], i>> \in R \X (1 .. N)
      BY <3>1
    <3>3. next[<<g[i - 1], i>>] \in R
      BY <1>0, <3>2
    <3>4. QED
      BY <2>2, <3>3
  <2>3. QED
    BY <2>1, <2>2
<1>2. step \in [[D -> R] -> [D -> R]] /\ first \in [D -> R]
  <2> HIDE DEF body
  <2>1. QED
    BY <1>1
<1>3. rank \in [D -> Nat] /\ N + 1 \in Nat /\ \A i \in D : rank[i] < N + 1
  OBVIOUS
<1>4. LooksBelow(D, R, rank, step)
  <2>1. SUFFICES ASSUME NEW g \in [D -> R], NEW h \in [D -> R], NEW i \in D,
                        \A j \in D : rank[j] < rank[i] => g[j] = h[j]
                 PROVE  step[g][i] = step[h][i]
    BY DEF LooksBelow
  <2>2. i # 0 => g[i - 1] = h[i - 1]
    BY <2>1
  <2>3. body(g, i) = body(h, i)
    BY <2>2
  <2>4. step[g][i] = body(g, i) /\ step[h][i] = body(h, i)
    OBVIOUS
  <2>5. QED
    BY <2>3, <2>4
<1>5. PICK f \in [D -> R] : f = step[f]
  <2>1. Recursive(D, R, rank, step, first, N + 1)
    <3> HIDE DEF step, rank, D, first
    <3>1. QED
      BY <1>2, <1>3, <1>4 DEF Recursive
  <2> HIDE DEF step, rank, D, first
  <2>2. QED
    BY <2>1, Recursion
<1>6. QED
  BY <1>5 DEF Staged
=============================================================================
