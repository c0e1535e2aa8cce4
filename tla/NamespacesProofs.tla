-------------------------- MODULE NamespacesProofs ---------------------------
(* Proofs about namespaces: the pairs of a hashmap are always where its keys
   are looked for, and hash chains, copying and lists of local bindings behave
   as functions and nested scopes; for all names, hashes and sizes of maps.  *)
EXTENDS Namespaces, Recursion

USE NamesAssumption

-----------------------------------------------------------------------------
(* Least and greatest numbers, and what a sequence has.                    *)

LEMMA MinFacts ==
  ASSUME NEW A \in SUBSET Nat, A # {}
  PROVE  Min(A) \in A /\ \A x \in A : Min(A) <= x
BY Least DEF Min

LEMMA MaxFacts ==
  ASSUME NEW N \in Nat, NEW A \in SUBSET (0 .. N), A # {}
  PROVE  Max(A) \in A /\ \A x \in A : Max(A) >= x
<1> DEFINE Below == {N - x : x \in A}
<1>1. PICK y \in Below : \A z \in Below : y <= z
  <2>1. Below \in SUBSET Nat /\ Below # {}
    <3>1. \A x \in A : N - x \in Nat
      OBVIOUS
    <3>2. QED
      BY <3>1
  <2> HIDE DEF Below
  <2>2. QED
    BY <2>1, Least
<1>2. PICK x \in A : y = N - x
  OBVIOUS
<1>3. \A z \in A : x >= z
  <2> TAKE z \in A
  <2>1. N - x <= N - z
    BY <1>1, <1>2
  <2>2. QED
    BY <2>1
<1>4. QED
  BY <1>3 DEF Max

Items(s) == {s[i] : i \in DOMAIN s}

LEMMA ItemsOfJoined ==
  ASSUME NEW S, NEW s \in Seq(S), NEW t \in Seq(S)
  PROVE  s \o t \in Seq(S) /\ Items(s \o t) = Items(s) \cup Items(t)
<1> DEFINE all == s \o t
<1>1. /\ all \in Seq(S) /\ Len(all) = Len(s) + Len(t)
      /\ \A i \in 1 .. Len(s) : all[i] = s[i]
      /\ \A i \in 1 .. Len(t) : all[Len(s) + i] = t[i]
  OBVIOUS
<1> HIDE DEF all
<1>2. ASSUME NEW i \in DOMAIN all
      PROVE  all[i] \in Items(s) \cup Items(t)
  <2>1. CASE i \in 1 .. Len(s)
    BY <1>1, <2>1 DEF Items
  <2>2. CASE i \notin 1 .. Len(s)
    <3>1. i - Len(s) \in 1 .. Len(t) /\ Len(s) + (i - Len(s)) = i
      BY <1>1, <2>2
    <3>2. all[i] = t[i - Len(s)]
      BY <1>1, <3>1
    <3>3. QED
      BY <3>1, <3>2 DEF Items
  <2>3. QED
    BY <2>1, <2>2
<1>3. ASSUME NEW i \in DOMAIN s
      PROVE  s[i] \in Items(all)
  <2>1. i \in DOMAIN all /\ all[i] = s[i]
    BY <1>1
  <2>2. QED
    BY <2>1 DEF Items
<1>4. ASSUME NEW i \in DOMAIN t
      PROVE  t[i] \in Items(all)
  <2>1. Len(s) + i \in DOMAIN all /\ all[Len(s) + i] = t[i]
    <3>1. i \in 1 .. Len(t) /\ Len(s) \in Nat /\ Len(t) \in Nat
      OBVIOUS
    <3>2. QED
      BY <1>1, <3>1
  <2>2. QED
    BY <2>1 DEF Items
<1>5. Items(all) = Items(s) \cup Items(t)
  BY <1>2, <1>3, <1>4 DEF Items
<1>6. QED
  BY <1>1, <1>5 DEF all

Flatten(seqs) ==
  CHOOSE flatten : flatten = [i \in 1 .. Len(seqs) |->
                                IF i = 1 THEN seqs[i] ELSE flatten[i - 1] \o seqs[i]]

LEMMA FlattenItems ==
  ASSUME NEW S, NEW seqs \in Seq(Seq(S))
  PROVE  /\ FlattenSeq(seqs) \in Seq(S)
         /\ \A x : x \in Items(FlattenSeq(seqs)) <=> \E i \in DOMAIN seqs : x \in Items(seqs[i])
<1> DEFINE N == Len(seqs)
           D == 1 .. N
           R == Seq(S)
           rank == [i \in D |-> i]
           body(g, i) == IF i = 1 THEN seqs[i] ELSE g[i - 1] \o seqs[i]
           step == [g \in [D -> R] |-> [i \in D |-> body(g, i)]]
           first == [i \in D |-> <<>>]
<1>1. \A g \in [D -> R], i \in D : body(g, i) \in R
  <2> TAKE g \in [D -> R], i \in D
  <2>1. CASE i = 1
    BY <2>1
  <2>2. CASE i # 1
    <3>1. i - 1 \in D
      BY <2>2
    <3>2. g[i - 1] \in R /\ seqs[i] \in R
      BY <3>1
    <3>3. QED
      BY <2>2, <3>2
  <2>3. QED
    BY <2>1, <2>2
<1>2. step \in [[D -> R] -> [D -> R]] /\ first \in [D -> R]
  <2>1. <<>> \in R
    OBVIOUS
  <2> HIDE DEF body, R, D
  <2>2. QED
    BY <1>1, <2>1
<1>3. rank \in [D -> Nat] /\ N + 1 \in Nat /\ \A i \in D : rank[i] < N + 1
  OBVIOUS
<1>4. LooksBelow(D, R, rank, step)
  <2>1. SUFFICES ASSUME NEW g \in [D -> R], NEW h \in [D -> R], NEW i \in D,
                        \A j \in D : rank[j] < rank[i] => g[j] = h[j]
                 PROVE  step[g][i] = step[h][i]
    BY DEF LooksBelow
  <2>2. i # 1 => g[i - 1] = h[i - 1]
    BY <2>1
  <2>3. body(g, i) = body(h, i)
    BY <2>2
  <2>4. step[g][i] = body(g, i) /\ step[h][i] = body(h, i)
    OBVIOUS
  <2>5. QED
    BY <2>3, <2>4
<1>5. PICK f \in [D -> R] : f = step[f]
  <2>1. Recursive(D, R, rank, step, first, N + 1)
    <3> HIDE DEF step, rank, D, first, R
    <3>1. QED
      BY <1>2, <1>3, <1>4 DEF Recursive
  <2> HIDE DEF step, rank, D, first, R
  <2>2. QED
    BY <2>1, Recursion
<1>6. f = [i \in 1 .. Len(seqs) |-> IF i = 1 THEN seqs[i] ELSE f[i - 1] \o seqs[i]]
  BY <1>5
<1>7. Flatten(seqs) = [i \in 1 .. Len(seqs) |->
                         IF i = 1 THEN seqs[i] ELSE Flatten(seqs)[i - 1] \o seqs[i]]
  BY <1>6 DEF Flatten
<1> DEFINE F == Flatten(seqs)
<1>8. F = [i \in 1 .. N |-> IF i = 1 THEN seqs[i] ELSE F[i - 1] \o seqs[i]]
  BY <1>7
<1>9. FlattenSeq(seqs) = IF N = 0 THEN seqs ELSE F[N]
  BY DEF FlattenSeq, Flatten
<1> HIDE DEF F
<1>10. N \in Nat /\ DOMAIN seqs = 1 .. N /\ \A i \in 1 .. N : seqs[i] \in Seq(S)
  OBVIOUS
<1>11. \A i \in 1 .. N : F[i] = IF i = 1 THEN seqs[i] ELSE F[i - 1] \o seqs[i]
  BY <1>8
<1> HIDE DEF N, R, D
<1> DEFINE Sound(i) == /\ F[i] \in Seq(S)
                       /\ \A x : x \in Items(F[i]) <=> \E j \in 1 .. i : x \in Items(seqs[j])
           P == {i \in 0 .. N : i > 0 => Sound(i)}
<1>12. ASSUME NEW i \in 1 .. N, i - 1 \in P
       PROVE  Sound(i)
  <2>1. CASE i = 1
    <3>1. F[i] = seqs[i] /\ seqs[i] \in Seq(S)
      BY <1>10, <1>11, <2>1
    <3>2. QED
      BY <2>1, <3>1
  <2>2. CASE i # 1
    <3>1. Sound(i - 1) /\ i - 1 \in 1 .. N
      BY <1>12, <2>2
    <3>2. F[i] = F[i - 1] \o seqs[i] /\ seqs[i] \in Seq(S)
      BY <1>10, <1>11, <2>2
    <3>3. F[i] \in Seq(S) /\ Items(F[i]) = Items(F[i - 1]) \cup Items(seqs[i])
      BY <3>1, <3>2, ItemsOfJoined
    <3>4. \A j : j \in 1 .. i <=> j = i \/ j \in 1 .. i - 1
      BY <1>10
    <3>5. ASSUME NEW x
          PROVE  x \in Items(F[i]) <=> \E j \in 1 .. i : x \in Items(seqs[j])
      BY <3>1, <3>3, <3>4
    <3>6. QED
      BY <3>3, <3>5
  <2>3. QED
    BY <2>1, <2>2
<1>13. \A i \in 0 .. N : i \in P
  <2>1. 0 \in P
    BY <1>10
  <2>2. ASSUME NEW i \in 1 .. N, i - 1 \in P
        PROVE  i \in P
    <3>1. i \in 0 .. N
      BY <1>10
    <3> HIDE DEF P, Sound
    <3>2. Sound(i)
      BY <1>12, <2>2
    <3>3. QED
      BY <3>1, <3>2 DEF P
  <2> HIDE DEF P
  <2>3. QED
    BY <1>10, <2>1, <2>2, UpTo
<1>14. CASE N = 0
  <2>1. seqs = <<>> /\ FlattenSeq(seqs) = <<>>
    BY <1>9, <1>14 DEF N
  <2>2. Items(<<>>) = {} /\ DOMAIN seqs = {} /\ <<>> \in Seq(S)
    BY <2>1 DEF Items
  <2>3. QED
    BY <2>1, <2>2
<1>15. CASE N # 0
  <2>1. Sound(N)
    <3>1. N \in 0 .. N /\ N > 0
      BY <1>10, <1>15
    <3>2. QED
      BY <1>13, <3>1
  <2>2. QED
    <3>1. FlattenSeq(seqs) = F[N]
      BY <1>9, <1>15
    <3>2. F[N] \in Seq(S)
      BY <2>1
    <3>3. \A x : x \in Items(F[N]) <=> \E j \in DOMAIN seqs : x \in Items(seqs[j])
      BY <1>10, <2>1
    <3> HIDE DEF Sound
    <3>4. QED
      BY <3>1, <3>2, <3>3
<1>16. QED
  BY <1>14, <1>15

-----------------------------------------------------------------------------
(* Chains and buckets.                                                     *)

Key   == Name \cup {Nil}
Chain == Seq(Key \X Value)
Buckets == [BucketNo -> Chain]
Width == Sizes \cup {OblistSize}

(* The pairs are where their keys are looked for. *)
InPlace(ch, n) ==
  \A b \in BucketNo : \A i \in DOMAIN ch[b] : n > 0 /\ b = BucketFor(ch[b][i][1], n)

(* What the one bucket that matters has for k. *)
Bound(ch, n, k) == IF n > 0 THEN Lookup(ch[BucketFor(k, n)], k) ELSE Unbound

LEMMA NameFacts ==
  /\ Nil \in Value /\ T \in Value /\ Nil \notin Name /\ Name \cap Value = {}
  /\ Error \notin Value /\ Crash \notin Value /\ Unbound \notin Value
  /\ Error \notin Name /\ Crash \notin Name
  /\ Nil # Error /\ Nil # Crash /\ Nil # Unbound /\ Error # Crash /\ Error # Unbound
  /\ Crash # Unbound /\ Nothing # Error /\ Nothing # Crash
  /\ \A n \in Width : n \in Nat
  /\ \A k \in Key : Hash(k) \in Nat
BY DEF Nil, T, Error, Crash, Unbound, Nothing, Width, Hash, Key

LEMMA BucketFacts ==
  ASSUME NEW n \in Width, n > 0, NEW k \in Key
  PROVE  BucketFor(k, n) \in BucketNo /\ BucketFor(k, n) \in 0 .. n - 1
<1>1. Hash(k) \in Nat /\ n \in Nat
  BY NameFacts
<1>2. Hash(k) % n \in 0 .. n - 1
  BY <1>1
<1>3. QED
  BY <1>2 DEF BucketFor, BucketNo, Width

(* Lookup finds the first pair for k. *)
LEMMA LookupFirst ==
  ASSUME NEW chain \in Chain, NEW k, NEW i \in DOMAIN chain, chain[i][1] = k,
         \A j \in 1 .. i - 1 : chain[j][1] # k
  PROVE  Lookup(chain, k) = chain[i][2]
<1> DEFINE hits == {j \in DOMAIN chain : chain[j][1] = k}
<1>1. i \in hits /\ hits \in SUBSET Nat /\ \A j \in hits : j \in 1 .. Len(chain) /\ chain[j][1] = k
  BY DEF Chain
<1>2. Min(hits) \in hits /\ Min(hits) <= i
  <2> HIDE DEF hits
  <2>1. QED
    BY <1>1, MinFacts
<1>3. Min(hits) = i
  <2>1. Min(hits) \in 1 .. Len(chain) /\ i \in 1 .. Len(chain) /\ Len(chain) \in Nat
    BY <1>1, <1>2 DEF Chain
  <2> HIDE DEF hits
  <2>2. Min(hits) \notin 1 .. i - 1
    BY <1>1, <1>2
  <2>3. QED
    BY <1>2, <2>1, <2>2
<1>4. QED
  BY <1>1, <1>3 DEF Lookup

LEMMA LookupNone ==
  ASSUME NEW chain, NEW k, \A j \in DOMAIN chain : chain[j][1] # k
  PROVE  Lookup(chain, k) = Unbound
BY DEF Lookup

LEMMA LookupSome ==
  ASSUME NEW chain \in Chain, NEW k, Lookup(chain, k) # Unbound
  PROVE  \E i \in DOMAIN chain : /\ chain[i][1] = k /\ Lookup(chain, k) = chain[i][2]
                                 /\ \A j \in 1 .. i - 1 : chain[j][1] # k
<1> DEFINE hits == {j \in DOMAIN chain : chain[j][1] = k}
<1>1. hits # {} /\ hits \in SUBSET Nat /\ \A j \in hits : j \in 1 .. Len(chain)
  BY DEF Lookup, Chain
<1>2. Min(hits) \in hits /\ \A j \in hits : Min(hits) <= j
  <2> HIDE DEF hits
  <2>1. QED
    BY <1>1, MinFacts
<1>3. Lookup(chain, k) = chain[Min(hits)][2]
  BY <1>1 DEF Lookup
<1>4. \A j \in 1 .. Min(hits) - 1 : chain[j][1] # k
  <2> TAKE j \in 1 .. Min(hits) - 1
  <2>1. Min(hits) \in 1 .. Len(chain) /\ Len(chain) \in Nat
    BY <1>1, <1>2 DEF Chain
  <2>2. j \in 1 .. Len(chain) /\ ~(Min(hits) <= j)
    BY <2>1
  <2>3. j \in DOMAIN chain
    BY <2>2 DEF Chain
  <2>4. QED
    BY <1>2, <2>2, <2>3
<1>5. QED
  BY <1>2, <1>3, <1>4

LEMMA LookupType ==
  ASSUME NEW chain \in Chain, NEW k
  PROVE  Lookup(chain, k) \in Value \cup {Unbound}
<1>1. CASE Lookup(chain, k) # Unbound
  <2>1. PICK i \in DOMAIN chain : Lookup(chain, k) = chain[i][2]
    BY <1>1, LookupSome
  <2>2. chain[i] \in Key \X Value
    BY DEF Chain
  <2>3. QED
    BY <2>1, <2>2
<1>2. QED
  BY <1>1

(* A pair in front hides those behind it. *)
LEMMA LookupMore ==
  ASSUME NEW chain \in Chain, NEW p \in Key \X Value, NEW k
  PROVE  /\ <<p>> \o chain \in Chain
         /\ Lookup(<<p>> \o chain, k) = IF k = p[1] THEN p[2] ELSE Lookup(chain, k)
<1> DEFINE more == <<p>> \o chain
<1>1. /\ more \in Chain /\ Len(more) = Len(chain) + 1 /\ more[1] = p
      /\ \A i \in 1 .. Len(chain) : more[i + 1] = chain[i]
      /\ Len(chain) \in Nat /\ DOMAIN chain = 1 .. Len(chain) /\ DOMAIN more = 1 .. Len(more)
  BY DEF Chain
<1> HIDE DEF more
<1>2. CASE k = p[1]
  <2>1. 1 \in DOMAIN more /\ more[1][1] = k /\ \A j \in 1 .. 1 - 1 : more[j][1] # k
    BY <1>1, <1>2
  <2>2. Lookup(more, k) = more[1][2]
    BY <1>1, <2>1, LookupFirst
  <2>3. QED
    BY <1>1, <1>2, <2>2 DEF more
<1>3. CASE k # p[1] /\ Lookup(chain, k) = Unbound
  <2>1. \A j \in DOMAIN chain : chain[j][1] # k
    <3>1. ASSUME NEW i \in DOMAIN chain, chain[i][1] = k
          PROVE  FALSE
      <4> DEFINE hits == {j \in DOMAIN chain : chain[j][1] = k}
      <4>1. hits # {} /\ hits \in SUBSET Nat
        BY <1>1, <3>1
      <4>2. Min(hits) \in hits
        <5> HIDE DEF hits
        <5>1. QED
          BY <4>1, MinFacts
      <4>3. Lookup(chain, k) = chain[Min(hits)][2] /\ Min(hits) \in DOMAIN chain
        BY <4>1, <4>2 DEF Lookup
      <4>4. chain[Min(hits)] \in Key \X Value
        BY <4>3 DEF Chain
      <4>5. QED
        BY <1>3, <4>3, <4>4, NameFacts
    <3>2. QED
      BY <3>1
  <2>2. ASSUME NEW j \in DOMAIN more
        PROVE  more[j][1] # k
    <3>1. j = 1 \/ (j - 1 \in 1 .. Len(chain) /\ j = (j - 1) + 1)
      BY <1>1
    <3>2. j # 1 => more[j] = chain[j - 1]
      BY <1>1, <3>1
    <3>3. QED
      BY <1>1, <1>3, <2>1, <3>1, <3>2
  <2>3. Lookup(more, k) = Unbound
    BY <2>2, LookupNone
  <2>4. QED
    BY <1>1, <1>3, <2>3 DEF more
<1>4. CASE k # p[1] /\ Lookup(chain, k) # Unbound
  <2>1. PICK i \in DOMAIN chain : /\ chain[i][1] = k /\ Lookup(chain, k) = chain[i][2]
                                  /\ \A j \in 1 .. i - 1 : chain[j][1] # k
    BY <1>4, LookupSome
  <2>2. i + 1 \in DOMAIN more /\ more[i + 1] = chain[i]
    BY <1>1
  <2>3. ASSUME NEW j \in 1 .. (i + 1) - 1
        PROVE  more[j][1] # k
    <3>1. j = 1 \/ (j - 1 \in 1 .. Len(chain) /\ j - 1 \in 1 .. i - 1 /\ j = (j - 1) + 1)
      BY <1>1
    <3>2. j # 1 => more[j] = chain[j - 1]
      BY <1>1, <3>1
    <3>3. QED
      BY <1>1, <1>4, <2>1, <3>1, <3>2
  <2>4. Lookup(more, k) = more[i + 1][2]
    BY <1>1, <2>1, <2>2, <2>3, LookupFirst
  <2>5. QED
    BY <1>1, <1>4, <2>1, <2>2, <2>4 DEF more
<1>5. QED
  BY <1>2, <1>3, <1>4

(* Putting a pair into its bucket changes what its key is bound to. *)
WithPair(ch, n, p) == [ch EXCEPT ![BucketFor(p[1], n)] = <<p>> \o @]

LEMMA PutFacts ==
  ASSUME NEW n \in Width, n > 0, NEW ch \in Buckets, InPlace(ch, n), NEW p \in Key \X Value
  PROVE  /\ WithPair(ch, n, p) \in Buckets /\ InPlace(WithPair(ch, n, p), n)
         /\ \A k \in Key :
              Bound(WithPair(ch, n, p), n, k) = IF k = p[1] THEN p[2] ELSE Bound(ch, n, k)
<1> DEFINE at == BucketFor(p[1], n)
           c == WithPair(ch, n, p)
<1>1. p[1] \in Key /\ p[2] \in Value /\ at \in BucketNo
  BY BucketFacts
<1>2. ch[at] \in Chain /\ <<p>> \o ch[at] \in Chain
  <2>1. ch[at] \in Chain
    BY <1>1 DEF Buckets
  <2>2. QED
    BY <2>1, LookupMore
<1>3. /\ c \in [BucketNo -> Chain] /\ c[at] = <<p>> \o ch[at]
      /\ \A b \in BucketNo : b # at => c[b] = ch[b]
  BY <1>1, <1>2 DEF Buckets, WithPair
<1> HIDE DEF c
<1>4. InPlace(c, n)
  <2>1. SUFFICES ASSUME NEW b \in BucketNo, NEW i \in DOMAIN c[b]
                 PROVE  b = BucketFor(c[b][i][1], n)
    BY DEF InPlace
  <2>2. CASE b # at
    BY <1>3, <2>2 DEF InPlace
  <2>3. CASE b = at
    <3> DEFINE chain == ch[at]
               more == <<p>> \o chain
    <3>1. /\ Len(more) = Len(chain) + 1 /\ more[1] = p /\ Len(chain) \in Nat
          /\ \A j \in 1 .. Len(chain) : more[j + 1] = chain[j]
          /\ DOMAIN more = 1 .. Len(more) /\ DOMAIN chain = 1 .. Len(chain)
      BY <1>2 DEF Chain
    <3>2. \A j \in DOMAIN chain : at = BucketFor(chain[j][1], n)
      BY <1>1 DEF InPlace
    <3>3. c[b] = more /\ i \in DOMAIN more
      BY <1>3, <2>3
    <3> HIDE DEF more, chain
    <3>4. i = 1 \/ (i - 1 \in 1 .. Len(chain) /\ i = (i - 1) + 1)
      BY <3>1, <3>3
    <3>5. i # 1 => more[i] = chain[i - 1]
      BY <3>1, <3>4
    <3>6. QED
      BY <2>3, <3>1, <3>2, <3>3, <3>4, <3>5
  <2>4. QED
    BY <2>2, <2>3
<1>5. ASSUME NEW k \in Key
      PROVE  Bound(c, n, k) = IF k = p[1] THEN p[2] ELSE Bound(ch, n, k)
  <2>1. BucketFor(k, n) \in BucketNo
    BY BucketFacts
  <2>2. CASE BucketFor(k, n) # at
    BY <1>3, <2>1, <2>2 DEF Bound
  <2>3. CASE BucketFor(k, n) = at
    <3>1. Lookup(c[at], k) = IF k = p[1] THEN p[2] ELSE Lookup(ch[at], k)
      BY <1>2, <1>3, LookupMore
    <3>2. QED
      BY <2>3, <3>1 DEF Bound
  <2>4. QED
    BY <2>2, <2>3
<1>6. QED
  BY <1>3, <1>4, <1>5 DEF Buckets, c

-----------------------------------------------------------------------------
(* All the pairs of a map, and its keys.                                   *)

LEMMA PairsFacts ==
  ASSUME NEW n \in Width, NEW ch \in Buckets
  PROVE  /\ PairsOf(ch, n) \in Seq(Key \X Value)
         /\ \A x : x \in Items(PairsOf(ch, n)) <=> \E b \in 0 .. n - 1 : x \in Items(ch[b])
<1> DEFINE seqs == [i \in 1 .. n |-> ch[i - 1]]
<1>1. n \in Nat /\ \A b \in 0 .. n - 1 : b \in BucketNo
  BY NameFacts DEF BucketNo, Width
<1>2. ASSUME NEW i \in 1 .. n
      PROVE  seqs[i] = ch[i - 1] /\ seqs[i] \in Seq(Key \X Value)
  <2>1. i - 1 \in 0 .. n - 1
    BY <1>1
  <2>2. ch[i - 1] \in Chain
    BY <1>1, <2>1 DEF Buckets
  <2>3. QED
    BY <2>2 DEF Chain
<1>3. seqs \in Seq(Seq(Key \X Value)) /\ DOMAIN seqs = 1 .. n
  BY <1>1, <1>2
<1>4. PairsOf(ch, n) = FlattenSeq(seqs)
  BY DEF PairsOf
<1> HIDE DEF seqs
<1>5. /\ FlattenSeq(seqs) \in Seq(Key \X Value)
      /\ \A x : x \in Items(FlattenSeq(seqs)) <=> \E i \in DOMAIN seqs : x \in Items(seqs[i])
  BY <1>3, FlattenItems
<1>6. ASSUME NEW x
      PROVE  (\E i \in 1 .. n : x \in Items(seqs[i])) <=> \E b \in 0 .. n - 1 : x \in Items(ch[b])
  <2>1. \A i \in 1 .. n : i - 1 \in 0 .. n - 1
    BY <1>1
  <2>2. \A b \in 0 .. n - 1 : b + 1 \in 1 .. n /\ (b + 1) - 1 = b
    BY <1>1
  <2>3. QED
    BY <1>2, <2>1, <2>2
<1>7. QED
  BY <1>3, <1>4, <1>5, <1>6

(* The keys of a map are those of its pairs. *)
LEMMA KeysFacts ==
  ASSUME NEW n \in Width, NEW ch \in Buckets
  PROVE  /\ HashmapKeys(ch, n) \in Seq(Key)
         /\ \A k : k \in Items(HashmapKeys(ch, n)) <=>
              \E b \in 0 .. n - 1 : \E i \in DOMAIN ch[b] : ch[b][i][1] = k
<1> DEFINE pairs == PairsOf(ch, n)
           firsts == [i \in DOMAIN pairs |-> pairs[i][1]]
           keys == Reverse(firsts)
<1>1. pairs \in Seq(Key \X Value) /\ DOMAIN pairs = 1 .. Len(pairs) /\ Len(pairs) \in Nat
  BY PairsFacts
<1>2. HashmapKeys(ch, n) = keys
  BY DEF HashmapKeys
<1>3. ASSUME NEW i \in DOMAIN pairs
      PROVE  firsts[i] = pairs[i][1] /\ pairs[i][1] \in Key
  <2>1. pairs[i] \in Key \X Value
    BY <1>1
  <2>2. QED
    BY <2>1
<1>4. firsts \in Seq(Key) /\ Len(firsts) = Len(pairs)
  <2> HIDE DEF pairs
  <2>1. firsts = [i \in 1 .. Len(pairs) |-> pairs[i][1]]
    BY <1>1
  <2>2. QED
    BY <1>1, <1>3, <2>1
<1> DEFINE N == Len(pairs)
<1>5. keys = [i \in 1 .. N |-> firsts[(N - i) + 1]]
  BY <1>4 DEF Reverse
<1> HIDE DEF pairs
<1>6. \A i \in 1 .. N : (N - i) + 1 \in 1 .. N /\ (N - ((N - i) + 1)) + 1 = i
  BY <1>1
<1>7. keys \in Seq(Key) /\ DOMAIN keys = 1 .. N
  <2> HIDE DEF keys
  <2>1. \A i \in 1 .. N : firsts[(N - i) + 1] \in Key
    BY <1>1, <1>3, <1>6
  <2> HIDE DEF firsts
  <2>2. QED
    BY <1>1, <1>5, <2>1
<1>8. Items(keys) = Items(firsts)
  <2>1. \A i \in 1 .. N : keys[i] = firsts[(N - i) + 1]
    BY <1>5
  <2>2. DOMAIN firsts = 1 .. N
    BY <1>1
  <2> HIDE DEF keys, firsts
  <2>3. QED
    BY <1>6, <1>7, <2>1, <2>2 DEF Items
<1>9. ASSUME NEW k
      PROVE  k \in Items(firsts) <=> \E x \in Items(pairs) : x[1] = k
  <2>1. DOMAIN firsts = DOMAIN pairs /\ \A i \in DOMAIN pairs : firsts[i] = pairs[i][1]
    BY <1>3
  <2> HIDE DEF firsts
  <2>2. QED
    BY <2>1 DEF Items
<1>10. ASSUME NEW k
       PROVE  (\E x \in Items(pairs) : x[1] = k) <=>
                \E b \in 0 .. n - 1 : \E i \in DOMAIN ch[b] : ch[b][i][1] = k
  <2>1. \A x : x \in Items(pairs) <=> \E b \in 0 .. n - 1 : x \in Items(ch[b])
    BY PairsFacts DEF pairs
  <2>2. QED
    BY <2>1 DEF Items
<1>11. QED
  BY <1>2, <1>7, <1>8, <1>9, <1>10

(* What hashmap_get answers, asked for a value and asked for the key. *)
ValueFrom(ch, n, k) == HashmapGet(ch, n, k, FALSE)
KeyFrom(ch, n, k)   == HashmapGet(ch, n, k, TRUE)

LEMMA GetFacts ==
  ASSUME NEW n \in Width, n > 0, NEW ch \in Buckets, NEW k \in Key
  PROVE  /\ ValueFrom(ch, n, k) \in Value \cup {Error}
         /\ KeyFrom(ch, n, k) \in {k, Nil, Error}
         /\ Bound(ch, n, k) \in Value \cup {Unbound}
         /\ (Bound(ch, n, k) # Unbound => /\ ValueFrom(ch, n, k) = Bound(ch, n, k)
                                           /\ KeyFrom(ch, n, k) = k)
         /\ (Bound(ch, n, k) = Unbound => /\ ValueFrom(ch, n, k) \in {Nil, Error}
                                           /\ KeyFrom(ch, n, k) = ValueFrom(ch, n, k))
<1> DEFINE chain == ch[BucketFor(k, n)]
<1>1. chain \in Chain
  BY BucketFacts DEF Buckets
<1>2. Bound(ch, n, k) = Lookup(chain, k)
  BY DEF Bound
<1>3. Lookup(chain, k) \in Value \cup {Unbound}
  BY <1>1, LookupType
<1>4. n # 0
  BY NameFacts
<1>5. /\ ValueFrom(ch, n, k) =
             IF chain = <<>> THEN Error
             ELSE IF Lookup(chain, k) = Unbound THEN Nil ELSE Lookup(chain, k)
      /\ KeyFrom(ch, n, k) =
             IF chain = <<>> THEN Error
             ELSE IF Lookup(chain, k) = Unbound THEN Nil ELSE k
  BY <1>4 DEF HashmapGet, ValueFrom, KeyFrom
<1>6. chain = <<>> => Lookup(chain, k) = Unbound
  BY LookupNone
<1> HIDE DEF chain
<1>7. QED
  BY <1>2, <1>3, <1>5, <1>6, NameFacts

-----------------------------------------------------------------------------
(* Putting many pairs one after the other.                                 *)

(* b is what something is bound to after each of N steps, g what each step
   gives it.                                                               *)
LastGiven(N, g, before) ==
  LET giving == {i \in 1 .. N : g[i] # Unbound}
  IN  IF giving = {} THEN before ELSE g[Max(giving)]

LEMMA LastWins ==
  ASSUME NEW N \in Nat, NEW b, NEW g,
         \A i \in 1 .. N : b[i] = IF g[i] = Unbound THEN b[i - 1] ELSE g[i]
  PROVE  b[N] = LastGiven(N, g, b[0])
<1> DEFINE Same(i) == (\A j \in 1 .. i : g[j] = Unbound) /\ b[i] = b[0]
           From(i, j) == g[j] # Unbound /\ b[i] = g[j] /\ \A l \in j + 1 .. i : g[l] = Unbound
           P == {i \in 0 .. N : Same(i) \/ \E j \in 1 .. i : From(i, j)}
<1>1. 0 \in P
  OBVIOUS
<1>2. ASSUME NEW i \in 1 .. N, i - 1 \in P
      PROVE  i \in P
  <2>1. i \in 0 .. N /\ b[i] = IF g[i] = Unbound THEN b[i - 1] ELSE g[i]
    OBVIOUS
  <2>2. CASE g[i] # Unbound
    <3>1. i \in 1 .. i /\ From(i, i)
      BY <2>1, <2>2
    <3>2. QED
      BY <2>1, <3>1
  <2>3. CASE g[i] = Unbound /\ Same(i - 1)
    <3>1. Same(i)
      <4>1. \A j \in 1 .. i : j = i \/ j \in 1 .. i - 1
        OBVIOUS
      <4>2. QED
        BY <2>1, <2>3, <4>1
    <3>2. QED
      BY <2>1, <3>1
  <2>4. CASE g[i] = Unbound /\ \E j \in 1 .. i - 1 : From(i - 1, j)
    <3>1. PICK j \in 1 .. i - 1 : From(i - 1, j)
      BY <2>4
    <3>2. From(i, j) /\ j \in 1 .. i
      <4>1. \A l \in j + 1 .. i : l = i \/ l \in j + 1 .. i - 1
        OBVIOUS
      <4>2. QED
        BY <2>1, <2>4, <3>1, <4>1
    <3> HIDE DEF From
    <3>3. QED
      BY <2>1, <3>2
  <2>5. QED
    BY <1>2, <2>2, <2>3, <2>4
<1>3. N \in P
  <2> HIDE DEF P
  <2>1. \A i \in 0 .. N : i \in P
    BY <1>1, <1>2, UpTo
  <2>2. QED
    BY <2>1
<1> DEFINE giving == {i \in 1 .. N : g[i] # Unbound}
<1>4. LastGiven(N, g, b[0]) = IF giving = {} THEN b[0] ELSE g[Max(giving)]
  BY DEF LastGiven
<1>5. CASE Same(N)
  BY <1>4, <1>5
<1>6. CASE \E j \in 1 .. N : From(N, j)
  <2>1. PICK j \in 1 .. N : From(N, j)
    BY <1>6
  <2>2. j \in giving /\ giving \in SUBSET (0 .. N) /\ \A i \in giving : i \in 1 .. N
    BY <2>1
  <2>3. Max(giving) \in giving /\ Max(giving) >= j
    <3> HIDE DEF giving
    <3>1. QED
      BY <2>2, MaxFacts
  <2>4. Max(giving) = j
    <3>1. Max(giving) \in 1 .. N /\ g[Max(giving)] # Unbound
      BY <2>3
    <3> HIDE DEF giving
    <3>2. Max(giving) \notin j + 1 .. N
      BY <2>1, <3>1
    <3>3. QED
      BY <2>3, <3>1, <3>2
  <2>5. QED
    BY <1>4, <2>1, <2>2, <2>4
<1>7. QED
  BY <1>3, <1>5, <1>6

(* A key that some pair has is bound, and one that is bound some pair has. *)
LEMMA BoundFacts ==
  ASSUME NEW n \in Width, NEW ch \in Buckets, InPlace(ch, n)
  PROVE  /\ \A b \in BucketNo : \A i \in DOMAIN ch[b] : Bound(ch, n, ch[b][i][1]) # Unbound
         /\ \A k \in Key : Bound(ch, n, k) # Unbound =>
              \E b \in 0 .. n - 1 : \E i \in DOMAIN ch[b] : ch[b][i][1] = k
<1>1. ASSUME NEW b \in BucketNo, NEW i \in DOMAIN ch[b]
      PROVE  Bound(ch, n, ch[b][i][1]) # Unbound
  <2> DEFINE k == ch[b][i][1]
             hits == {j \in DOMAIN ch[b] : ch[b][j][1] = k}
  <2>1. n > 0 /\ b = BucketFor(k, n)
    BY DEF InPlace
  <2>2. Bound(ch, n, k) = Lookup(ch[b], k)
    BY <2>1 DEF Bound
  <2>3. ch[b] \in Seq(Key \X Value)
    BY DEF Buckets, Chain
  <2>4. hits # {} /\ hits \in SUBSET Nat /\ Lookup(ch[b], k) = ch[b][Min(hits)][2]
    BY <2>3 DEF Lookup
  <2>5. Min(hits) \in DOMAIN ch[b]
    <3> HIDE DEF hits
    <3>1. Min(hits) \in hits
      BY <2>4, MinFacts
    <3>2. QED
      BY <3>1 DEF hits
  <2>6. ch[b][Min(hits)] \in Key \X Value
    <3> HIDE DEF hits
    <3>1. QED
      BY <2>3, <2>5
  <2>7. QED
    BY <2>2, <2>4, <2>6, NameFacts
<1>2. ASSUME NEW k \in Key, Bound(ch, n, k) # Unbound
      PROVE  \E b \in 0 .. n - 1 : \E i \in DOMAIN ch[b] : ch[b][i][1] = k
  <2> DEFINE b == BucketFor(k, n)
  <2>1. n > 0 /\ Lookup(ch[b], k) # Unbound
    BY <1>2 DEF Bound
  <2>2. b \in 0 .. n - 1 /\ b \in BucketNo
    BY <2>1, BucketFacts
  <2>3. ch[b] \in Chain
    BY <2>2 DEF Buckets
  <2>4. \E i \in DOMAIN ch[b] : ch[b][i][1] = k
    <3> HIDE DEF b
    <3>1. QED
      BY <2>1, <2>3, LookupSome
  <2>5. QED
    BY <2>2, <2>4
<1>3. QED
  BY <1>1, <1>2

(* Buckets with all their pairs in place. *)
Placed(n) == {ch \in Buckets : InPlace(ch, n)}

LEMMA HashmapPutFacts ==
  ASSUME NEW n \in Width, n > 0, NEW ch \in Placed(n), NEW k \in Key, NEW v \in Value
  PROVE  /\ HashmapPut(ch, n, k, v) \in Placed(n)
         /\ \A x \in Name : Bound(HashmapPut(ch, n, k, v), n, x) = IF x = k THEN v ELSE Bound(ch, n, x)
<1>1. ch \in Buckets /\ InPlace(ch, n)
  BY DEF Placed
<1>2. CASE k = Nil
  <2>1. HashmapPut(ch, n, k, v) = ch
    BY <1>2 DEF HashmapPut
  <2>2. QED
    BY <1>2, <2>1, NameFacts
<1>3. CASE k # Nil
  <2> DEFINE p == <<k, v>>
             c == WithPair(ch, n, p)
  <2>1. p \in Key \X Value /\ p[1] = k /\ p[2] = v
    OBVIOUS
  <2>2. HashmapPut(ch, n, k, v) = c
    BY <1>3 DEF HashmapPut, Cell, WithPair
  <2> HIDE DEF p
  <2>3. /\ c \in Buckets /\ InPlace(c, n)
        /\ \A x \in Key : Bound(c, n, x) = IF x = p[1] THEN p[2] ELSE Bound(ch, n, x)
    BY <1>1, <2>1, PutFacts
  <2> HIDE DEF c
  <2>4. QED
    BY <2>1, <2>2, <2>3 DEF Placed, Key
<1>4. QED
  BY <1>2, <1>3

(* A new map has what the last pair for each name gives it. *)
ItemGives(items, k) ==
  [i \in 1 .. Len(items) |-> IF items[i][1] = k THEN items[i][2] ELSE Unbound]

FillStages(n, items) ==
  CHOOSE filled : filled = [i \in 0 .. Len(items) |->
    IF i = 0 THEN Empty
    ELSE [filled[i - 1] EXCEPT ![BucketFor(items[i][1], n)] = <<items[i]>> \o @]]

LEMMA EmptyFacts ==
  Empty \in Buckets /\ \A n : InPlace(Empty, n) /\ \A k \in Key : n \in Width => Bound(Empty, n, k) = Unbound
<1>1. <<>> \in Chain
  BY DEF Chain
<1>2. Empty \in Buckets /\ \A b \in BucketNo : Empty[b] = <<>>
  BY <1>1 DEF Empty, Buckets
<1>3. \A n : InPlace(Empty, n)
  BY <1>2 DEF InPlace
<1>4. ASSUME NEW n \in Width, NEW k \in Key
      PROVE  Bound(Empty, n, k) = Unbound
  <2>1. CASE n > 0
    <3>1. BucketFor(k, n) \in BucketNo
      BY <2>1, BucketFacts
    <3>2. Empty[BucketFor(k, n)] = <<>>
      BY <1>2, <3>1
    <3>3. QED
      BY <3>2, LookupNone DEF Bound
  <2>2. QED
    BY <2>1 DEF Bound
<1>5. QED
  BY <1>2, <1>3, <1>4

LEMMA FilledFacts ==
  ASSUME NEW n \in Width, n > 0, NEW items \in Seq(Key \X Value)
  PROVE  /\ Filled(n, items) \in Placed(n)
         /\ \A k \in Name : Bound(Filled(n, items), n, k) =
              LastGiven(Len(items), ItemGives(items, k), Unbound)
<1> DEFINE N == Len(items)
           R == Placed(n)
           with(c, i) == WithPair(c, n, items[i])
           next == [x \in R \X (1 .. N) |-> with(x[1], x[2])]
<1>1. N \in Nat /\ \A i \in 1 .. N : items[i] \in Key \X Value
  OBVIOUS
<1>2. ASSUME NEW c \in R, NEW i \in 1 .. N
      PROVE  /\ with(c, i) \in R
             /\ \A k \in Name : Bound(with(c, i), n, k) =
                  IF k = items[i][1] THEN items[i][2] ELSE Bound(c, n, k)
  <2>1. c \in Buckets /\ InPlace(c, n) /\ items[i] \in Key \X Value
    BY <1>1 DEF Placed
  <2>2. /\ WithPair(c, n, items[i]) \in Buckets /\ InPlace(WithPair(c, n, items[i]), n)
        /\ \A x \in Key : Bound(WithPair(c, n, items[i]), n, x) =
             IF x = items[i][1] THEN items[i][2] ELSE Bound(c, n, x)
    BY <2>1, PutFacts
  <2>3. QED
    BY <2>2 DEF Placed, Key
<1>3. Empty \in R
  BY EmptyFacts DEF Placed
<1>4. Advances(R, N, next)
  <2>1. \A x \in R \X (1 .. N) : x[1] \in R /\ x[2] \in 1 .. N
    OBVIOUS
  <2> HIDE DEF with, R
  <2>2. \A x \in R \X (1 .. N) : with(x[1], x[2]) \in R
    BY <1>2, <2>1
  <2>3. QED
    BY <2>2 DEF Advances
<1>5. PICK f \in [0 .. N -> R] :
        f = [i \in 0 .. N |-> IF i = 0 THEN Empty ELSE next[<<f[i - 1], i>>]]
  <2> HIDE DEF next, R, N
  <2>1. \E f : Staged(f, R, N, Empty, next)
    BY <1>1, <1>3, <1>4, InSteps
  <2>2. QED
    BY <2>1 DEF Staged
<1>6. ASSUME NEW i \in 1 .. N
      PROVE  next[<<f[i - 1], i>>] = with(f[i - 1], i) /\ f[i - 1] \in R /\ f[i] = with(f[i - 1], i)
  <2>1. i - 1 \in 0 .. N /\ i \in 0 .. N /\ i # 0
    BY <1>1
  <2>2. f[i - 1] \in R
    BY <2>1
  <2> HIDE DEF with, R
  <2>3. next[<<f[i - 1], i>>] = with(f[i - 1], i)
    BY <2>2
  <2> HIDE DEF next
  <2>4. f[i] = next[<<f[i - 1], i>>]
    BY <1>5, <2>1
  <2>5. QED
    BY <2>2, <2>3, <2>4
<1>7. f = [i \in 0 .. Len(items) |->
             IF i = 0 THEN Empty
             ELSE [f[i - 1] EXCEPT ![BucketFor(items[i][1], n)] = <<items[i]>> \o @]]
  <2>1. \A i \in 0 .. N : i = 0 \/ i \in 1 .. N
    BY <1>1
  <2>2. f[0] = Empty
    BY <1>1, <1>5
  <2>3. f = [i \in 0 .. N |-> f[i]]
    BY <1>5
  <2>4. \A i \in 0 .. N : f[i] = IF i = 0 THEN Empty ELSE with(f[i - 1], i)
    <3> HIDE DEF with, R, next, N
    <3>1. QED
      BY <1>6, <2>1, <2>2
  <2>5. QED
    BY <2>3, <2>4 DEF WithPair
<1> DEFINE F == FillStages(n, items)
<1>8. F = [i \in 0 .. Len(items) |->
             IF i = 0 THEN Empty
             ELSE [F[i - 1] EXCEPT ![BucketFor(items[i][1], n)] = <<items[i]>> \o @]]
  BY <1>7 DEF FillStages
<1>9. Filled(n, items) = F[N]
  BY DEF Filled, FillStages
<1> HIDE DEF F
<1>10. F[0] = Empty /\ \A i \in 1 .. N : F[i] = with(F[i - 1], i)
  <2>1. 0 \in 0 .. N /\ \A i \in 1 .. N : i \in 0 .. N /\ i # 0
    BY <1>1
  <2>2. \A i \in 0 .. N : F[i] = IF i = 0 THEN Empty ELSE with(F[i - 1], i)
    BY <1>8 DEF WithPair
  <2> HIDE DEF with
  <2>3. QED
    BY <2>1, <2>2
<1>11. \A i \in 0 .. N : F[i] \in R
  <2> DEFINE P == {i \in 0 .. N : F[i] \in R}
  <2> HIDE DEF R, with, N
  <2>1. 0 \in P
    BY <1>1, <1>3, <1>10
  <2>2. \A i \in 1 .. N : i - 1 \in P => i \in P
    <3>1. \A i \in 1 .. N : i \in 0 .. N
      BY <1>1
    <3>2. QED
      BY <1>2, <1>10, <3>1
  <2> HIDE DEF P
  <2>3. \A i \in 0 .. N : i \in P
    BY <1>1, <2>1, <2>2, UpTo
  <2>4. QED
    BY <2>3 DEF P
<1>12. ASSUME NEW k \in Name
       PROVE  Bound(F[N], n, k) = LastGiven(N, ItemGives(items, k), Unbound)
  <2> DEFINE b == [i \in 0 .. N |-> Bound(F[i], n, k)]
             g == ItemGives(items, k)
  <2>1. b[0] = Unbound
    <3>1. b[0] = Bound(Empty, n, k)
      BY <1>1, <1>10
    <3>2. QED
      BY <3>1, EmptyFacts DEF Key
  <2>2. ASSUME NEW i \in 1 .. N
        PROVE  b[i] = IF g[i] = Unbound THEN b[i - 1] ELSE g[i]
    <3>1. i - 1 \in 0 .. N /\ i \in 0 .. N
      BY <1>1
    <3>2. b[i] = Bound(F[i], n, k) /\ b[i - 1] = Bound(F[i - 1], n, k)
      BY <3>1
    <3>3. Bound(F[i], n, k) = IF k = items[i][1] THEN items[i][2] ELSE Bound(F[i - 1], n, k)
      <4> HIDE DEF with, R
      <4>1. QED
        BY <1>2, <1>10, <1>11, <3>1
    <3>4. g[i] = IF items[i][1] = k THEN items[i][2] ELSE Unbound
      BY DEF ItemGives
    <3>5. items[i][2] # Unbound
      BY <1>1, NameFacts
    <3> HIDE DEF b, g
    <3>6. QED
      BY <3>2, <3>3, <3>4, <3>5
  <2>3. b[N] = Bound(F[N], n, k)
    BY <1>1
  <2> HIDE DEF b, g, N
  <2>4. b[N] = LastGiven(N, g, b[0])
    BY <1>1, <2>2, LastWins
  <2>5. QED
    BY <2>1, <2>3, <2>4 DEF g
<1>13. F[N] \in R
  BY <1>1, <1>11
<1>14. QED
  BY <1>9, <1>12, <1>13

(* A map that has been made, and what it gives a name when it is put into m. *)
Ready(m) == size[m] \in Width /\ bucket[m] \in Placed(size[m])
MapGives(m, from, k) == IF from = m THEN Unbound ELSE Bound(bucket[from], size[from], k)

Source(m, ch, from) == IF from = m THEN ch ELSE bucket[from]
KeysFrom(m, ch, from) == HashmapKeys(Source(m, ch, from), size[from])
PutKey(m, c, from, k) ==
  HashmapPut(c, size[m], k, ValueFrom(Source(m, c, from), size[from], k))
MapStages(m, ch, from) ==
  CHOOSE put : put = [i \in 0 .. Len(KeysFrom(m, ch, from)) |->
    IF i = 0 THEN ch ELSE PutKey(m, put[i - 1], from, KeysFrom(m, ch, from)[i])]

(* The buckets between the keys: putting a map into itself changes nothing. *)
Copying(m, ch, from) ==
  {c \in Placed(size[m]) :
     from = m => \A k \in Name : Bound(c, size[m], k) = Bound(ch, size[m], k)}

LEMMA PutKeyFacts ==
  ASSUME NEW m \in Map, Ready(m), size[m] > 0, NEW from \in Map, Ready(from),
         NEW ch \in Placed(size[m]), NEW c \in Copying(m, ch, from),
         NEW key \in Items(KeysFrom(m, ch, from))
  PROVE  /\ PutKey(m, c, from, key) \in Copying(m, ch, from)
         /\ \A k \in Name : Bound(PutKey(m, c, from, key), size[m], k) =
              IF k = key /\ MapGives(m, from, k) # Unbound THEN MapGives(m, from, k)
              ELSE Bound(c, size[m], k)
<1> DEFINE n == size[m]
           far == size[from]
           source == Source(m, ch, from)
           v == ValueFrom(Source(m, c, from), far, key)
<1>1. n \in Width /\ far \in Width /\ c \in Placed(n) /\ ch \in Buckets /\ InPlace(ch, n)
  BY DEF Ready, Copying, Placed
<1>2. source \in Buckets /\ InPlace(source, far)
  BY DEF Ready, Placed, Source
<1>3. PICK b \in 0 .. far - 1 : \E i \in DOMAIN source[b] : source[b][i][1] = key
  <2>1. key \in Items(HashmapKeys(source, far))
    BY DEF KeysFrom
  <2> HIDE DEF source, far
  <2>2. QED
    BY <1>1, <1>2, <2>1, KeysFacts
<1>4. far > 0 /\ b \in BucketNo
  <2>1. far \in Nat
    BY <1>1, NameFacts
  <2>2. QED
    BY <1>1, <2>1 DEF BucketNo, Width
<1>5. key \in Key /\ Bound(source, far, key) # Unbound
  <2>1. PICK i \in DOMAIN source[b] : source[b][i][1] = key
    BY <1>3
  <2>2. source[b][i] \in Key \X Value
    BY <1>2, <1>4 DEF Buckets, Chain
  <2>3. QED
    BY <1>1, <1>2, <1>4, <2>1, <2>2, BoundFacts
<1>6. CASE key = Nil
  <2>1. PutKey(m, c, from, key) = c
    BY <1>6 DEF PutKey, HashmapPut
  <2>2. QED
    BY <1>6, <2>1, NameFacts
<1>7. CASE key # Nil /\ from # m
  <2>1. source = bucket[from] /\ Source(m, c, from) = source
    BY <1>7 DEF Source
  <2>2. v = Bound(source, far, key) /\ v \in Value /\ v = MapGives(m, from, key)
    <3>1. v = ValueFrom(source, far, key)
      BY <2>1
    <3>2. MapGives(m, from, key) = Bound(source, far, key)
      BY <1>7, <2>1 DEF MapGives
    <3> HIDE DEF source, far, v
    <3>3. /\ ValueFrom(source, far, key) = Bound(source, far, key)
          /\ Bound(source, far, key) \in Value \cup {Unbound}
      BY <1>1, <1>2, <1>4, <1>5, GetFacts
    <3>4. QED
      BY <1>5, <3>1, <3>2, <3>3
  <2>3. PutKey(m, c, from, key) = HashmapPut(c, n, key, v)
    BY DEF PutKey
  <2> HIDE DEF v
  <2>4. /\ HashmapPut(c, n, key, v) \in Placed(n)
        /\ \A x \in Name : Bound(HashmapPut(c, n, key, v), n, x) = IF x = key THEN v ELSE Bound(c, n, x)
    BY <1>1, <1>5, <2>2, HashmapPutFacts
  <2>5. v # Unbound
    BY <2>2, NameFacts
  <2>6. QED
    BY <1>7, <2>2, <2>3, <2>4, <2>5 DEF Copying
<1>8. CASE key # Nil /\ from = m
  <2>1. source = ch /\ Source(m, c, from) = c /\ far = n
    BY <1>8 DEF Source
  <2>2. key \in Name /\ Bound(c, n, key) = Bound(ch, n, key)
    BY <1>5, <1>8 DEF Copying, Key
  <2>3. v = Bound(c, n, key) /\ v \in Value
    <3>1. c \in Buckets /\ Bound(c, n, key) # Unbound
      BY <1>1, <1>5, <2>1, <2>2 DEF Placed
    <3>2. v = ValueFrom(c, n, key) /\ n > 0
      BY <2>1
    <3> HIDE DEF n, v
    <3>3. /\ ValueFrom(c, n, key) = Bound(c, n, key)
          /\ Bound(c, n, key) \in Value \cup {Unbound}
      BY <1>1, <1>5, <3>1, <3>2, GetFacts
    <3>4. QED
      BY <3>1, <3>2, <3>3
  <2>4. PutKey(m, c, from, key) = HashmapPut(c, n, key, v)
    BY DEF PutKey
  <2> HIDE DEF v
  <2>5. /\ HashmapPut(c, n, key, v) \in Placed(n)
        /\ \A x \in Name : Bound(HashmapPut(c, n, key, v), n, x) = IF x = key THEN v ELSE Bound(c, n, x)
    BY <1>1, <1>5, <2>3, HashmapPutFacts
  <2>6. \A x \in Name : Bound(HashmapPut(c, n, key, v), n, x) = Bound(c, n, x)
    BY <2>3, <2>5
  <2>7. \A x \in Name : MapGives(m, from, x) = Unbound
    BY <1>8 DEF MapGives
  <2>8. QED
    BY <2>4, <2>5, <2>6, <2>7 DEF Copying
<1>9. QED
  BY <1>6, <1>7, <1>8

(* hashmap_put_all of a map gives each name what it has there. *)
LEMMA PutMapFacts ==
  ASSUME NEW m \in Map, Ready(m), size[m] > 0, NEW from \in Map, Ready(from),
         NEW ch \in Placed(size[m])
  PROVE  /\ PutMap(m, ch, from) \in Placed(size[m])
         /\ \A k \in Name : Bound(PutMap(m, ch, from), size[m], k) =
              IF MapGives(m, from, k) # Unbound THEN MapGives(m, from, k)
              ELSE Bound(ch, size[m], k)
<1> DEFINE n == size[m]
           far == size[from]
           source == Source(m, ch, from)
           keys == KeysFrom(m, ch, from)
           N == Len(keys)
           R == Copying(m, ch, from)
           with(c, i) == PutKey(m, c, from, keys[i])
           next == [x \in R \X (1 .. N) |-> with(x[1], x[2])]
<1>1. n \in Width /\ far \in Width /\ source \in Buckets /\ InPlace(source, far)
  BY DEF Ready, Placed, Source
<1>2. /\ keys \in Seq(Key) /\ N \in Nat
      /\ \A k : k \in Items(keys) <=>
           \E b \in 0 .. far - 1 : \E i \in DOMAIN source[b] : source[b][i][1] = k
  BY <1>1, KeysFacts DEF KeysFrom
<1>3. \A i \in 1 .. N : keys[i] \in Items(keys)
  <2> HIDE DEF keys
  <2>1. QED
    BY <1>2 DEF Items
<1>4. ASSUME NEW c \in R, NEW i \in 1 .. N
      PROVE  /\ with(c, i) \in R
             /\ \A k \in Name : Bound(with(c, i), n, k) =
                  IF k = keys[i] /\ MapGives(m, from, k) # Unbound THEN MapGives(m, from, k)
                  ELSE Bound(c, n, k)
  BY <1>3, PutKeyFacts
<1>5. ch \in R
  BY DEF Copying
<1>6. Advances(R, N, next)
  <2>1. \A x \in R \X (1 .. N) : x[1] \in R /\ x[2] \in 1 .. N
    OBVIOUS
  <2> HIDE DEF with, R, N
  <2>2. \A x \in R \X (1 .. N) : with(x[1], x[2]) \in R
    BY <1>4, <2>1
  <2>3. QED
    BY <2>2 DEF Advances
<1>7. PICK f \in [0 .. N -> R] :
        f = [i \in 0 .. N |-> IF i = 0 THEN ch ELSE next[<<f[i - 1], i>>]]
  <2> HIDE DEF next, R, N
  <2>1. \E f : Staged(f, R, N, ch, next)
    BY <1>2, <1>5, <1>6, InSteps
  <2>2. QED
    BY <2>1 DEF Staged
<1> HIDE DEF keys
<1>8. ASSUME NEW i \in 1 .. N
      PROVE  f[i] = with(f[i - 1], i)
  <2>1. i - 1 \in 0 .. N /\ i \in 0 .. N /\ i # 0
    BY <1>2
  <2>2. f[i - 1] \in R
    BY <2>1
  <2> HIDE DEF with, R
  <2>3. next[<<f[i - 1], i>>] = with(f[i - 1], i)
    BY <2>2
  <2> HIDE DEF next
  <2>4. f[i] = next[<<f[i - 1], i>>]
    BY <1>7, <2>1
  <2>5. QED
    BY <2>3, <2>4
<1>9. f = [i \in 0 .. N |-> IF i = 0 THEN ch ELSE with(f[i - 1], i)]
  <2>1. \A i \in 0 .. N : i = 0 \/ i \in 1 .. N
    BY <1>2
  <2>2. f[0] = ch
    BY <1>2, <1>7
  <2>3. f = [i \in 0 .. N |-> f[i]]
    BY <1>7
  <2>4. \A i \in 0 .. N : f[i] = IF i = 0 THEN ch ELSE with(f[i - 1], i)
    <3> HIDE DEF with, R, next, N
    <3>1. QED
      BY <1>8, <2>1, <2>2
  <2>5. QED
    BY <2>3, <2>4
<1> DEFINE F == MapStages(m, ch, from)
<1>10. F = [i \in 0 .. N |-> IF i = 0 THEN ch ELSE with(F[i - 1], i)]
  BY <1>9 DEF MapStages, keys
<1>11. PutMap(m, ch, from) = F[N]
  BY DEF PutMap, MapStages, keys, KeysFrom, PutKey, Source, ValueFrom
<1> HIDE DEF F
<1>12. F[0] = ch /\ \A i \in 1 .. N : F[i] = with(F[i - 1], i)
  <2>1. 0 \in 0 .. N /\ \A i \in 1 .. N : i \in 0 .. N /\ i # 0
    BY <1>2
  <2>2. \A i \in 0 .. N : F[i] = IF i = 0 THEN ch ELSE with(F[i - 1], i)
    BY <1>10
  <2> HIDE DEF with
  <2>3. QED
    BY <2>1, <2>2
<1>13. \A i \in 0 .. N : F[i] \in R
  <2> DEFINE P == {i \in 0 .. N : F[i] \in R}
  <2> HIDE DEF R, with, N
  <2>1. 0 \in P
    BY <1>2, <1>5, <1>12
  <2>2. \A i \in 1 .. N : i - 1 \in P => i \in P
    <3>1. \A i \in 1 .. N : i \in 0 .. N
      BY <1>2
    <3>2. QED
      BY <1>4, <1>12, <3>1
  <2> HIDE DEF P
  <2>3. \A i \in 0 .. N : i \in P
    BY <1>2, <2>1, <2>2, UpTo
  <2>4. QED
    BY <2>3 DEF P
<1>14. ASSUME NEW k \in Name
       PROVE  Bound(F[N], n, k) = IF MapGives(m, from, k) # Unbound THEN MapGives(m, from, k)
                                  ELSE Bound(ch, n, k)
  <2> DEFINE b == [i \in 0 .. N |-> Bound(F[i], n, k)]
             g == [i \in 1 .. N |-> IF k = keys[i] THEN MapGives(m, from, k) ELSE Unbound]
             giving == {i \in 1 .. N : g[i] # Unbound}
  <2>1. b[0] = Bound(ch, n, k) /\ b[N] = Bound(F[N], n, k)
    BY <1>2, <1>12
  <2>2. ASSUME NEW i \in 1 .. N
        PROVE  b[i] = IF g[i] = Unbound THEN b[i - 1] ELSE g[i]
    <3>1. i - 1 \in 0 .. N /\ i \in 0 .. N
      BY <1>2
    <3>2. b[i] = Bound(F[i], n, k) /\ b[i - 1] = Bound(F[i - 1], n, k)
      BY <3>1
    <3>3. Bound(F[i], n, k) =
            IF k = keys[i] /\ MapGives(m, from, k) # Unbound THEN MapGives(m, from, k)
            ELSE Bound(F[i - 1], n, k)
      <4> HIDE DEF with, R
      <4>1. QED
        BY <1>4, <1>12, <1>13, <3>1
    <3>4. g[i] = IF k = keys[i] THEN MapGives(m, from, k) ELSE Unbound
      OBVIOUS
    <3> HIDE DEF b, g
    <3>5. QED
      BY <3>2, <3>3, <3>4
  <2>3. b[N] = LastGiven(N, g, b[0])
    <3> HIDE DEF b, g, N
    <3>1. QED
      BY <1>2, <2>2, LastWins
  <2>4. LastGiven(N, g, b[0]) = IF giving = {} THEN b[0] ELSE g[Max(giving)]
    BY DEF LastGiven
  <2>5. \A i \in 1 .. N : g[i] = IF k = keys[i] THEN MapGives(m, from, k) ELSE Unbound
    OBVIOUS
  <2> HIDE DEF b, g
  <2>6. CASE MapGives(m, from, k) = Unbound
    <3>1. giving = {}
      BY <2>5, <2>6
    <3>2. QED
      BY <2>1, <2>3, <2>4, <2>6, <3>1
  <2>7. CASE MapGives(m, from, k) # Unbound
    <3>1. source = bucket[from] /\ Bound(source, far, k) # Unbound
      BY <2>7 DEF MapGives, Source
    <3>2. k \in Items(keys)
      BY <1>1, <1>2, <3>1, BoundFacts DEF Key
    <3>3. PICK i \in 1 .. N : keys[i] = k
      BY <1>2, <3>2 DEF Items
    <3>4. i \in giving /\ giving \in SUBSET (0 .. N)
      BY <2>5, <2>7, <3>3
    <3>5. Max(giving) \in giving
      <4> HIDE DEF giving
      <4>1. QED
        BY <1>2, <3>4, MaxFacts
    <3>6. g[Max(giving)] = MapGives(m, from, k)
      <4>1. Max(giving) \in 1 .. N /\ g[Max(giving)] # Unbound
        BY <3>5
      <4> HIDE DEF giving
      <4>2. QED
        BY <2>5, <4>1
    <3>7. QED
      BY <2>1, <2>3, <2>4, <2>7, <3>4, <3>6
  <2>8. QED
    BY <2>6, <2>7
<1>15. F[N] \in Placed(n)
  BY <1>2, <1>13 DEF Copying
<1>16. QED
  BY <1>11, <1>14, <1>15

-----------------------------------------------------------------------------
(* Entries of a store.                                                     *)

LEMMA EntryFacts ==
  ASSUME NEW e \in Entry
  PROVE  \/ e[1] = "pair" /\ e[2] \in Name /\ e[3] \in Value /\ e = Pair(e[2], e[3])
         \/ e[1] = "map" /\ e[2] \in Map /\ e = <<"map", e[2]>>
         \/ e[1] = "key" /\ e[2] \in Name /\ e = <<"key", e[2]>>
BY DEF Entry, Pair

EntryGives(m, e, k) ==
  CASE e[1] = "pair" -> IF e[2] = k THEN e[3] ELSE Unbound
    [] e[1] = "key"  -> IF e[2] = k THEN T ELSE Unbound
    [] e[1] = "map"  -> MapGives(m, e[2], k)

ReadyEntry(e) == e \in Entry /\ (e[1] = "map" => Ready(e[2]))

LEMMA PutEntryFacts ==
  ASSUME NEW m \in Map, Ready(m), size[m] > 0, NEW e, ReadyEntry(e), NEW c \in Placed(size[m])
  PROVE  /\ PutEntry(m, c, e) \in Placed(size[m])
         /\ \A k \in Name : Bound(PutEntry(m, c, e), size[m], k) =
              IF EntryGives(m, e, k) # Unbound THEN EntryGives(m, e, k)
              ELSE Bound(c, size[m], k)
<1>1. size[m] \in Width /\ e \in Entry /\ (e[1] = "map" => Ready(e[2]))
  BY DEF Ready, ReadyEntry
<1>2. CASE e[1] = "pair"
  <2>1. e[2] \in Key /\ e[3] \in Value /\ e[3] # Unbound
    BY <1>1, <1>2, EntryFacts, NameFacts DEF Key
  <2>2. PutEntry(m, c, e) = HashmapPut(c, size[m], e[2], e[3])
    BY <1>2 DEF PutEntry
  <2>3. \A k \in Name : EntryGives(m, e, k) = IF e[2] = k THEN e[3] ELSE Unbound
    BY <1>2 DEF EntryGives
  <2>4. QED
    BY <1>1, <2>1, <2>2, <2>3, HashmapPutFacts
<1>3. CASE e[1] = "key"
  <2>1. e[2] \in Key /\ T \in Value /\ T # Unbound
    BY <1>1, <1>3, EntryFacts, NameFacts DEF Key
  <2>2. PutEntry(m, c, e) = HashmapPut(c, size[m], e[2], T)
    BY <1>3 DEF PutEntry
  <2>3. \A k \in Name : EntryGives(m, e, k) = IF e[2] = k THEN T ELSE Unbound
    BY <1>3 DEF EntryGives
  <2>4. QED
    BY <1>1, <2>1, <2>2, <2>3, HashmapPutFacts
<1>4. CASE e[1] = "map"
  <2>1. e[2] \in Map /\ Ready(e[2])
    BY <1>1, <1>4, EntryFacts
  <2>2. PutEntry(m, c, e) = PutMap(m, c, e[2])
    BY <1>4 DEF PutEntry
  <2>3. \A k \in Name : EntryGives(m, e, k) = MapGives(m, e[2], k)
    BY <1>4 DEF EntryGives
  <2>4. QED
    BY <2>1, <2>2, <2>3, PutMapFacts
<1>5. QED
  BY <1>1, <1>2, <1>3, <1>4, EntryFacts

(* hashmap_put_all of a list: the last entry that gives a name a value wins. *)
ListGives(m, list, k) == [i \in 1 .. Len(list) |-> EntryGives(m, list[i], k)]

ListStages(m, ch, list) ==
  CHOOSE put : put = [i \in 0 .. Len(list) |->
    IF i = 0 THEN ch ELSE PutEntry(m, put[i - 1], list[i])]

LEMMA PutListFacts ==
  ASSUME NEW m \in Map, Ready(m), size[m] > 0, NEW ch \in Placed(size[m]),
         NEW list \in Seq(Entry), \A i \in DOMAIN list : ReadyEntry(list[i])
  PROVE  /\ PutList(m, ch, list) \in Placed(size[m])
         /\ \A k \in Name : Bound(PutList(m, ch, list), size[m], k) =
              LastGiven(Len(list), ListGives(m, list, k), Bound(ch, size[m], k))
<1> DEFINE n == size[m]
           N == Len(list)
           R == Placed(n)
           with(c, i) == PutEntry(m, c, list[i])
           next == [x \in R \X (1 .. N) |-> with(x[1], x[2])]
<1>1. N \in Nat /\ \A i \in 1 .. N : ReadyEntry(list[i])
  OBVIOUS
<1>2. ASSUME NEW c \in R, NEW i \in 1 .. N
      PROVE  /\ with(c, i) \in R
             /\ \A k \in Name : Bound(with(c, i), n, k) =
                  IF EntryGives(m, list[i], k) # Unbound THEN EntryGives(m, list[i], k)
                  ELSE Bound(c, n, k)
  BY <1>1, PutEntryFacts
<1>3. Advances(R, N, next)
  <2>1. \A x \in R \X (1 .. N) : x[1] \in R /\ x[2] \in 1 .. N
    OBVIOUS
  <2> HIDE DEF with, R, N
  <2>2. \A x \in R \X (1 .. N) : with(x[1], x[2]) \in R
    BY <1>2, <2>1
  <2>3. QED
    BY <2>2 DEF Advances
<1>4. PICK f \in [0 .. N -> R] :
        f = [i \in 0 .. N |-> IF i = 0 THEN ch ELSE next[<<f[i - 1], i>>]]
  <2> HIDE DEF next, N
  <2>1. \E f : Staged(f, R, N, ch, next)
    <3> HIDE DEF R
    <3>1. ch \in R
      BY DEF R
    <3>2. QED
      BY <1>1, <1>3, <3>1, InSteps
  <2>2. QED
    BY <2>1 DEF Staged
<1>5. ASSUME NEW i \in 1 .. N
      PROVE  f[i] = with(f[i - 1], i)
  <2>1. i - 1 \in 0 .. N /\ i \in 0 .. N /\ i # 0
    BY <1>1
  <2>2. f[i - 1] \in R
    BY <2>1
  <2> HIDE DEF with, R
  <2>3. next[<<f[i - 1], i>>] = with(f[i - 1], i)
    BY <2>2
  <2> HIDE DEF next
  <2>4. f[i] = next[<<f[i - 1], i>>]
    BY <1>4, <2>1
  <2>5. QED
    BY <2>3, <2>4
<1>6. f = [i \in 0 .. N |-> IF i = 0 THEN ch ELSE with(f[i - 1], i)]
  <2>1. \A i \in 0 .. N : i = 0 \/ i \in 1 .. N
    BY <1>1
  <2>2. f[0] = ch
    BY <1>1, <1>4
  <2>3. f = [i \in 0 .. N |-> f[i]]
    BY <1>4
  <2>4. \A i \in 0 .. N : f[i] = IF i = 0 THEN ch ELSE with(f[i - 1], i)
    <3> HIDE DEF with, R, next, N
    <3>1. QED
      BY <1>5, <2>1, <2>2
  <2>5. QED
    BY <2>3, <2>4
<1> DEFINE F == ListStages(m, ch, list)
<1>7. F = [i \in 0 .. N |-> IF i = 0 THEN ch ELSE with(F[i - 1], i)]
  BY <1>6 DEF ListStages
<1>8. PutList(m, ch, list) = F[N]
  BY DEF PutList, ListStages
<1> HIDE DEF F
<1>9. F[0] = ch /\ \A i \in 1 .. N : F[i] = with(F[i - 1], i)
  <2>1. 0 \in 0 .. N /\ \A i \in 1 .. N : i \in 0 .. N /\ i # 0
    BY <1>1
  <2>2. \A i \in 0 .. N : F[i] = IF i = 0 THEN ch ELSE with(F[i - 1], i)
    BY <1>7
  <2> HIDE DEF with
  <2>3. QED
    BY <2>1, <2>2
<1>10. \A i \in 0 .. N : F[i] \in R
  <2> DEFINE P == {i \in 0 .. N : F[i] \in R}
  <2>1. ch \in R
    OBVIOUS
  <2> HIDE DEF R, with, N
  <2>2. 0 \in P
    BY <1>1, <1>9, <2>1
  <2>3. \A i \in 1 .. N : i - 1 \in P => i \in P
    <3>1. \A i \in 1 .. N : i \in 0 .. N
      BY <1>1
    <3>2. QED
      BY <1>2, <1>9, <3>1
  <2> HIDE DEF P
  <2>4. \A i \in 0 .. N : i \in P
    BY <1>1, <2>2, <2>3, UpTo
  <2>5. QED
    BY <2>4 DEF P
<1>11. ASSUME NEW k \in Name
       PROVE  Bound(F[N], n, k) = LastGiven(N, ListGives(m, list, k), Bound(ch, n, k))
  <2> DEFINE b == [i \in 0 .. N |-> Bound(F[i], n, k)]
             g == ListGives(m, list, k)
  <2>1. b[0] = Bound(ch, n, k) /\ b[N] = Bound(F[N], n, k)
    BY <1>1, <1>9
  <2>2. ASSUME NEW i \in 1 .. N
        PROVE  b[i] = IF g[i] = Unbound THEN b[i - 1] ELSE g[i]
    <3>1. i - 1 \in 0 .. N /\ i \in 0 .. N
      BY <1>1
    <3>2. b[i] = Bound(F[i], n, k) /\ b[i - 1] = Bound(F[i - 1], n, k)
      BY <3>1
    <3>3. Bound(F[i], n, k) =
            IF EntryGives(m, list[i], k) # Unbound THEN EntryGives(m, list[i], k)
            ELSE Bound(F[i - 1], n, k)
      <4> HIDE DEF with, R
      <4>1. QED
        BY <1>2, <1>9, <1>10, <3>1
    <3>4. g[i] = EntryGives(m, list[i], k)
      BY DEF ListGives
    <3> HIDE DEF b, g
    <3>5. QED
      BY <3>2, <3>3, <3>4
  <2> HIDE DEF b, g, N
  <2>3. b[N] = LastGiven(N, g, b[0])
    BY <1>1, <2>2, LastWins
  <2>4. QED
    BY <2>1, <2>3 DEF g
<1>12. F[N] \in R
  BY <1>1, <1>10
<1>13. QED
  BY <1>8, <1>11, <1>12

(* An entry, and a store, as search_store finds them. *)
ReplyValue(e, k)   == Reply(e, k, FALSE)
ReplyKey(e, k)     == Reply(e, k, TRUE)
SearchValue(k, st) == SearchStore(k, st, FALSE)
SearchKey(k, st)   == SearchStore(k, st, TRUE)

(* What a map answers; a map without buckets crashes. *)
LEMMA MapReplies ==
  ASSUME NEW m \in Map, Ready(m), NEW k \in Name, NEW e, e = <<"map", m>>
  PROVE  LET b == Bound(bucket[m], size[m], k)
         IN  /\ (size[m] = 0 => ReplyValue(e, k) = Crash)
             /\ (size[m] # 0 => /\ ReplyValue(e, k) = ValueFrom(bucket[m], size[m], k)
                                /\ ReplyKey(e, k) = KeyFrom(bucket[m], size[m], k))
             /\ (size[m] # 0 /\ b # Unbound => ReplyValue(e, k) = b /\ ReplyKey(e, k) = k)
             /\ (size[m] # 0 /\ b = Unbound => /\ ReplyValue(e, k) \in {Nil, Error}
                                               /\ ReplyKey(e, k) = ReplyValue(e, k))
             /\ b \in Value \cup {Unbound}
<1>1. size[m] \in Width /\ bucket[m] \in Buckets /\ size[m] \in Nat /\ k \in Key
  BY NameFacts DEF Ready, Placed, Key
<1>2. e[1] = "map" /\ e[2] = m
  OBVIOUS
<1>3. /\ ReplyValue(e, k) = ValueFrom(bucket[m], size[m], k)
      /\ ReplyKey(e, k) = KeyFrom(bucket[m], size[m], k)
  BY <1>2 DEF ReplyValue, ReplyKey, Reply, GetFrom, ValueFrom, KeyFrom
<1>4. CASE size[m] = 0
  BY <1>3, <1>4 DEF ValueFrom, HashmapGet, Bound
<1>5. CASE size[m] # 0
  <2>1. size[m] > 0
    BY <1>1, <1>5
  <2>2. QED
    BY <1>1, <1>3, <1>5, <2>1, GetFacts
<1>6. QED
  BY <1>4, <1>5

LEMMA EntryReplies ==
  ASSUME NEW e, ReadyEntry(e), NEW k \in Name
  PROVE  /\ ReplyValue(e, k) \in Value \cup {Error, Crash}
         /\ (e[1] = "pair" => ReplyValue(e, k) = e[3] /\ ReplyKey(e, k) = k)
         /\ (e[1] = "key" => ReplyValue(e, k) = Error)
<1>1. e \in Entry /\ (e[1] = "map" => Ready(e[2]))
  BY DEF ReadyEntry
<1>2. CASE e[1] = "pair"
  <2>1. ReplyValue(e, k) = e[3] /\ ReplyKey(e, k) = k
    BY <1>2 DEF ReplyValue, ReplyKey, Reply
  <2>2. QED
    BY <1>1, <1>2, <2>1, EntryFacts
<1>3. CASE e[1] = "key"
  <2>1. ReplyValue(e, k) = Error
    BY <1>3 DEF ReplyValue, Reply
  <2>2. QED
    BY <1>3, <2>1
<1>4. CASE e[1] = "map"
  <2>1. e[2] \in Map /\ e = <<"map", e[2]>> /\ Ready(e[2])
    BY <1>1, <1>4, EntryFacts
  <2> DEFINE m == e[2]
             b == Bound(bucket[m], size[m], k)
  <2> HIDE DEF m
  <2>2. m \in Map /\ Ready(m) /\ e = <<"map", m>>
    BY <2>1 DEF m
  <2>3. /\ (size[m] = 0 => ReplyValue(e, k) = Crash)
        /\ (size[m] # 0 /\ b # Unbound => ReplyValue(e, k) = b)
        /\ (size[m] # 0 /\ b = Unbound => ReplyValue(e, k) \in {Nil, Error})
        /\ b \in Value \cup {Unbound}
    BY <2>2, MapReplies
  <2>4. QED
    BY <1>4, <2>3, NameFacts
<1>5. QED
  BY <1>1, <1>2, <1>3, <1>4, EntryFacts

ReadyStore(st) ==
  /\ st \in [list : Seq(Entry), tail : Map \cup {Nil}]
  /\ \A i \in DOMAIN st.list : ReadyEntry(st.list[i])
  /\ (st.tail # Nil => st.tail \in Map /\ Ready(st.tail))

StopsFor(list, k) == {i \in DOMAIN list : Stops(list[i], k, FALSE)}

LEMMA SearchCases ==
  ASSUME NEW st, ReadyStore(st), NEW k \in Name
  PROVE  LET stops == StopsFor(st.list, k)
             last  == ReplyValue(<<"map", st.tail>>, k)
         IN  /\ (stops # {} => /\ Min(stops) \in stops
                               /\ SearchValue(k, st) = ReplyValue(st.list[Min(stops)], k))
             /\ (stops = {} /\ st.tail = Nil =>
                   SearchValue(k, st) = IF st.list = <<>> THEN Error ELSE Nil)
             /\ (stops = {} /\ st.tail # Nil =>
                   SearchValue(k, st) = IF last = Nil /\ st.list # <<>> THEN Crash ELSE last)
<1> DEFINE stops == StopsFor(st.list, k)
           last == ReplyValue(<<"map", st.tail>>, k)
<1>1. st.list \in Seq(Entry)
  BY DEF ReadyStore
<1>2. stops \in SUBSET Nat
  <2>1. \A s \in Seq(Entry) : DOMAIN s \in SUBSET Nat
    OBVIOUS
  <2>2. DOMAIN st.list \in SUBSET Nat
    BY <1>1, <2>1
  <2>3. QED
    BY <2>2 DEF StopsFor
<1>3. last = GetFrom(st.tail, k, FALSE)
  BY DEF ReplyValue, Reply
<1>4. SearchValue(k, st) =
        CASE stops # {}                  -> ReplyValue(st.list[Min(stops)], k)
          [] stops = {} /\ st.tail = Nil -> IF st.list = <<>> THEN Error ELSE Nil
          [] stops = {} /\ st.tail # Nil -> IF last = Nil /\ st.list # <<>> THEN Crash ELSE last
  BY <1>3 DEF SearchValue, SearchStore, ReplyValue, StopsFor
<1>5. stops # {} => Min(stops) \in stops
  <2> HIDE DEF stops
  <2>1. QED
    BY <1>2, MinFacts
<1> HIDE DEF stops, last
<1>6. QED
  BY <1>4, <1>5 DEF stops, last

LEMMA SearchTyped ==
  ASSUME NEW st, ReadyStore(st), NEW k \in Name
  PROVE  SearchValue(k, st) \in Value \cup {Error, Crash}
<1> DEFINE stops == StopsFor(st.list, k)
           last == ReplyValue(<<"map", st.tail>>, k)
<1>1. stops # {} => st.list[Min(stops)] \in Entry /\ ReadyEntry(st.list[Min(stops)])
  <2>1. stops # {} => Min(stops) \in DOMAIN st.list
    BY SearchCases DEF StopsFor
  <2>2. QED
    BY <2>1 DEF ReadyStore, ReadyEntry
<1>2. st.tail # Nil => last \in Value \cup {Error, Crash}
  <2>1. st.tail # Nil => ReadyEntry(<<"map", st.tail>>)
    BY DEF ReadyStore, ReadyEntry, Entry
  <2>2. QED
    BY <2>1, EntryReplies
<1>3. stops # {} => ReplyValue(st.list[Min(stops)], k) \in Value \cup {Error, Crash}
  BY <1>1, EntryReplies
<1>4. QED
  BY <1>2, <1>3, SearchCases, NameFacts

-----------------------------------------------------------------------------
(* Environments.                                                           *)

EnvFormed(env) ==
  /\ env \in Seq(Entry) /\ env # <<>> /\ env[Len(env)] = <<"map", Oblist>>
  /\ \A i \in 1 .. Len(env) - 1 : env[i][1] = "pair"

OblistReady == Oblist \in Map /\ Ready(Oblist) /\ size[Oblist] > 0

LocalHits(env, k) == {i \in DOMAIN env : env[i][1] = "pair" /\ env[i][2] = k}

LEMMA LocalCases ==
  ASSUME NEW env \in Seq(Entry), NEW k \in Name
  PROVE  LET hits == LocalHits(env, k)
         IN  /\ hits \in SUBSET (1 .. Len(env))
             /\ (hits = {} => LocalBinding(env, k) = Unbound)
             /\ (hits # {} => /\ Min(hits) \in hits /\ \A i \in hits : Min(hits) <= i
                              /\ LocalBinding(env, k) = env[Min(hits)][3]
                              /\ LocalBinding(env, k) \in Value)
<1> DEFINE hits == LocalHits(env, k)
<1>1. hits \in SUBSET (1 .. Len(env)) /\ hits \in SUBSET Nat
  BY DEF LocalHits
<1>2. LocalBinding(env, k) = IF hits = {} THEN Unbound ELSE env[Min(hits)][3]
  BY DEF LocalBinding, LocalHits
<1>3. hits # {} => Min(hits) \in hits /\ \A i \in hits : Min(hits) <= i
  <2> HIDE DEF hits
  <2>1. QED
    BY <1>1, MinFacts
<1>4. \A i \in hits : env[i] \in Entry /\ env[i][1] = "pair"
  BY DEF LocalHits
<1>5. \A i \in hits : env[i][3] \in Value
  BY <1>4, EntryFacts
<1> HIDE DEF hits
<1>6. QED
  BY <1>1, <1>2, <1>3, <1>5 DEF hits

(* What a name is bound to in an environment: locally, or in the oblist. *)
ValueHere(env, k) ==
  IF LocalBinding(env, k) # Unbound THEN LocalBinding(env, k)
  ELSE Bound(bucket[Oblist], size[Oblist], k)

(* search_store in an environment that has a local binding finds it; in one
   that has none it comes to the oblist.                                   *)
LEMMA SearchEnv ==
  ASSUME OblistReady, NEW env, EnvFormed(env), NEW k \in Name
  PROVE  LET b   == Bound(bucket[Oblist], size[Oblist], k)
             st  == StoreOf(env, Nil)
         IN  /\ (ValueHere(env, k) # Unbound => /\ SearchKey(k, st) = k
                                                /\ SearchValue(k, st) = ValueHere(env, k))
             /\ (ValueHere(env, k) = Unbound => SearchKey(k, st) \in {Nil, Error})
             /\ ValueHere(env, k) \in Value \cup {Unbound}
<1> DEFINE b == Bound(bucket[Oblist], size[Oblist], k)
           st == StoreOf(env, Nil)
           N == Len(env)
           far == <<"map", Oblist>>
           hits == LocalHits(env, k)
           keyStops == {i \in DOMAIN env : Stops(env[i], k, TRUE)}
           valueStops == StopsFor(env, k)
           local == LocalBinding(env, k)
<1>1. /\ env \in Seq(Entry) /\ N \in Nat \ {0} /\ DOMAIN env = 1 .. N /\ env[N] = far
      /\ \A i \in 1 .. N - 1 : env[i][1] = "pair" /\ env[i] \in Entry
  BY DEF EnvFormed
<1>2. /\ (b # Unbound => ReplyValue(far, k) = b /\ ReplyKey(far, k) = k)
      /\ (b = Unbound => ReplyValue(far, k) \in {Nil, Error} /\ ReplyKey(far, k) = ReplyValue(far, k))
      /\ b \in Value \cup {Unbound}
  <2>1. Oblist \in Map /\ Ready(Oblist) /\ size[Oblist] # 0
    BY NameFacts DEF OblistReady, Ready
  <2>2. QED
    BY <2>1, MapReplies
<1>3. ASSUME NEW i \in 1 .. N - 1
      PROVE  /\ i \in 1 .. N
             /\ (i \in keyStops <=> i \in hits) /\ (i \in valueStops <=> i \in hits)
             /\ ReplyKey(env[i], k) = k /\ ReplyValue(env[i], k) = env[i][3]
  <2>1. i \in 1 .. N /\ env[i][1] = "pair" /\ ReadyEntry(env[i])
    BY <1>1 DEF ReadyEntry
  <2>2. /\ Stops(env[i], k, TRUE) <=> env[i][2] = k
        /\ Stops(env[i], k, FALSE) <=> env[i][2] = k
    BY <2>1 DEF Stops
  <2>3. QED
    BY <1>1, <2>1, <2>2, EntryReplies DEF LocalHits, StopsFor
<1>4. /\ N \notin hits
      /\ (N \in keyStops <=> ReplyKey(far, k) # Nil) /\ (N \in valueStops <=> ReplyValue(far, k) # Nil)
  <2>1. env[N][1] = "map" /\ N \in DOMAIN env
    BY <1>1
  <2>2. /\ Stops(env[N], k, TRUE) <=> ReplyKey(env[N], k) # Nil
        /\ Stops(env[N], k, FALSE) <=> ReplyValue(env[N], k) # Nil
    BY <2>1 DEF Stops, ReplyKey, ReplyValue
  <2>3. QED
    BY <1>1, <2>1, <2>2 DEF LocalHits, StopsFor
<1>5. /\ SearchKey(k, st) = IF keyStops # {} THEN ReplyKey(env[Min(keyStops)], k) ELSE Nil
      /\ SearchValue(k, st) = IF valueStops # {} THEN ReplyValue(env[Min(valueStops)], k) ELSE Nil
  <2>1. st.list = env /\ st.tail = Nil /\ env # <<>>
    BY DEF StoreOf, EnvFormed
  <2>2. QED
    BY <2>1 DEF SearchKey, SearchValue, SearchStore, ReplyKey, ReplyValue, StopsFor
<1>6. keyStops \in SUBSET (1 .. N) /\ valueStops \in SUBSET (1 .. N) /\ hits \in SUBSET (1 .. N)
  BY <1>1 DEF StopsFor, LocalHits
<1>7. /\ (hits = {} => local = Unbound)
      /\ (hits # {} => /\ Min(hits) \in hits /\ \A i \in hits : Min(hits) <= i
                       /\ local = env[Min(hits)][3] /\ local \in Value)
  BY <1>1, LocalCases
<1> HIDE DEF keyStops, valueStops, hits, b, st, N, far, local
<1>8. ASSUME NEW A \in SUBSET (1 .. N), A # {}
      PROVE  Min(A) \in A /\ \A i \in A : Min(A) <= i
  <2>1. A \in SUBSET Nat
    BY <1>1
  <2>2. QED
    BY <1>8, <2>1, MinFacts
<1>9. CASE hits # {}
  <2> DEFINE i == Min(hits)
  <2>1. i \in 1 .. N - 1 /\ i \in hits
    <3>1. i \in 1 .. N /\ i # N /\ i \in hits
      BY <1>4, <1>6, <1>7, <1>9
    <3>2. QED
      BY <1>1, <3>1
  <2>2. ASSUME NEW A \in SUBSET (1 .. N), \A j \in 1 .. N - 1 : j \in A <=> j \in hits
        PROVE  A # {} /\ Min(A) = i
    <3>1. i \in A
      BY <2>1, <2>2
    <3>2. Min(A) \in A /\ Min(A) <= i /\ Min(A) \in 1 .. N
      BY <1>8, <3>1
    <3> HIDE DEF i
    <3>3. Min(A) \in 1 .. N - 1
      BY <1>1, <2>1, <3>2
    <3>4. Min(A) \in hits
      BY <2>2, <3>2, <3>3
    <3>5. i <= Min(A)
      BY <1>7, <1>9, <3>4 DEF i
    <3>6. QED
      BY <1>1, <2>1, <3>1, <3>2, <3>3, <3>5
  <2>3. keyStops # {} /\ Min(keyStops) = i /\ valueStops # {} /\ Min(valueStops) = i
    <3> HIDE DEF i
    <3>1. QED
      BY <1>3, <1>6, <2>2
  <2>4. SearchKey(k, st) = k /\ SearchValue(k, st) = env[i][3]
    <3> HIDE DEF i
    <3>1. QED
      BY <1>3, <1>5, <2>1, <2>3
  <2>5. local # Unbound /\ ValueHere(env, k) = local
    BY <1>7, <1>9, NameFacts DEF ValueHere, local
  <2>6. QED
    BY <1>7, <1>9, <2>4, <2>5 DEF st
<1>10. CASE hits = {}
  <2>1. ValueHere(env, k) = b
    BY <1>7, <1>10 DEF ValueHere, b, local
  <2>2. ASSUME NEW A \in SUBSET (1 .. N), \A j \in 1 .. N - 1 : j \in A <=> j \in hits
        PROVE  A = {} \/ Min(A) = N
    <3>1. \A j \in A : j = N
      <4>1. \A j \in 1 .. N : j = N \/ j \in 1 .. N - 1
        BY <1>1
      <4>2. QED
        BY <1>10, <2>2, <4>1
    <3>2. QED
      BY <1>8, <3>1
  <2>3. /\ keyStops = {} \/ Min(keyStops) = N
        /\ valueStops = {} \/ Min(valueStops) = N
    BY <1>3, <1>6, <2>2
  <2>4. /\ SearchKey(k, st) = ReplyKey(far, k)
        /\ SearchValue(k, st) = ReplyValue(far, k)
    <3>1. CASE keyStops = {}
      <4>1. ReplyKey(far, k) = Nil
        BY <1>4, <3>1
      <4>2. SearchKey(k, st) = Nil
        BY <1>5, <3>1
      <4>3. QED
        BY <1>1, <1>4, <1>5, <2>3, <4>1, <4>2
    <3>2. CASE keyStops # {}
      BY <1>1, <1>4, <1>5, <2>3, <3>2
    <3>3. QED
      BY <3>1, <3>2
  <2>5. QED
    BY <1>2, <2>1, <2>4 DEF st, b
<1>11. QED
  BY <1>9, <1>10

(* Evaluating a symbol: its value here, or an exception. *)
EvalAnswer(k, st) ==
  IF SearchKey(k, st) \in {Nil, Error} THEN Error ELSE SearchValue(SearchKey(k, st), st)

LEMMA EvalFacts ==
  ASSUME OblistReady, NEW env, EnvFormed(env), NEW k \in Name
  PROVE  /\ EvalAnswer(k, StoreOf(env, Nil)) =
              IF ValueHere(env, k) = Unbound THEN Error ELSE ValueHere(env, k)
         /\ ValueHere(env, k) \in Value \cup {Unbound}
<1> DEFINE st == StoreOf(env, Nil)
<1>1. /\ (ValueHere(env, k) # Unbound => /\ SearchKey(k, st) = k
                                         /\ SearchValue(k, st) = ValueHere(env, k))
      /\ (ValueHere(env, k) = Unbound => SearchKey(k, st) \in {Nil, Error})
      /\ ValueHere(env, k) \in Value \cup {Unbound}
  BY SearchEnv
<1> HIDE DEF st
<1>2. k \notin {Nil, Error}
  BY NameFacts
<1>3. QED
  BY <1>1, <1>2 DEF EvalAnswer, st

-----------------------------------------------------------------------------
(***************************************************************************)
(* The inductive invariant.  TypeOK and PairsInTheirBucket alone are not   *)
(* inductive: that a pair is put where it is looked for needs the number   *)
(* of buckets of a map that has been made, so that what a store holds must *)
(* be maps that have been; and that evaluation does not run off the end of *)
(* an environment needs the oblist at the end of each.                     *)
(***************************************************************************)
MapsPlaced ==
  /\ size \in [Map -> Width \cup {Unmade}] /\ size[Oblist] = OblistSize
  /\ bucket \in [Map -> Buckets]
  /\ \A m \in Map : bucket[m] \in Placed(size[m])

ScopesFormed ==
  /\ envs \in Seq(Seq(Entry)) /\ envs # <<>>
  /\ \A i \in DOMAIN envs : EnvFormed(envs[i])

MadeEntry(e) == e \in Entry /\ (e[1] = "map" => Made(e[2]))
StoreMade ==
  /\ store \in [list : Seq(Entry), tail : Map \cup {Nil}]
  /\ \A i \in DOMAIN store.list : MadeEntry(store.list[i])
  /\ (store.tail # Nil => Made(store.tail))

Answered ==
  /\ answer \in Value \cup {Error, Nothing}
  /\ status \in {"running", "crashed"}

NamesInv == MapsPlaced /\ ScopesFormed /\ StoreMade /\ Answered

LEMMA InvMeans ==
  ASSUME NamesInv
  PROVE  TypeOK /\ PairsInTheirBucket
<1>1. TypeOK
  <2>1. size \in [Map -> Sizes \cup {OblistSize, Unmade}]
    BY DEF NamesInv, MapsPlaced, Width
  <2>2. bucket \in [Map -> [BucketNo -> Seq((Name \cup {Nil}) \X Value)]]
    BY DEF NamesInv, MapsPlaced, Buckets, Chain, Key
  <2>3. QED
    BY <2>1, <2>2 DEF NamesInv, ScopesFormed, StoreMade, Answered, TypeOK
<1>2. PairsInTheirBucket
  BY DEF NamesInv, MapsPlaced, Placed, InPlace, PairsInTheirBucket
<1>3. QED
  BY <1>1, <1>2

LEMMA MadeIsReady ==
  ASSUME MapsPlaced, NEW m \in Map, Made(m)
  PROVE  Ready(m)
BY DEF MapsPlaced, Made, Ready

LEMMA OblistIsReady ==
  ASSUME MapsPlaced
  PROVE  OblistReady /\ Made(Oblist)
<1>1. Oblist \in Map /\ OblistSize \in Nat \ {0} /\ OblistSize # Unmade /\ OblistSize > 0
  BY DEF Unmade
<1>2. QED
  BY <1>1, MadeIsReady DEF MapsPlaced, OblistReady, Made

LEMMA StoreIsReady ==
  ASSUME MapsPlaced, StoreMade
  PROVE  ReadyStore(store) /\ ReadyStore(OrOblist(store))
<1>1. ReadyStore(store)
  <2>1. ASSUME NEW e, MadeEntry(e)
        PROVE  ReadyEntry(e)
    <3>1. e[1] = "map" => e[2] \in Map /\ Made(e[2])
      BY <2>1, EntryFacts DEF MadeEntry
    <3>2. QED
      BY <2>1, <3>1, MadeIsReady DEF ReadyEntry, MadeEntry
  <2>2. store.tail # Nil => store.tail \in Map /\ Ready(store.tail)
    BY MadeIsReady DEF StoreMade
  <2>3. QED
    BY <2>1, <2>2 DEF StoreMade, ReadyStore
<1>2. ReadyStore(MapOnly(Oblist))
  <2>1. Ready(Oblist)
    BY OblistIsReady DEF OblistReady
  <2>2. <<>> \in Seq(Entry) /\ DOMAIN <<>> = {}
    OBVIOUS
  <2>3. QED
    BY <2>1, <2>2 DEF ReadyStore, MapOnly, StoreOf
<1>3. QED
  BY <1>1, <1>2 DEF OrOblist

(* One map has changed: it, and all the others, are still in order. *)
LEMMA MapsStayPlaced ==
  ASSUME MapsPlaced, NEW m \in Map, NEW n \in Width \cup {Unmade}, m = Oblist => n = OblistSize,
         NEW ch \in Placed(n),
         size' = [size EXCEPT ![m] = n], bucket' = [bucket EXCEPT ![m] = ch]
  PROVE  MapsPlaced'
<1>1. ch \in Buckets
  BY DEF Placed
<1>2. /\ size' \in [Map -> Width \cup {Unmade}] /\ size'[Oblist] = OblistSize
      /\ bucket' \in [Map -> Buckets]
  BY <1>1 DEF MapsPlaced
<1>3. \A x \in Map : bucket'[x] \in Placed(size'[x])
  BY DEF MapsPlaced
<1>4. QED
  BY <1>2, <1>3 DEF MapsPlaced

LEMMA BucketsStayPlaced ==
  ASSUME MapsPlaced, NEW m \in Map, NEW ch \in Placed(size[m]),
         size' = size, bucket' = [bucket EXCEPT ![m] = ch]
  PROVE  MapsPlaced'
<1>1. bucket' \in [Map -> Buckets]
  BY DEF MapsPlaced, Placed
<1>2. \A x \in Map : bucket'[x] \in Placed(size'[x])
  BY DEF MapsPlaced
<1>3. QED
  BY <1>1, <1>2 DEF MapsPlaced

LEMMA MadeStaysMade ==
  ASSUME StoreMade, store' = store, \A m \in Map : Made(m) => size'[m] # Unmade
  PROVE  StoreMade'
<1>1. ASSUME NEW e, MadeEntry(e)
      PROVE  MadeEntry(e)'
  <2>1. e[1] = "map" => e[2] \in Map
    BY <1>1, EntryFacts DEF MadeEntry
  <2>2. QED
    BY <1>1, <2>1 DEF MadeEntry, Made
<1>2. \A i \in DOMAIN store.list : MadeEntry(store.list[i])'
  BY <1>1 DEF StoreMade
<1>3. store.tail # Nil => store.tail \in Map /\ size'[store.tail] # Unmade
  BY DEF StoreMade
<1>4. QED
  BY <1>2, <1>3 DEF StoreMade, MadeEntry, Made

(* The parts of a step that leaves something alone. *)
LEMMA Untouched ==
  /\ (NamesInv /\ envs' = envs => ScopesFormed')
  /\ (NamesInv /\ UNCHANGED <<size, bucket>> => MapsPlaced')
  /\ (NamesInv /\ UNCHANGED <<size, store>> => StoreMade')
<1>1. ASSUME NamesInv, envs' = envs PROVE ScopesFormed'
  BY <1>1 DEF NamesInv, ScopesFormed, EnvFormed
<1>2. ASSUME NamesInv, UNCHANGED <<size, bucket>> PROVE MapsPlaced'
  BY <1>2 DEF NamesInv, MapsPlaced
<1>3. ASSUME NamesInv, UNCHANGED <<size, store>> PROVE StoreMade'
  BY <1>3 DEF NamesInv, StoreMade, MadeEntry, Made
<1>4. QED
  BY <1>1, <1>2, <1>3

LEMMA StutterKeeps ==
  ASSUME NamesInv, UNCHANGED <<size, bucket, envs, store, answer>>, status' \in {"running", "crashed"}
  PROVE  NamesInv'
BY Untouched DEF NamesInv, Answered

-----------------------------------------------------------------------------
(* One lemma per kind of step.                                             *)

LEMMA ItemsFacts ==
  ASSUME StoreMade
  PROVE  LET items == ItemsOf(store)
             N     == Len(store.list)
         IN  /\ items \in Seq(Key \X Value) /\ N \in Nat /\ DOMAIN store.list = 1 .. N
             /\ Len(items) \in {N, N + 1}
             /\ \A i \in 1 .. N : items[i] = IF store.list[i][1] = "pair"
                                             THEN <<store.list[i][2], store.list[i][3]>>
                                             ELSE <<Nil, Nil>>
             /\ Len(items) = N + 1 => items[N + 1] = <<Nil, Nil>>
<1> DEFINE list == store.list
           N == Len(list)
           first == [i \in DOMAIN list |-> IF list[i][1] = "pair"
                                           THEN <<list[i][2], list[i][3]>> ELSE <<Nil, Nil>>]
           rest == IF store.tail = Nil THEN <<>> ELSE Cell(Nil, Nil)
           items == ItemsOf(store)
<1>1. items = first \o rest
  BY DEF ItemsOf
<1>2. list \in Seq(Entry)
  BY DEF StoreMade
<1> HIDE DEF list
<1>3. N \in Nat /\ DOMAIN list = 1 .. N /\ \A i \in 1 .. N : list[i] \in Entry
  BY <1>2
<1>4. Nil \in Value /\ Nil \in Key /\ \A k \in Name : k \in Key
  BY NameFacts DEF Key
<1>5. \A i \in 1 .. N : first[i] \in Key \X Value
  BY <1>3, <1>4, EntryFacts
<1>6. first \in Seq(Key \X Value) /\ Len(first) = N
  <2>1. first \in [1 .. N -> Key \X Value]
    BY <1>3, <1>5
  <2> HIDE DEF first, N
  <2>2. QED
    BY <1>3, <2>1
<1>7. rest = <<>> \/ rest = <<<<Nil, Nil>>>>
  BY DEF Cell
<1>8. rest \in Seq(Key \X Value)
  <2> HIDE DEF rest
  <2>1. <<Nil, Nil>> \in Key \X Value
    BY <1>4
  <2>2. <<>> \in Seq(Key \X Value) /\ <<<<Nil, Nil>>>> \in Seq(Key \X Value)
    BY <2>1
  <2>3. QED
    BY <1>7, <2>2
<1>9. \A i \in 1 .. N : first[i] = IF list[i][1] = "pair" THEN <<list[i][2], list[i][3]>> ELSE <<Nil, Nil>>
  BY <1>3
<1> HIDE DEF first, rest, N, items
<1>10. /\ items \in Seq(Key \X Value) /\ Len(items) = N + Len(rest)
       /\ \A i \in 1 .. N : items[i] = first[i]
       /\ \A i \in 1 .. Len(rest) : items[N + i] = rest[i]
  BY <1>1, <1>6, <1>8
<1>11. Len(rest) = 0 \/ (Len(rest) = 1 /\ rest[1] = <<Nil, Nil>>)
  BY <1>7
<1>12. Len(items) \in {N, N + 1} /\ (Len(items) = N + 1 => items[N + 1] = <<Nil, Nil>>)
  BY <1>3, <1>10, <1>11
<1>13. QED
  BY <1>3, <1>9, <1>10, <1>12 DEF list, N, items

LEMMA FilledWithNothing == \A n : Filled(n, <<>>) = Empty
<1> TAKE n
<1> DEFINE F == FillStages(n, <<>>)
           f == [i \in 0 .. Len(<<>>) |-> Empty]
<1>1. f = [i \in 0 .. Len(<<>>) |->
             IF i = 0 THEN Empty
             ELSE [f[i - 1] EXCEPT ![BucketFor(<<>>[i][1], n)] = <<<<>>[i]>> \o @]]
  BY Len(<<>>) = 0, \A i \in 0 .. 0 : i = 0
<1>2. F = [i \in 0 .. Len(<<>>) |->
             IF i = 0 THEN Empty
             ELSE [F[i - 1] EXCEPT ![BucketFor(<<>>[i][1], n)] = <<<<>>[i]>> \o @]]
  BY <1>1 DEF FillStages
<1>3. Filled(n, <<>>) = F[0]
  BY DEF Filled, FillStages
<1>4. F[0] = Empty
  <2>1. Len(<<>>) = 0 /\ 0 \in 0 .. Len(<<>>)
    OBVIOUS
  <2> HIDE DEF F
  <2>2. QED
    BY <1>2, <2>1
<1>5. QED
  BY <1>3, <1>4

LEMMA FilledPlaced ==
  ASSUME NEW n \in Width, NEW items \in Seq(Key \X Value), ~ (n = 0 /\ items # <<>>)
  PROVE  Filled(n, items) \in Placed(n)
<1>1. CASE n = 0
  BY <1>1, FilledWithNothing, EmptyFacts DEF Placed
<1>2. CASE n # 0
  <2>1. n > 0
    BY <1>2, NameFacts
  <2>2. QED
    BY <2>1, FilledFacts
<1>3. QED
  BY <1>1, <1>2

LEMMA PutAllIntoPlaced ==
  ASSUME MapsPlaced, StoreMade, NEW m \in Map, Made(m), size[m] # 0
  PROVE  PutAllInto(m) \in Placed(size[m])
<1>1. Ready(m) /\ size[m] > 0 /\ bucket[m] \in Placed(size[m])
  BY MadeIsReady, NameFacts DEF Ready
<1>2. ReadyStore(store)
  BY StoreIsReady
<1>3. CASE store.list = <<>> /\ store.tail = Nil
  BY <1>1, <1>3 DEF PutAllInto
<1>4. CASE store.list = <<>> /\ store.tail # Nil
  <2>1. store.tail \in Map /\ Ready(store.tail)
    BY <1>2, <1>4 DEF ReadyStore
  <2>2. PutAllInto(m) = PutMap(m, bucket[m], store.tail)
    BY <1>4 DEF PutAllInto
  <2>3. QED
    BY <1>1, <2>1, <2>2, PutMapFacts
<1>5. CASE store.list # <<>>
  <2>1. store.list \in Seq(Entry) /\ \A i \in DOMAIN store.list : ReadyEntry(store.list[i])
    BY <1>2 DEF ReadyStore
  <2>2. PutAllInto(m) = PutList(m, bucket[m], store.list)
    BY <1>5 DEF PutAllInto
  <2>3. QED
    BY <1>1, <2>1, <2>2, PutListFacts
<1>6. QED
  BY <1>3, <1>4, <1>5

LEMMA DeepBindKeeps ==
  ASSUME NamesInv, NEW k \in Name, NEW v \in Value, DeepBind(k, v)
  PROVE  NamesInv'
<1> DEFINE ch == HashmapPut(bucket[Oblist], size[Oblist], k, v)
<1>1. bucket' = [bucket EXCEPT ![Oblist] = ch] /\ answer' = Nothing /\ UNCHANGED <<size, envs, store, status>>
  BY DEF DeepBind
<1>2. ch \in Placed(size[Oblist])
  BY OblistIsReady, HashmapPutFacts DEF OblistReady, Ready, NamesInv, Key
<1> HIDE DEF ch
<1>3. MapsPlaced'
  BY <1>1, <1>2, BucketsStayPlaced DEF NamesInv
<1>4. ScopesFormed' /\ StoreMade'
  BY <1>1, Untouched
<1>5. QED
  BY <1>1, <1>3, <1>4 DEF NamesInv, Answered

LEMMA DiesKeeps ==
  ASSUME NamesInv, Dies
  PROVE  NamesInv'
BY StutterKeeps DEF Dies

LEMMA PutShriekKeeps ==
  ASSUME NamesInv, NEW m \in Map, NEW k \in Name, NEW v \in Value, PutShriek(m, k, v)
  PROVE  NamesInv'
<1>1. CASE size[m] = 0
  BY <1>1, DiesKeeps DEF PutShriek
<1>2. CASE size[m] # 0
  <2> DEFINE ch == HashmapPut(bucket[m], size[m], k, v)
  <2>1. /\ Made(m) /\ bucket' = [bucket EXCEPT ![m] = ch] /\ answer' = Nothing
        /\ UNCHANGED <<size, envs, store, status>>
    BY <1>2 DEF PutShriek
  <2>2. Ready(m) /\ size[m] > 0 /\ k \in Key
    BY <1>2, <2>1, MadeIsReady, NameFacts DEF NamesInv, Ready, Key
  <2>3. ch \in Placed(size[m])
    BY <2>2, HashmapPutFacts DEF Ready
  <2> HIDE DEF ch
  <2>4. MapsPlaced'
    BY <2>1, <2>3, BucketsStayPlaced DEF NamesInv
  <2>5. ScopesFormed' /\ StoreMade'
    BY <2>1, Untouched
  <2>6. QED
    BY <2>1, <2>4, <2>5 DEF NamesInv, Answered
<1>3. QED
  BY <1>1, <1>2

LEMMA MakeHashmapKeeps ==
  ASSUME NamesInv, NEW m \in Map, NEW n \in Sizes, NEW items \in Seq(Key \X Value),
         MakeHashmap(m, n, items)
  PROVE  NamesInv'
<1>1. CASE n = 0 /\ items # <<>>
  BY <1>1, DiesKeeps DEF MakeHashmap
<1>2. CASE ~ (n = 0 /\ items # <<>>)
  <2> DEFINE ch == Filled(n, items)
  <2>1. /\ ~ Made(m) /\ size' = [size EXCEPT ![m] = n] /\ bucket' = [bucket EXCEPT ![m] = ch]
        /\ answer' = Nothing /\ UNCHANGED <<envs, store, status>>
    BY <1>2 DEF MakeHashmap
  <2>2. n \in Width /\ n # Unmade /\ ch \in Placed(n) /\ m # Oblist
    <3>1. n \in Width /\ n \in Nat
      BY DEF Width
    <3>2. m # Oblist
      BY <2>1, OblistIsReady DEF NamesInv
    <3>3. QED
      BY <1>2, <3>1, <3>2, FilledPlaced DEF Unmade
  <2> HIDE DEF ch
  <2>3. MapsPlaced'
    BY <2>1, <2>2, MapsStayPlaced DEF NamesInv
  <2>4. StoreMade'
    <3>1. \A x \in Map : Made(x) => size'[x] # Unmade
      BY <2>1, <2>2 DEF Made, NamesInv, MapsPlaced
    <3>2. QED
      BY <2>1, <3>1, MadeStaysMade DEF NamesInv
  <2>5. ScopesFormed'
    BY <2>1, Untouched
  <2>6. QED
    BY <2>1, <2>3, <2>4, <2>5 DEF NamesInv, Answered
<1>3. QED
  BY <1>1, <1>2

LEMMA PutAllKeeps ==
  ASSUME NamesInv, NEW m \in Map, PutAll(m)
  PROVE  NamesInv'
<1>1. CASE size[m] = 0 /\ PutsAnything
  BY <1>1, DiesKeeps DEF PutAll
<1>2. CASE size[m] = 0 /\ ~ PutsAnything
  <2>1. answer' = Nothing /\ UNCHANGED <<size, bucket, envs, store, status>>
    BY <1>2 DEF PutAll
  <2>2. QED
    BY <2>1, Untouched DEF NamesInv, Answered
<1>3. CASE size[m] # 0
  <2> DEFINE ch == PutAllInto(m)
  <2>1. /\ Made(m) /\ bucket' = [bucket EXCEPT ![m] = ch] /\ answer' = Nothing
        /\ UNCHANGED <<size, envs, store, status>>
    BY <1>3 DEF PutAll
  <2>2. ch \in Placed(size[m])
    BY <1>3, <2>1, PutAllIntoPlaced DEF NamesInv
  <2> HIDE DEF ch
  <2>3. MapsPlaced'
    BY <2>1, <2>2, BucketsStayPlaced DEF NamesInv
  <2>4. ScopesFormed' /\ StoreMade'
    BY <2>1, Untouched
  <2>5. QED
    BY <2>1, <2>3, <2>4 DEF NamesInv, Answered
<1>4. QED
  BY <1>1, <1>2, <1>3

LEMMA StoreKeeps ==
  ASSUME NamesInv, \/ \E tail \in Map \cup {Nil} : StartStore(tail)
                   \/ \E e \in Entry : Extend(e)
  PROVE  NamesInv'
<1>1. answer' = Nothing /\ UNCHANGED <<size, bucket, envs, status>>
  BY DEF StartStore, Extend
<1>2. StoreMade'
  <2>1. ASSUME NEW tail \in Map \cup {Nil}, StartStore(tail)
        PROVE  StoreMade'
    <3>1. store' = StoreOf(<<>>, tail) /\ (tail # Nil => Made(tail)) /\ size' = size
      BY <2>1 DEF StartStore
    <3>2. <<>> \in Seq(Entry) /\ DOMAIN <<>> = {}
      OBVIOUS
    <3>3. QED
      BY <3>1, <3>2 DEF StoreMade, StoreOf, Made
  <2>2. ASSUME NEW e \in Entry, Extend(e)
        PROVE  StoreMade'
    <3> DEFINE more == <<e>> \o store.list
    <3>1. store' = [store EXCEPT !.list = more] /\ MadeEntry(e) /\ size' = size
      BY <2>2 DEF Extend, MadeEntry
    <3>2. store.list \in Seq(Entry) /\ \A i \in DOMAIN store.list : MadeEntry(store.list[i])
      BY DEF NamesInv, StoreMade
    <3> DEFINE list == store.list
    <3>3. /\ more \in Seq(Entry) /\ more[1] = e /\ DOMAIN more = 1 .. Len(list) + 1
          /\ DOMAIN list = 1 .. Len(list) /\ Len(list) \in Nat
          /\ \A i \in 1 .. Len(list) : more[i + 1] = list[i]
      <4>1. list \in Seq(Entry)
        BY <3>2
      <4> HIDE DEF list
      <4>2. <<e>> \o list \in Seq(Entry) /\ Len(<<e>> \o list) = Len(list) + 1
        BY <4>1
      <4>3. QED
        BY <4>1, <4>2 DEF list
    <3>4. \A i \in DOMAIN more : MadeEntry(more[i])
      <4> HIDE DEF more
      <4>1. ASSUME NEW i \in DOMAIN more
            PROVE  i = 1 \/ (i - 1 \in DOMAIN list /\ more[i] = list[i - 1])
        <5> HIDE DEF list
        <5>1. i = 1 \/ (i - 1 \in 1 .. Len(list) /\ i = (i - 1) + 1)
          BY <3>3
        <5>2. QED
          BY <3>3, <5>1
      <4>2. QED
        BY <3>1, <3>2, <3>3, <4>1
    <3> HIDE DEF more
    <3>5. /\ store'.list = more /\ store'.tail = store.tail
          /\ store' \in [list : Seq(Entry), tail : Map \cup {Nil}]
      BY <3>1, <3>3 DEF NamesInv, StoreMade
    <3>6. \A i \in DOMAIN more :
            more[i] \in Entry /\ (more[i][1] = "map" => size'[more[i][2]] # Unmade)
      BY <3>1, <3>4 DEF MadeEntry, Made
    <3>7. \A i \in DOMAIN store'.list : MadeEntry(store.list[i])'
      BY <3>5, <3>6 DEF MadeEntry, Made
    <3>8. store'.tail # Nil => Made(store.tail)'
      BY <3>1, <3>5 DEF NamesInv, StoreMade, Made
    <3>9. QED
      BY <3>5, <3>7, <3>8 DEF StoreMade
  <2>3. QED
    BY <2>1, <2>2
<1>3. MapsPlaced' /\ ScopesFormed'
  BY <1>1, Untouched
<1>4. QED
  BY <1>1, <1>2, <1>3 DEF NamesInv, Answered

(* The environments of the scopes within one another. *)
LEMMA PairInFront ==
  ASSUME NEW env, EnvFormed(env), NEW k \in Name, NEW v \in Value
  PROVE  EnvFormed(<<Pair(k, v)>> \o env)
<1> DEFINE more == <<Pair(k, v)>> \o env
           N == Len(env)
<1>1. Pair(k, v) \in Entry /\ Pair(k, v)[1] = "pair"
  BY DEF Pair, Entry
<1>2. env \in Seq(Entry) /\ N \in Nat \ {0} /\ env[N] = <<"map", Oblist>>
  BY DEF EnvFormed
<1>3. /\ more \in Seq(Entry) /\ Len(more) = N + 1 /\ more[1] = Pair(k, v)
      /\ \A i \in 1 .. N : more[i + 1] = env[i]
  BY <1>1, <1>2
<1> HIDE DEF more
<1>4. more # <<>> /\ more[Len(more)] = <<"map", Oblist>>
  BY <1>2, <1>3
<1>5. ASSUME NEW i \in 1 .. Len(more) - 1
      PROVE  more[i][1] = "pair"
  <2>1. i = 1 \/ (i - 1 \in 1 .. N - 1 /\ i - 1 \in 1 .. N /\ i = (i - 1) + 1)
    BY <1>2, <1>3
  <2>2. i # 1 => more[i] = env[i - 1] /\ env[i - 1][1] = "pair"
    BY <1>3, <2>1 DEF EnvFormed
  <2>3. QED
    BY <1>1, <1>3, <2>1, <2>2
<1>6. QED
  BY <1>3, <1>4, <1>5 DEF EnvFormed, more

LEMMA ScopesKeep ==
  ASSUME NamesInv, EnterScope \/ LeaveScope \/ \E k \in Name, v \in Value : BindLocal(k, v)
  PROVE  NamesInv'
<1> DEFINE D == Len(envs)
<1>1. answer' = Nothing /\ UNCHANGED <<size, bucket, store, status>>
  BY DEF EnterScope, LeaveScope, BindLocal
<1>2. /\ envs \in Seq(Seq(Entry)) /\ D \in Nat \ {0}
      /\ \A i \in 1 .. D : EnvFormed(envs[i]) /\ envs[i] \in Seq(Entry)
  BY DEF NamesInv, ScopesFormed
<1>3. ScopesFormed'
  <2>1. SUFFICES ASSUME NEW E, E = envs'
                 PROVE  /\ E \in Seq(Seq(Entry)) /\ E # <<>>
                        /\ \A i \in DOMAIN E : EnvFormed(E[i])
    BY DEF ScopesFormed, EnvFormed
  <2>2. CASE EnterScope
    <3> DEFINE env == envs[D]
    <3>1. E = Append(envs, env) /\ EnvFormed(env) /\ env \in Seq(Entry)
      BY <1>2, <2>1, <2>2 DEF EnterScope, Last
    <3> HIDE DEF env
    <3>2. /\ E \in Seq(Seq(Entry)) /\ Len(E) = D + 1 /\ E[D + 1] = env
          /\ \A i \in 1 .. D : E[i] = envs[i]
      BY <1>2, <3>1
    <3> HIDE DEF D
    <3>3. E # <<>> /\ \A i \in DOMAIN E : i = D + 1 \/ i \in 1 .. D
      BY <1>2, <3>2
    <3>4. \A i \in DOMAIN E : EnvFormed(E[i])
      BY <1>2, <3>1, <3>2, <3>3
    <3>5. QED
      BY <3>2, <3>3, <3>4
  <2>3. CASE LeaveScope
    <3>1. E = SubSeq(envs, 1, D - 1) /\ D > 1
      BY <2>1, <2>3 DEF LeaveScope, Front
    <3>2. E \in Seq(Seq(Entry)) /\ Len(E) = D - 1 /\ \A i \in 1 .. D - 1 : E[i] = envs[i]
      BY <1>2, <3>1
    <3> HIDE DEF D
    <3>3. E # <<>> /\ \A i \in DOMAIN E : i \in 1 .. D - 1 /\ i \in 1 .. D
      <4>1. D \in Nat /\ D - 1 \in Nat /\ D - 1 > 0
        BY <1>2, <3>1
      <4>2. DOMAIN E = 1 .. D - 1
        BY <3>2
      <4>3. E # <<>>
        BY <3>2, <4>1
      <4>4. QED
        BY <4>1, <4>2, <4>3
    <3>4. \A i \in DOMAIN E : EnvFormed(E[i])
      BY <1>2, <3>2, <3>3
    <3>5. QED
      BY <3>2, <3>3, <3>4
  <2>4. ASSUME NEW k \in Name, NEW v \in Value, BindLocal(k, v)
        PROVE  /\ E \in Seq(Seq(Entry)) /\ E # <<>>
               /\ \A i \in DOMAIN E : EnvFormed(E[i])
    <3> DEFINE env == <<Pair(k, v)>> \o envs[D]
    <3>1. E = [envs EXCEPT ![D] = env]
      BY <2>1, <2>4 DEF BindLocal
    <3>2. EnvFormed(env) /\ env \in Seq(Entry)
      <4>1. EnvFormed(envs[D])
        BY <1>2
      <4>2. EnvFormed(env)
        BY <4>1, PairInFront
      <4>3. QED
        BY <4>2 DEF EnvFormed
    <3> HIDE DEF env
    <3>3. E \in Seq(Seq(Entry)) /\ DOMAIN E = 1 .. D /\ Len(E) = D
      BY <1>2, <3>1, <3>2
    <3>4. \A i \in 1 .. D : EnvFormed(E[i])
      BY <1>2, <3>1, <3>2
    <3>5. QED
      BY <1>2, <3>3, <3>4
  <2>5. QED
    BY <2>2, <2>3, <2>4
<1>4. MapsPlaced' /\ StoreMade'
  BY <1>1, Untouched
<1>5. QED
  BY <1>1, <1>3, <1>4 DEF NamesInv, Answered

LEMMA EnvReady ==
  ASSUME NamesInv
  PROVE  EnvFormed(Last(envs)) /\ Env = StoreOf(Last(envs), Nil) /\ OblistReady
<1>1. envs \in Seq(Seq(Entry)) /\ envs # <<>>
  BY DEF NamesInv, ScopesFormed
<1>2. Len(envs) \in DOMAIN envs
  BY <1>1
<1>3. QED
  BY <1>2, OblistIsReady DEF NamesInv, ScopesFormed, Last, Env

LEMMA EvalKeeps ==
  ASSUME NamesInv, NEW k \in Name, EvalSymbol(k)
  PROVE  NamesInv' /\ answer' = EvalAnswer(k, Env)
<1>1. answer' = EvalAnswer(k, Env) /\ UNCHANGED <<size, bucket, envs, store, status>>
  BY DEF EvalSymbol, EvalAnswer, SearchKey, SearchValue
<1>2. answer' \in Value \cup {Error}
  BY <1>1, EnvReady, EvalFacts
<1>3. MapsPlaced' /\ ScopesFormed' /\ StoreMade'
  BY <1>1, Untouched
<1>4. QED
  BY <1>1, <1>2, <1>3 DEF NamesInv, Answered

LEMMA AssocKeeps ==
  ASSUME NamesInv, NEW k \in Name, Assoc(k)
  PROVE  NamesInv'
<1> DEFINE found == SearchValue(k, OrOblist(store))
<1>1. CASE found = Crash
  BY <1>1, DiesKeeps DEF Assoc, SearchValue
<1>2. CASE found # Crash
  <2>1. answer' = found /\ UNCHANGED <<size, bucket, envs, store, status>>
    BY <1>2 DEF Assoc, SearchValue
  <2>2. found \in Value \cup {Error}
    BY <1>2, StoreIsReady, SearchTyped DEF NamesInv
  <2>3. MapsPlaced' /\ ScopesFormed' /\ StoreMade'
    BY <2>1, Untouched
  <2>4. QED
    BY <2>1, <2>2, <2>3 DEF NamesInv, Answered
<1>3. QED
  BY <1>1, <1>2

LEMMA NamesInit == Init => NamesInv
<1> SUFFICES ASSUME Init PROVE NamesInv
  OBVIOUS
<1>1. MapsPlaced
  <2>1. Empty \in Buckets /\ \A n : Empty \in Placed(n)
    BY EmptyFacts DEF Placed
  <2>2. OblistSize \in Width /\ Oblist \in Map
    BY DEF Width
  <2>3. QED
    BY <2>1, <2>2 DEF Init, MapsPlaced
<1>2. ScopesFormed
  <2>1. Root \in Seq(Entry) /\ Len(Root) = 1 /\ Root[1] = <<"map", Oblist>> /\ Root # <<>>
    BY DEF Root, Entry
  <2>2. EnvFormed(Root)
    BY <2>1 DEF EnvFormed
  <2> HIDE DEF Root
  <2>3. QED
    BY <2>1, <2>2 DEF Init, ScopesFormed
<1>3. StoreMade
  <2>1. <<>> \in Seq(Entry) /\ DOMAIN <<>> = {}
    OBVIOUS
  <2>2. QED
    BY <2>1 DEF Init, StoreMade, NilStore, StoreOf
<1>4. QED
  BY <1>1, <1>2, <1>3 DEF Init, NamesInv, Answered

LEMMA NamesStep ==
  ASSUME NamesInv, [Next]_vars
  PROVE  NamesInv'
<1>1. CASE UNCHANGED vars
  BY <1>1, StutterKeeps DEF vars, NamesInv, Answered
<1>2. ASSUME NEW k \in Name, NEW v \in Value, DeepBind(k, v) PROVE NamesInv'
  BY <1>2, DeepBindKeeps
<1>3. ASSUME NEW m \in Map \ {Oblist}, NEW k \in Name, NEW v \in Value, PutShriek(m, k, v)
      PROVE  NamesInv'
  BY <1>3, PutShriekKeeps
<1>4. ASSUME NEW m \in Map, NEW n \in Sizes, MakeHashmap(m, n, <<>>) PROVE NamesInv'
  <2>1. <<>> \in Seq(Key \X Value)
    OBVIOUS
  <2>2. QED
    BY <1>4, <2>1, MakeHashmapKeeps
<1>5. ASSUME NEW m \in Map, NEW n \in Sizes, MakeHashmap(m, n, ItemsOf(store)) PROVE NamesInv'
  <2>1. ItemsOf(store) \in Seq(Key \X Value)
    BY ItemsFacts DEF NamesInv
  <2>2. QED
    BY <1>5, <2>1, MakeHashmapKeeps
<1>6. ASSUME NEW m \in Map, PutAll(m) PROVE NamesInv'
  BY <1>6, PutAllKeeps
<1>7. ASSUME NEW k \in Name, EvalSymbol(k) PROVE NamesInv'
  BY <1>7, EvalKeeps
<1>8. ASSUME NEW k \in Name, Assoc(k) PROVE NamesInv'
  BY <1>8, AssocKeeps
<1>9. CASE Crashed
  BY <1>1, <1>9 DEF Crashed
<1>10. QED
  BY <1>1, <1>2, <1>3, <1>4, <1>5, <1>6, <1>7, <1>8, <1>9, StoreKeeps, ScopesKeep DEF Next

(* The invariant that the others follow from: in every state the maps have
   their sizes and their pairs placed, the oblist exists, every environment ends
   in the oblist, the store holds maps that were made, and the answer of the
   last lookup is a value, a key, nil or an exception.                     *)
THEOREM NamesSound == Spec => []NamesInv
<1>1. Init => NamesInv
  BY NamesInit
<1>2. NamesInv /\ [Next]_vars => NamesInv'
  BY NamesStep
<1>3. QED
  BY <1>1, <1>2, PTL DEF Spec

(* The variables always have their types: no lookup answers with what is not a
   value or an exception.                                                  *)
THEOREM NamesTyped == Spec => []TypeOK
BY NamesSound, InvMeans, PTL

(* Every pair of every hashmap is in the bucket in which hashmap_get looks for
   its key, whatever the hashes, the sizes of the maps, and the way it came
   there.                                                                  *)
THEOREM PairsPlaced == Spec => []PairsInTheirBucket
BY NamesSound, InvMeans, PTL

-----------------------------------------------------------------------------
(* What is bound.                                                          *)

LEMMA BindingIsBound ==
  ASSUME MapsPlaced, NEW m \in Map, NEW k \in Name
  PROVE  /\ BindingIn(m, k) = Bound(bucket[m], size[m], k)
         /\ BindingIn(m, k) \in Value \cup {Unbound}
<1> DEFINE n == size[m]
           ch == bucket[m]
           where == {b \in BucketNo : Lookup(ch[b], k) # Unbound}
<1>1. /\ n \in Width \cup {Unmade} /\ ch \in Buckets /\ InPlace(ch, n) /\ k \in Key
      /\ (n > 0 => n \in Width)
  BY DEF MapsPlaced, Placed, Key, Unmade
<1>2. BindingIn(m, k) = IF where = {} THEN Unbound ELSE Lookup(ch[CHOOSE b \in where : TRUE], k)
  BY DEF BindingIn
<1> HIDE DEF n, ch
<1>3. ASSUME NEW b \in where
      PROVE  n > 0 /\ b = BucketFor(k, n)
  <2>1. b \in BucketNo /\ ch[b] \in Chain /\ Lookup(ch[b], k) # Unbound
    BY <1>1 DEF Buckets
  <2>2. PICK i \in DOMAIN ch[b] : ch[b][i][1] = k
    BY <2>1, LookupSome
  <2>3. QED
    BY <1>1, <2>1, <2>2 DEF InPlace
<1>4. CASE where = {}
  <2>1. n > 0 => Lookup(ch[BucketFor(k, n)], k) = Unbound
    BY <1>1, <1>4, BucketFacts
  <2>2. Bound(ch, n, k) = Unbound
    BY <2>1 DEF Bound
  <2>3. QED
    BY <1>2, <1>4, <2>2 DEF n, ch
<1>5. CASE where # {}
  <2>1. (CHOOSE b \in where : TRUE) \in where
    BY <1>5
  <2>2. n > 0 /\ (CHOOSE b \in where : TRUE) = BucketFor(k, n)
    BY <1>3, <2>1
  <2>3. Bound(ch, n, k) = Lookup(ch[BucketFor(k, n)], k)
    BY <2>2 DEF Bound
  <2>4. Bound(ch, n, k) \in Value \cup {Unbound}
    BY <1>1, <2>2, GetFacts
  <2>5. QED
    BY <1>2, <1>5, <2>2, <2>3, <2>4 DEF n, ch
<1>6. QED
  BY <1>4, <1>5

LEMMA LastIsBound ==
  ASSUME MapsPlaced, NEW m \in Map, Ready(m), NEW k \in Name, LastIs(k, m)
  PROVE  BindingIn(m, k) # Unbound
<1> DEFINE n == size[m]
           ch == bucket[m]
           pairs == PairsOf(ch, n)
           last == pairs[Len(pairs)]
<1>1. n \in Width /\ n \in Nat /\ ch \in Buckets /\ InPlace(ch, n)
  BY NameFacts DEF Ready, Placed
<1>2. pairs # <<>> /\ last[1] = k
  BY DEF LastIs, Last
<1>3. /\ pairs \in Seq(Key \X Value)
      /\ \A x : x \in Items(pairs) <=> \E b \in 0 .. n - 1 : x \in Items(ch[b])
  BY <1>1, PairsFacts
<1>4. last \in Items(pairs)
  <2> HIDE DEF pairs
  <2>1. Len(pairs) \in DOMAIN pairs
    BY <1>2, <1>3
  <2>2. QED
    BY <2>1 DEF Items
<1>5. PICK b \in 0 .. n - 1 : last \in Items(ch[b])
  <2> HIDE DEF last, pairs, n, ch
  <2>1. QED
    BY <1>3, <1>4
<1>6. b \in BucketNo
  BY <1>1 DEF BucketNo, Width
<1>7. PICK i \in DOMAIN ch[b] : ch[b][i] = last
  BY <1>5 DEF Items
<1> HIDE DEF last, pairs, n, ch
<1>8. Bound(ch, n, k) # Unbound
  BY <1>1, <1>2, <1>6, <1>7, BoundFacts
<1>9. QED
  BY <1>8, BindingIsBound DEF n, ch

LEMMA InternedMeans ==
  ASSUME NamesInv
  PROVE  InternedIsBound
<1> SUFFICES ASSUME NEW k \in Name, Internedp(k, OrOblist(store))
             PROVE  Binds(OrOblist(store), k)
  BY DEF InternedIsBound
<1> DEFINE st == OrOblist(store)
<1>1. ReadyStore(st)
  BY StoreIsReady DEF NamesInv
<1> HIDE DEF st
<1>2. CASE st.list = <<>>
  <2>1. st.tail # Nil /\ LastIs(k, st.tail)
    BY <1>2 DEF Internedp, st
  <2>2. st.tail \in Map /\ Ready(st.tail)
    BY <1>1, <2>1 DEF ReadyStore
  <2>3. QED
    BY <2>1, <2>2, LastIsBound DEF NamesInv, Binds, st
<1>3. CASE st.list # <<>>
  <2>1. PICK i \in DOMAIN st.list : \/ st.list[i][1] = "pair" /\ st.list[i][2] = k
                                    \/ st.list[i][1] = "map" /\ LastIs(k, st.list[i][2])
    BY <1>3 DEF Internedp, st
  <2>2. ReadyEntry(st.list[i])
    BY <1>1 DEF ReadyStore
  <2>3. st.list[i][1] = "map" => st.list[i][2] \in Map /\ Ready(st.list[i][2])
    BY <2>2, EntryFacts DEF ReadyEntry
  <2>4. st.list[i][1] = "map" => BindingIn(st.list[i][2], k) # Unbound
    BY <2>1, <2>3, LastIsBound DEF NamesInv
  <2>5. QED
    BY <2>1, <2>4 DEF Binds, st
<1>4. QED
  BY <1>2, <1>3

(* interned? never answers t for a key the store does not bind. *)
THEOREM InternedAreBound == Spec => []InternedIsBound
BY NamesSound, InternedMeans, PTL

-----------------------------------------------------------------------------
(***************************************************************************)
(* Namespaces implement Scopes.  `B' and `L' are what the mapping makes of *)
(* the state: functions from names to values, for maps and for scopes.     *)
(***************************************************************************)
B == [m \in Map |-> [k \in Name |-> BindingIn(m, k)]]
L == [i \in DOMAIN envs |-> [k \in Name |-> LocalBinding(envs[i], k)]]

LEMMA PromiseNames ==
  /\ Promise!Nil = Nil /\ Promise!T = T /\ Promise!Unbound = Unbound
  /\ Promise!Error = Error /\ Promise!Nothing = Nothing
BY DEF Promise!Nil, Nil, Promise!T, T, Promise!Unbound, Unbound, Promise!Error, Error,
       Promise!Nothing, Nothing

LEMMA PromiseMin == \A A : Promise!Min(A) = Min(A) /\ Promise!Max(A) = Max(A)
BY DEF Promise!Min, Min, Promise!Max, Max

(* B after a step, in terms of the buckets. *)
LEMMA BFacts ==
  ASSUME MapsPlaced
  PROVE  /\ B = [m \in Map |-> [k \in Name |-> Bound(bucket[m], size[m], k)]]
         /\ \A m \in Map, k \in Name : B[m][k] \in Value \cup {Unbound}
<1>1. \A m \in Map, k \in Name : BindingIn(m, k) = Bound(bucket[m], size[m], k)
  BY BindingIsBound
<1>2. \A m \in Map, k \in Name : B[m][k] = BindingIn(m, k) /\ BindingIn(m, k) \in Value \cup {Unbound}
  BY BindingIsBound DEF B
<1>3. QED
  BY <1>1, <1>2 DEF B

LEMMA BNext ==
  MapsPlaced' => B' = [m \in Map |-> [k \in Name |-> Bound(bucket'[m], size'[m], k)]]
<1>1. MapsPlaced => B = [m \in Map |-> [k \in Name |-> Bound(bucket[m], size[m], k)]]
  BY BFacts
<1>2. (MapsPlaced => B = [m \in Map |-> [k \in Name |-> Bound(bucket[m], size[m], k)]])'
  BY <1>1, PTL
<1>3. QED
  BY <1>2 DEF Bound, Lookup, BucketFor, Hash

(* One name is bound in one map. *)
LEMMA BindsOne ==
  ASSUME MapsPlaced, MapsPlaced', NEW m \in Map, Ready(m), size[m] > 0,
         NEW k \in Name, NEW v \in Value,
         size' = size, bucket' = [bucket EXCEPT ![m] = HashmapPut(@, size[m], k, v)]
  PROVE  B' = [B EXCEPT ![m][k] = v]
<1> DEFINE ch == HashmapPut(bucket[m], size[m], k, v)
<1>1. \A x \in Name : Bound(ch, size[m], x) = IF x = k THEN v ELSE Bound(bucket[m], size[m], x)
  BY HashmapPutFacts DEF Ready, Key
<1>2. bucket' = [bucket EXCEPT ![m] = ch] /\ DOMAIN bucket = Map
  BY DEF MapsPlaced
<1> HIDE DEF ch
<1>3. B' = [y \in Map |-> [x \in Name |-> Bound(bucket'[y], size'[y], x)]]
  BY BNext
<1>4. B = [y \in Map |-> [x \in Name |-> Bound(bucket[y], size[y], x)]]
  BY BFacts
<1>5. \A y \in Map, x \in Name :
        Bound(bucket'[y], size'[y], x) = IF y = m /\ x = k THEN v ELSE Bound(bucket[y], size[y], x)
  BY <1>1, <1>2
<1> HIDE DEF B
<1>6. QED
  BY <1>3, <1>4, <1>5

LEMMA Unchanging ==
  /\ (UNCHANGED <<size, bucket>> => B' = B)
  /\ (envs' = envs => L' = L)
<1>1. UNCHANGED <<size, bucket>> => B' = B
  BY DEF B, BindingIn
<1>2. envs' = envs => L' = L
  BY DEF L
<1>3. QED
  BY <1>1, <1>2

(* The steps of Scopes, of B and L. *)
LEMMA PromiseBind ==
  ASSUME NEW m \in Map, NEW k \in Name, NEW v \in Value, B' = [B EXCEPT ![m][k] = v],
         answer' = Nothing, store' = store, L' = L
  PROVE  Promise!Next
<1>1. Promise!Bind(m, k, v)
  BY PromiseNames DEF Promise!Bind, B, L
<1>2. QED
  BY <1>1 DEF Promise!Next

LEMMA PromiseMake ==
  ASSUME NEW m \in Map, NEW list, list = <<>> \/ list = store.list,
         B' = [B EXCEPT ![m] = Promise!PairsOnly(list)],
         answer' = Nothing, store' = store, L' = L
  PROVE  Promise!Next
<1>1. Promise!Make(m, list)
  BY PromiseNames DEF Promise!Make, B, L
<1>2. QED
  BY <1>1 DEF Promise!Next

LEMMA PromiseBindAll ==
  ASSUME NEW m \in Map,
         B' = [B EXCEPT ![m] = Promise!Overridden(m, @,
                 IF store.list = <<>> THEN Promise!Entries(store) ELSE store.list)],
         answer' = Nothing, store' = store, L' = L
  PROVE  Promise!Next
<1>1. Promise!BindAll(m)
  BY PromiseNames DEF Promise!BindAll, B, L
<1>2. QED
  BY <1>1 DEF Promise!Next

(* A new map of n buckets, filled with items, which are the pairs of a list. *)
PairsOfList(n, items, list) ==
  /\ list = <<>> \/ list = store.list
  /\ ~ (n = 0 /\ items # <<>>)
  /\ \A k \in Name : Bound(Filled(n, items), n, k) = Promise!PairsOnly(list)[k]

LEMMA Makes ==
  ASSUME NamesInv, NamesInv', NEW m \in Map, NEW n, NEW items, NEW list,
         MakeHashmap(m, n, items), PairsOfList(n, items, list)
  PROVE  Promise!Next
<1> USE DEF PairsOfList
<1> DEFINE ch == Filled(n, items)
<1>1. /\ size' = [size EXCEPT ![m] = n] /\ bucket' = [bucket EXCEPT ![m] = ch]
      /\ answer' = Nothing /\ UNCHANGED <<envs, store>>
  BY DEF MakeHashmap
<1>2. DOMAIN size = Map /\ DOMAIN bucket = Map
  BY DEF NamesInv, MapsPlaced
<1>3. B' = [y \in Map |-> [x \in Name |-> Bound(bucket'[y], size'[y], x)]]
  BY BNext DEF NamesInv
<1>4. B = [y \in Map |-> [x \in Name |-> Bound(bucket[y], size[y], x)]]
  BY BFacts DEF NamesInv
<1>5. Promise!PairsOnly(list) = [x \in Name |-> Promise!PairsOnly(list)[x]]
  BY DEF Promise!PairsOnly
<1>6. \A y \in Map : [x \in Name |-> Bound(bucket'[y], size'[y], x)] =
        IF y = m THEN Promise!PairsOnly(list)
        ELSE [x \in Name |-> Bound(bucket[y], size[y], x)]
  <2> HIDE DEF ch
  <2>1. ASSUME NEW y \in Map, y # m
        PROVE  bucket'[y] = bucket[y] /\ size'[y] = size[y]
    BY <1>1, <1>2, <2>1
  <2>2. bucket'[m] = ch /\ size'[m] = n
    BY <1>1, <1>2
  <2>3. QED
    BY <1>5, <2>1, <2>2 DEF ch
<1>7. B' = [B EXCEPT ![m] = Promise!PairsOnly(list)]
  <2> HIDE DEF B
  <2>1. QED
    BY <1>3, <1>4, <1>6
<1>8. QED
  BY <1>1, <1>7, Unchanging, PromiseMake

LEMMA MakesEmpty ==
  ASSUME NamesInv, NamesInv', NEW m \in Map, NEW n \in Sizes, MakeHashmap(m, n, <<>>)
  PROVE  Promise!Next
<1>1. n \in Width /\ <<>> \in Seq(Key \X Value) /\ DOMAIN <<>> = {}
  BY DEF Width
<1>2. \A k \in Name : Bound(Filled(n, <<>>), n, k) = Unbound
  BY <1>1, FilledWithNothing, EmptyFacts DEF Key
<1>3. \A k \in Name : Promise!PairsOnly(<<>>)[k] = Unbound
  BY <1>1, PromiseNames DEF Promise!PairsOnly
<1>4. PairsOfList(n, <<>>, <<>>)
  BY <1>2, <1>3 DEF PairsOfList
<1>5. QED
  BY <1>4, Makes

LEMMA MakesFull ==
  ASSUME NamesInv, NamesInv', NEW m \in Map, NEW n \in Sizes, MakeHashmap(m, n, ItemsOf(store)),
         ~ (n = 0 /\ ItemsOf(store) # <<>>)
  PROVE  Promise!Next
<1> DEFINE items == ItemsOf(store)
           list == store.list
           N == Len(list)
<1>1. /\ items \in Seq(Key \X Value) /\ N \in Nat /\ DOMAIN list = 1 .. N
      /\ Len(items) \in {N, N + 1}
      /\ \A i \in 1 .. N : items[i] = IF list[i][1] = "pair"
                                      THEN <<list[i][2], list[i][3]>> ELSE <<Nil, Nil>>
      /\ (Len(items) = N + 1 => items[N + 1] = <<Nil, Nil>>)
  BY ItemsFacts DEF NamesInv
<1>2. \A i \in 1 .. N : list[i] \in Entry
  BY <1>1 DEF NamesInv, StoreMade
<1>3. n \in Width
  BY DEF Width
<1> HIDE DEF items, list
<1>4. ASSUME NEW k \in Name
      PROVE  Bound(Filled(n, items), n, k) = Promise!PairsOnly(list)[k]
  <2> DEFINE giving == {i \in DOMAIN list : list[i][1] = "pair" /\ list[i][2] = k}
             theirs == {i \in 1 .. Len(items) : ItemGives(items, k)[i] # Unbound}
  <2>1. Promise!PairsOnly(list)[k] = IF giving = {} THEN Unbound ELSE list[Max(giving)][3]
    BY PromiseNames, PromiseMin DEF Promise!PairsOnly
  <2>2. LastGiven(Len(items), ItemGives(items, k), Unbound) =
          IF theirs = {} THEN Unbound ELSE ItemGives(items, k)[Max(theirs)]
    BY DEF LastGiven
  <2>3. ASSUME NEW i \in 1 .. Len(items)
        PROVE  /\ i \in theirs <=> i \in giving
               /\ i \in giving => ItemGives(items, k)[i] = list[i][3]
    <3>1. ItemGives(items, k)[i] = IF items[i][1] = k THEN items[i][2] ELSE Unbound
      BY DEF ItemGives
    <3>2. CASE i \in 1 .. N
      <4>1. /\ list[i] \in Entry
            /\ items[i] = IF list[i][1] = "pair" THEN <<list[i][2], list[i][3]>> ELSE <<Nil, Nil>>
        BY <1>1, <1>2, <3>2
      <4>2. list[i][1] = "pair" => list[i][3] # Unbound /\ items[i][1] = list[i][2] /\ items[i][2] = list[i][3]
        BY <4>1, EntryFacts, NameFacts
      <4>3. list[i][1] # "pair" => items[i][1] # k
        BY <4>1, NameFacts
      <4>4. QED
        BY <1>1, <3>1, <3>2, <4>2, <4>3
    <3>3. CASE i \notin 1 .. N
      <4>1. Len(items) = N + 1 /\ i = N + 1
        BY <1>1, <3>3
      <4>2. items[i][1] # k
        BY <1>1, <4>1, NameFacts
      <4>3. QED
        BY <1>1, <3>1, <3>3, <4>2
    <3>4. QED
      BY <3>2, <3>3
  <2>4. giving = theirs /\ giving \in SUBSET (1 .. N) /\ giving \in SUBSET (0 .. N)
    <3>1. \A i \in giving : i \in 1 .. N /\ i \in 1 .. Len(items)
      BY <1>1
    <3>2. giving \in SUBSET (1 .. N) /\ giving \in SUBSET (0 .. N)
      <4>1. \A i \in 1 .. N : i \in 0 .. N
        BY <1>1
      <4>2. QED
        BY <3>1, <4>1
    <3>3. \A i \in theirs : i \in 1 .. Len(items)
      OBVIOUS
    <3> HIDE DEF giving, theirs
    <3>4. QED
      BY <2>3, <3>1, <3>2, <3>3
  <2>5. giving # {} => Max(giving) \in giving /\ Max(giving) \in 1 .. Len(items)
    <3> HIDE DEF giving
    <3>1. giving # {} => Max(giving) \in giving
      BY <1>1, <2>4, MaxFacts
    <3>2. giving # {} => Max(giving) \in 1 .. N
      BY <2>4, <3>1
    <3>3. QED
      BY <1>1, <3>1, <3>2
  <2>6. CASE n = 0
    <3>1. items = <<>>
      BY <2>6 DEF items
    <3>2. Len(items) = 0 /\ N = 0
      BY <1>1, <3>1
    <3>3. giving = {}
      BY <1>1, <3>2
    <3>4. Bound(Filled(n, items), n, k) = Unbound
      BY <1>3, <3>1, FilledWithNothing, EmptyFacts DEF Key
    <3>5. QED
      BY <2>1, <3>3, <3>4
  <2>7. CASE n # 0
    <3>1. n > 0
      BY <2>7, <1>3, NameFacts
    <3>2. Bound(Filled(n, items), n, k) = LastGiven(Len(items), ItemGives(items, k), Unbound)
      BY <1>1, <1>3, <3>1, FilledFacts
    <3> HIDE DEF giving, theirs
    <3>3. QED
      BY <2>1, <2>2, <2>3, <2>4, <2>5, <3>2
  <2>8. QED
    BY <2>6, <2>7
<1>5. PairsOfList(n, items, list)
  BY <1>4 DEF PairsOfList, items, list
<1>6. QED
  BY <1>5, Makes DEF items

(* Putting a whole store into a map. *)
LEMMA GivenIs ==
  ASSUME MapsPlaced, NEW m \in Map, NEW e, ReadyEntry(e), NEW k \in Name
  PROVE  Promise!Given(m, e, k) = EntryGives(m, e, k)
<1>1. e \in Entry
  BY DEF ReadyEntry
<1>2. CASE e[1] = "pair"
  BY <1>2, PromiseNames DEF Promise!Given, EntryGives
<1>3. CASE e[1] = "key"
  BY <1>3, PromiseNames DEF Promise!Given, EntryGives
<1>4. CASE e[1] = "map"
  <2>1. e[2] \in Map
    BY <1>1, <1>4, EntryFacts
  <2>2. Promise!Given(m, e, k) = IF e[2] = m THEN Unbound ELSE B[e[2]][k]
    BY <1>4, PromiseNames DEF Promise!Given, B
  <2>3. B[e[2]][k] = Bound(bucket[e[2]], size[e[2]], k)
    BY <2>1, BFacts
  <2>4. QED
    BY <1>4, <2>2, <2>3 DEF EntryGives, MapGives
<1>5. QED
  BY <1>1, <1>2, <1>3, <1>4, EntryFacts

LEMMA OverriddenIs ==
  ASSUME MapsPlaced, NEW m \in Map, NEW f, NEW list \in Seq(Entry),
         \A i \in DOMAIN list : ReadyEntry(list[i])
  PROVE  Promise!Overridden(m, f, list) =
           [k \in Name |-> LastGiven(Len(list), ListGives(m, list, k), f[k])]
<1> DEFINE N == Len(list)
<1>1. N \in Nat /\ DOMAIN list = 1 .. N
  OBVIOUS
<1>2. ASSUME NEW k \in Name
      PROVE  Promise!Overridden(m, f, list)[k] = LastGiven(N, ListGives(m, list, k), f[k])
  <2> DEFINE g == ListGives(m, list, k)
             giving == {i \in DOMAIN list : Promise!Given(m, list[i], k) # Unbound}
             theirs == {i \in 1 .. N : g[i] # Unbound}
  <2>1. \A i \in 1 .. N : g[i] = Promise!Given(m, list[i], k)
    <3>1. \A i \in 1 .. N : g[i] = EntryGives(m, list[i], k)
      BY DEF ListGives
    <3>2. QED
      BY <1>1, <3>1, GivenIs
  <2>2. giving = theirs /\ giving \in SUBSET (1 .. N) /\ giving \in SUBSET (0 .. N)
    <3> HIDE DEF g, N
    <3>1. giving = theirs
      BY <1>1, <2>1
    <3>2. \A i \in 1 .. N : i \in 0 .. N
      BY <1>1
    <3>3. QED
      BY <1>1, <3>1, <3>2
  <2>3. Promise!Overridden(m, f, list)[k] =
          IF giving = {} THEN f[k] ELSE Promise!Given(m, list[Max(giving)], k)
    BY PromiseNames, PromiseMin DEF Promise!Overridden
  <2>4. LastGiven(N, g, f[k]) = IF theirs = {} THEN f[k] ELSE g[Max(theirs)]
    BY DEF LastGiven
  <2>5. giving # {} => Max(giving) \in 1 .. N
    <3> HIDE DEF giving, N
    <3>1. giving # {} => Max(giving) \in giving
      BY <1>1, <2>2, MaxFacts
    <3>2. QED
      BY <2>2, <3>1
  <2> HIDE DEF giving, theirs, g, N
  <2>6. QED
    BY <2>1, <2>2, <2>3, <2>4, <2>5 DEF g
<1>3. Promise!Overridden(m, f, list) = [k \in Name |-> Promise!Overridden(m, f, list)[k]]
  BY DEF Promise!Overridden
<1>4. QED
  BY <1>2, <1>3

(* When nothing in a list gives anything, nothing changes. *)
LEMMA NothingGiven ==
  ASSUME MapsPlaced, NEW m \in Map, NEW list \in Seq(Entry),
         \A i \in DOMAIN list : ReadyEntry(list[i]),
         \A i \in DOMAIN list : \A k \in Name : EntryGives(m, list[i], k) = Unbound
  PROVE  [B EXCEPT ![m] = Promise!Overridden(m, @, list)] = B
<1>1. ASSUME NEW k \in Name
      PROVE  LastGiven(Len(list), ListGives(m, list, k), B[m][k]) = B[m][k]
  <2>1. {i \in 1 .. Len(list) : ListGives(m, list, k)[i] # Unbound} = {}
    BY DEF ListGives
  <2>2. QED
    BY <2>1 DEF LastGiven
<1>2. Promise!Overridden(m, B[m], list) = [k \in Name |-> B[m][k]]
  BY <1>1, OverriddenIs
<1>3. B = [y \in Map |-> [x \in Name |-> BindingIn(y, x)]]
  BY DEF B
<1>4. B[m] = [k \in Name |-> B[m][k]]
  BY <1>3
<1> HIDE DEF B
<1>5. [B EXCEPT ![m] = B[m]] = B
  BY <1>3
<1>6. QED
  BY <1>2, <1>4, <1>5

(* The list that stands for the store, when it is put into a map. *)
GivenList == IF store.list = <<>> THEN Promise!Entries(store) ELSE store.list

LEMMA GivenListFacts ==
  ASSUME MapsPlaced, StoreMade
  PROVE  /\ GivenList \in Seq(Entry) /\ \A i \in DOMAIN GivenList : ReadyEntry(GivenList[i])
         /\ (store.list # <<>> => GivenList = store.list)
         /\ (store.list = <<>> /\ store.tail = Nil => GivenList = <<>>)
         /\ (store.list = <<>> /\ store.tail # Nil => GivenList = <<<<"map", store.tail>>>>)
<1>1. ReadyStore(store)
  BY StoreIsReady
<1>2. CASE store.list # <<>>
  BY <1>1, <1>2 DEF GivenList, ReadyStore
<1>3. CASE store.list = <<>> /\ store.tail = Nil
  <2>1. GivenList = <<>>
    BY <1>3, PromiseNames DEF GivenList, Promise!Entries
  <2>2. <<>> \in Seq(Entry) /\ DOMAIN <<>> = {}
    OBVIOUS
  <2>3. QED
    BY <1>3, <2>1, <2>2
<1>4. CASE store.list = <<>> /\ store.tail # Nil
  <2> DEFINE e == <<"map", store.tail>>
  <2>1. ReadyEntry(e) /\ e \in Entry
    BY <1>1, <1>4 DEF ReadyStore, ReadyEntry, Entry
  <2>2. GivenList = Append(<<>>, e)
    BY <1>4, PromiseNames DEF GivenList, Promise!Entries
  <2> HIDE DEF e
  <2>3. Append(<<>>, e) = <<e>> /\ <<e>> \in Seq(Entry) /\ \A i \in DOMAIN <<e>> : <<e>>[i] = e
    BY <2>1
  <2>4. QED
    BY <1>4, <2>1, <2>2, <2>3 DEF e
<1>5. QED
  BY <1>2, <1>3, <1>4

LEMMA PutsNothing ==
  ASSUME MapsPlaced, StoreMade, ~ PutsAnything, NEW m \in Map
  PROVE  \A i \in DOMAIN GivenList : \A k \in Name : EntryGives(m, GivenList[i], k) = Unbound
<1> DEFINE names(x) == \E b \in BucketNo : \E i \in DOMAIN bucket[x][b] : bucket[x][b][i][1] # Nil
<1>1. ASSUME NEW i \in DOMAIN GivenList
      PROVE  /\ ReadyEntry(GivenList[i]) /\ GivenList[i][1] = "map" /\ GivenList[i][2] \in Map
             /\ ~ names(GivenList[i][2])
  <2>1. ReadyEntry(GivenList[i])
    BY GivenListFacts
  <2>2. CASE store.list # <<>>
    <3>1. GivenList = store.list /\ i \in DOMAIN store.list
      BY <2>2, GivenListFacts
    <3>2. ~ (store.list[i][1] = "map" => names(store.list[i][2]))
      BY <2>2, <3>1 DEF PutsAnything
    <3> HIDE DEF names
    <3>3. GivenList[i][1] = "map" /\ ~ names(GivenList[i][2])
      BY <3>1, <3>2
    <3>4. GivenList[i][2] \in Map
      BY <2>1, <3>3, EntryFacts DEF ReadyEntry
    <3>5. QED
      BY <2>1, <3>3, <3>4
  <2>3. CASE store.list = <<>> /\ store.tail = Nil
    BY <2>3, GivenListFacts
  <2>4. CASE store.list = <<>> /\ store.tail # Nil
    <3>1. GivenList[i] = <<"map", store.tail>>
      BY <2>4, GivenListFacts
    <3>2. ~ names(store.tail) /\ store.tail \in Map
      BY <2>4 DEF PutsAnything, StoreMade
    <3> HIDE DEF names
    <3>3. QED
      BY <2>1, <3>1, <3>2
  <2>5. QED
    BY <2>2, <2>3, <2>4
<1>2. ASSUME NEW x \in Map, Ready(x), ~ names(x), NEW k \in Name
      PROVE  Bound(bucket[x], size[x], k) = Unbound
  <2>1. size[x] \in Width /\ bucket[x] \in Buckets /\ InPlace(bucket[x], size[x]) /\ size[x] \in Nat
    BY <1>2, NameFacts DEF Ready, Placed
  <2>2. \A b \in 0 .. size[x] - 1 : b \in BucketNo
    BY <2>1 DEF BucketNo, Width
  <2>3. k # Nil /\ k \in Key
    BY NameFacts DEF Key
  <2>4. QED
    BY <1>2, <2>1, <2>2, <2>3, BoundFacts
<1>3. ASSUME NEW i \in DOMAIN GivenList, NEW k \in Name
      PROVE  EntryGives(m, GivenList[i], k) = Unbound
  <2> DEFINE x == GivenList[i][2]
  <2>1. ReadyEntry(GivenList[i]) /\ GivenList[i][1] = "map" /\ x \in Map /\ ~ names(x)
    BY <1>1
  <2>2. Ready(x)
    BY <2>1 DEF ReadyEntry
  <2>3. Bound(bucket[x], size[x], k) = Unbound
    BY <1>2, <2>1, <2>2
  <2>4. QED
    BY <2>1, <2>3 DEF EntryGives, MapGives
<1>4. QED
  BY <1>3

(* What a map has, after all of the store has been put into it. *)
LEMMA PutAllIntoBinds ==
  ASSUME MapsPlaced, StoreMade, NEW m \in Map, Made(m), size[m] # 0, NEW k \in Name
  PROVE  Bound(PutAllInto(m), size[m], k) =
           LastGiven(Len(GivenList), ListGives(m, GivenList, k), Bound(bucket[m], size[m], k))
<1>1. Ready(m) /\ size[m] > 0 /\ bucket[m] \in Placed(size[m])
  BY MadeIsReady, NameFacts DEF Ready
<1>2. CASE store.list # <<>>
  <2>1. PutAllInto(m) = PutList(m, bucket[m], GivenList)
    BY <1>2, GivenListFacts DEF PutAllInto
  <2>2. GivenList \in Seq(Entry) /\ \A i \in DOMAIN GivenList : ReadyEntry(GivenList[i])
    BY GivenListFacts
  <2>3. QED
    BY <1>1, <2>1, <2>2, PutListFacts
<1>3. CASE store.list = <<>> /\ store.tail = Nil
  <2>1. PutAllInto(m) = bucket[m] /\ GivenList = <<>>
    BY <1>3, GivenListFacts DEF PutAllInto
  <2>2. {i \in 1 .. Len(GivenList) : ListGives(m, GivenList, k)[i] # Unbound} = {}
    <3>1. 1 .. Len(<<>>) = {}
      OBVIOUS
    <3>2. QED
      BY <2>1, <3>1
  <2>3. QED
    BY <2>1, <2>2 DEF LastGiven
<1>4. CASE store.list = <<>> /\ store.tail # Nil
  <2> DEFINE from == store.tail
             e == <<"map", from>>
             g == ListGives(m, GivenList, k)
             giving == {i \in 1 .. 1 : g[i] # Unbound}
  <2>1. PutAllInto(m) = PutMap(m, bucket[m], from) /\ GivenList = <<e>>
    BY <1>4, GivenListFacts DEF PutAllInto
  <2>2. from \in Map /\ Ready(from)
    BY <1>4, StoreIsReady DEF ReadyStore
  <2>3. Bound(PutAllInto(m), size[m], k) =
          IF MapGives(m, from, k) # Unbound THEN MapGives(m, from, k) ELSE Bound(bucket[m], size[m], k)
    BY <1>1, <2>1, <2>2, PutMapFacts
  <2>4. g[1] = MapGives(m, from, k) /\ Len(GivenList) = 1
    BY <2>1 DEF ListGives, EntryGives
  <2>5. LastGiven(1, g, Bound(bucket[m], size[m], k)) =
          IF giving = {} THEN Bound(bucket[m], size[m], k) ELSE g[Max(giving)]
    BY DEF LastGiven
  <2>6. giving \in SUBSET (0 .. 1) /\ \A i \in giving : i = 1
    OBVIOUS
  <2> HIDE DEF g
  <2>7. CASE g[1] = Unbound
    <3>1. giving = {}
      BY <2>7
    <3>2. QED
      BY <2>3, <2>4, <2>5, <2>7, <3>1 DEF g
  <2>8. CASE g[1] # Unbound
    <3>1. giving # {}
      BY <2>8
    <3>2. Max(giving) = 1
      <4> HIDE DEF giving
      <4>1. QED
        BY <2>6, <3>1, MaxFacts
    <3>3. QED
      BY <2>3, <2>4, <2>5, <2>8, <3>1, <3>2 DEF g
  <2>9. QED
    BY <2>7, <2>8
<1>5. QED
  BY <1>2, <1>3, <1>4

LEMMA PutsAll ==
  ASSUME NamesInv, NamesInv', NEW m \in Map, PutAll(m), ~ (size[m] = 0 /\ PutsAnything)
  PROVE  Promise!Next
<1>1. B = [y \in Map |-> [x \in Name |-> Bound(bucket[y], size[y], x)]]
  BY BFacts DEF NamesInv
<1>2. /\ GivenList \in Seq(Entry) /\ \A i \in DOMAIN GivenList : ReadyEntry(GivenList[i])
  BY GivenListFacts DEF NamesInv
<1>3. CASE size[m] = 0
  <2>1. ~ PutsAnything /\ answer' = Nothing /\ UNCHANGED <<size, bucket, envs, store>>
    BY <1>3 DEF PutAll
  <2>2. [B EXCEPT ![m] = Promise!Overridden(m, @, GivenList)] = B
    BY <1>2, <2>1, PutsNothing, NothingGiven DEF NamesInv
  <2>3. B' = [B EXCEPT ![m] = Promise!Overridden(m, @, GivenList)] /\ L' = L
    BY <2>1, <2>2, Unchanging
  <2>4. QED
    BY <2>1, <2>3, PromiseBindAll DEF GivenList
<1>4. CASE size[m] # 0
  <2> DEFINE ch == PutAllInto(m)
  <2>1. /\ Made(m) /\ bucket' = [bucket EXCEPT ![m] = ch] /\ answer' = Nothing
        /\ UNCHANGED <<size, envs, store>>
    BY <1>4 DEF PutAll
  <2>2. Promise!Overridden(m, B[m], GivenList) = [x \in Name |-> Bound(ch, size[m], x)]
    <3>1. Promise!Overridden(m, B[m], GivenList) =
            [x \in Name |-> LastGiven(Len(GivenList), ListGives(m, GivenList, x), B[m][x])]
      BY <1>2, OverriddenIs DEF NamesInv
    <3>2. \A x \in Name : B[m][x] = Bound(bucket[m], size[m], x)
      BY <1>1
    <3> HIDE DEF ch, B
    <3>3. \A x \in Name : Bound(ch, size[m], x) =
            LastGiven(Len(GivenList), ListGives(m, GivenList, x), B[m][x])
      BY <1>4, <2>1, <3>2, PutAllIntoBinds DEF NamesInv, ch
    <3>4. QED
      BY <3>1, <3>3
  <2>3. B' = [y \in Map |-> [x \in Name |-> Bound(bucket'[y], size'[y], x)]]
    BY BNext DEF NamesInv
  <2>4. DOMAIN bucket = Map
    BY DEF NamesInv, MapsPlaced
  <2> HIDE DEF ch
  <2>5. \A y \in Map : [x \in Name |-> Bound(bucket'[y], size'[y], x)] =
          IF y = m THEN Promise!Overridden(m, B[m], GivenList)
          ELSE [x \in Name |-> Bound(bucket[y], size[y], x)]
    <3>1. bucket'[m] = ch /\ size' = size /\ \A y \in Map : y # m => bucket'[y] = bucket[y]
      BY <2>1, <2>4
    <3>2. QED
      BY <2>2, <3>1
  <2>6. B' = [B EXCEPT ![m] = Promise!Overridden(m, @, GivenList)]
    <3> HIDE DEF B
    <3>1. QED
      BY <1>1, <2>3, <2>5
  <2>7. QED
    BY <2>1, <2>6, Unchanging, PromiseBindAll DEF GivenList
<1>5. QED
  BY <1>3, <1>4

(* Scopes. *)
LEMMA LocalInFront ==
  ASSUME NEW env \in Seq(Entry), NEW k \in Name, NEW v \in Value, NEW x \in Name
  PROVE  LocalBinding(<<Pair(k, v)>> \o env, x) = IF x = k THEN v ELSE LocalBinding(env, x)
<1> DEFINE more == <<Pair(k, v)>> \o env
           N == Len(env)
           hits == LocalHits(env, x)
           theirs == LocalHits(more, x)
<1>1. Pair(k, v) \in Entry /\ Pair(k, v)[1] = "pair" /\ Pair(k, v)[2] = k /\ Pair(k, v)[3] = v
  BY DEF Pair, Entry
<1>2. /\ more \in Seq(Entry) /\ Len(more) = N + 1 /\ more[1] = Pair(k, v) /\ N \in Nat
      /\ \A i \in 1 .. N : more[i + 1] = env[i]
      /\ DOMAIN more = 1 .. N + 1 /\ DOMAIN env = 1 .. N
  <2>1. <<Pair(k, v)>> \in Seq(Entry) /\ Len(<<Pair(k, v)>>) = 1
    BY <1>1
  <2>2. QED
    BY <1>1, <2>1
<1> HIDE DEF more, N
<1>3. \A i \in 1 .. N : i + 1 \in theirs <=> i \in hits
  BY <1>2 DEF LocalHits
<1>4. 1 \in theirs <=> x = k
  BY <1>1, <1>2 DEF LocalHits
<1>5. /\ theirs \in SUBSET (1 .. N + 1) /\ hits \in SUBSET (1 .. N)
      /\ (theirs = {} => LocalBinding(more, x) = Unbound)
      /\ (theirs # {} => /\ Min(theirs) \in theirs /\ \A i \in theirs : Min(theirs) <= i
                         /\ LocalBinding(more, x) = more[Min(theirs)][3])
      /\ (hits = {} => LocalBinding(env, x) = Unbound)
      /\ (hits # {} => /\ Min(hits) \in hits /\ \A i \in hits : Min(hits) <= i
                       /\ LocalBinding(env, x) = env[Min(hits)][3])
  <2>1. Len(more) = N + 1 /\ Len(env) = N
    BY <1>2 DEF N
  <2>2. QED
    BY <1>2, <2>1, LocalCases
<1> HIDE DEF hits, theirs
<1>6. CASE x = k
  <2>1. Min(theirs) = 1
    <3>1. Min(theirs) \in 1 .. N + 1 /\ Min(theirs) <= 1
      BY <1>4, <1>5, <1>6
    <3>2. QED
      BY <1>2, <3>1
  <2>2. LocalBinding(more, x) = more[1][3]
    BY <1>4, <1>5, <1>6, <2>1
  <2>3. QED
    BY <1>1, <1>2, <1>6, <2>2 DEF more
<1>7. CASE x # k
  <2>1. \A i \in theirs : i - 1 \in 1 .. N /\ i - 1 \in hits
    <3>1. \A i \in theirs : i # 1 /\ i - 1 \in 1 .. N /\ (i - 1) + 1 = i
      BY <1>2, <1>4, <1>5, <1>7
    <3>2. QED
      BY <1>3, <3>1
  <2>2. CASE hits = {}
    <3>1. theirs = {}
      BY <2>1, <2>2
    <3>2. QED
      BY <1>5, <1>7, <2>2, <3>1 DEF more
  <2>3. CASE hits # {}
    <3>1. Min(hits) \in 1 .. N /\ Min(hits) + 1 \in theirs
      BY <1>3, <1>5, <2>3
    <3>2. Min(theirs) \in theirs /\ Min(theirs) <= Min(hits) + 1
      BY <1>5, <3>1
    <3>3. Min(theirs) - 1 \in hits /\ Min(theirs) - 1 \in 1 .. N
      BY <2>1, <3>2
    <3>4. Min(hits) <= Min(theirs) - 1
      BY <1>5, <2>3, <3>3
    <3>5. Min(theirs) \in 1 .. N + 1
      BY <1>5, <3>2
    <3>6. Min(theirs) = Min(hits) + 1
      BY <1>2, <3>1, <3>2, <3>3, <3>4, <3>5
    <3>7. LocalBinding(more, x) = env[Min(hits)][3]
      BY <1>2, <1>5, <3>1, <3>2, <3>6
    <3>8. QED
      BY <1>5, <1>7, <2>3, <3>7 DEF more
  <2>4. QED
    BY <2>2, <2>3
<1>8. QED
  BY <1>6, <1>7

LEMMA PromiseScoping ==
  ASSUME answer' = Nothing, store' = store, B' = B,
         \/ L' = Append(L, Promise!Last(L))
         \/ Len(L) > 1 /\ L' = Promise!Front(L)
         \/ \E k \in Name, v \in Value : Len(L) > 1 /\ L' = [L EXCEPT ![Len(L)][k] = v]
  PROVE  Promise!Next
<1>1. Promise!Open \/ Promise!Close \/ \E k \in Name, v \in Value : Promise!Local(k, v)
  BY DEF Promise!Open, Promise!Close, Promise!Local, L
<1>2. Promise!Scoping
  BY <1>1, PromiseNames DEF Promise!Scoping, B
<1>3. QED
  BY <1>2 DEF Promise!Next

LEMMA LFacts ==
  ASSUME ScopesFormed
  PROVE  L = [i \in 1 .. Len(envs) |-> [k \in Name |-> LocalBinding(envs[i], k)]]
BY DEF ScopesFormed, L

Bindings(env) == [k \in Name |-> LocalBinding(env, k)]

LEMMA Scoped ==
  ASSUME NamesInv, NamesInv', EnterScope \/ LeaveScope \/ \E k \in Name, v \in Value : BindLocal(k, v)
  PROVE  Promise!Next
<1> DEFINE D == Len(envs)
<1>1. answer' = Nothing /\ store' = store /\ B' = B
  BY Unchanging DEF EnterScope, LeaveScope, BindLocal
<1>2. /\ envs \in Seq(Seq(Entry)) /\ D \in Nat \ {0} /\ DOMAIN envs = 1 .. D
      /\ envs' \in Seq(Seq(Entry))
  BY DEF NamesInv, ScopesFormed
<1>3. L = [i \in 1 .. D |-> Bindings(envs[i])]
  BY <1>2 DEF L, Bindings
<1>4. L' = [i \in DOMAIN envs' |-> Bindings(envs'[i])]
  BY DEF L, Bindings
<1> DEFINE R == {Bindings(env) : env \in Seq(Entry)}
<1>5. L \in Seq(R) /\ Len(L) = D /\ DOMAIN L = 1 .. D
  <2>1. \A i \in 1 .. D : Bindings(envs[i]) \in R
    BY <1>2
  <2> HIDE DEF D, L, R
  <2>2. L \in [1 .. D -> R]
    BY <1>3, <2>1
  <2>3. QED
    BY <1>2, <2>2
<1>6. \A i \in 1 .. D : L[i] = Bindings(envs[i])
  BY <1>3
<1>7. PICK E \in Seq(Seq(Entry)) : E = envs'
  BY <1>2
<1>8. L' = [i \in DOMAIN E |-> Bindings(E[i])]
  BY <1>4, <1>7
<1>9. PICK M : M = L'
  OBVIOUS
<1> HIDE DEF L, D
<1>10. CASE EnterScope
  <2> DEFINE env == envs[D]
  <2>1. E = Append(envs, env) /\ env \in Seq(Entry)
    BY <1>2, <1>7, <1>10 DEF EnterScope, Last, D
  <2>2. DOMAIN E = 1 .. D + 1 /\ E[D + 1] = env /\ \A i \in 1 .. D : E[i] = envs[i]
    <3> HIDE DEF env
    <3>1. Len(envs) = D
      BY DEF D
    <3>2. QED
      BY <1>2, <2>1, <3>1
  <2>3. M = [i \in 1 .. D + 1 |-> IF i = D + 1 THEN Bindings(env) ELSE L[i]]
    <3>1. \A i \in 1 .. D + 1 : i = D + 1 \/ i \in 1 .. D
      BY <1>2
    <3>2. \A i \in 1 .. D + 1 : Bindings(E[i]) = IF i = D + 1 THEN Bindings(env) ELSE L[i]
      BY <1>6, <2>2, <3>1
    <3>3. QED
      BY <1>8, <1>9, <2>2, <3>2
  <2>4. Promise!Last(L) = Bindings(env)
    BY <1>2, <1>5, <1>6 DEF Promise!Last
  <2>5. Append(L, Bindings(env)) = [i \in 1 .. D + 1 |-> IF i = D + 1 THEN Bindings(env) ELSE L[i]]
    <3> DEFINE f == Bindings(env)
    <3>1. f \in R
      BY <2>1
    <3> HIDE DEF f, R
    <3>2. Append(L, f) = [i \in 1 .. D + 1 |-> IF i = D + 1 THEN f ELSE L[i]]
      <4> DEFINE A == Append(L, f)
      <4>1. A \in Seq(R) /\ Len(A) = D + 1 /\ A[D + 1] = f /\ \A i \in 1 .. D : A[i] = L[i]
        BY <1>2, <1>5, <3>1
      <4> HIDE DEF A
      <4>2. A = [i \in 1 .. D + 1 |-> A[i]]
        BY <4>1
      <4>3. \A i \in 1 .. D + 1 : i = D + 1 \/ i \in 1 .. D
        BY <1>2
      <4>4. \A i \in 1 .. D + 1 : A[i] = IF i = D + 1 THEN f ELSE L[i]
        BY <4>1, <4>3
      <4>5. QED
        BY <4>2, <4>4 DEF A
    <3>3. QED
      BY <3>2 DEF f
  <2>6. L' = Append(L, Promise!Last(L))
    BY <1>9, <2>3, <2>4, <2>5
  <2>7. QED
    BY <1>1, <2>6, PromiseScoping
<1>11. CASE LeaveScope
  <2>1. D > 1 /\ E = SubSeq(envs, 1, D - 1)
    BY <1>7, <1>11 DEF LeaveScope, Front, D
  <2>2. DOMAIN E = 1 .. D - 1 /\ \A i \in 1 .. D - 1 : E[i] = envs[i] /\ i \in 1 .. D
    <3>1. Len(envs) = D
      BY DEF D
    <3>2. QED
      BY <1>2, <2>1, <3>1
  <2>3. M = [i \in 1 .. D - 1 |-> L[i]]
    <3>1. \A i \in 1 .. D - 1 : Bindings(E[i]) = L[i]
      BY <1>6, <2>2
    <3>2. QED
      BY <1>8, <1>9, <2>2, <3>1
  <2>4. SubSeq(L, 1, D - 1) = [i \in 1 .. D - 1 |-> L[i]]
    BY <1>2, <1>5, <2>1
  <2>5. L' = Promise!Front(L) /\ Len(L) > 1
    BY <1>5, <1>9, <2>1, <2>3, <2>4 DEF Promise!Front
  <2>6. QED
    BY <1>1, <2>5, PromiseScoping
<1>12. ASSUME NEW k \in Name, NEW v \in Value, BindLocal(k, v)
       PROVE  Promise!Next
  <2> DEFINE env == envs[D]
             more == <<Pair(k, v)>> \o env
  <2>1. D > 1 /\ E = [envs EXCEPT ![D] = more] /\ env \in Seq(Entry)
    BY <1>2, <1>7, <1>12 DEF BindLocal, D
  <2>2. Bindings(more) = [Bindings(env) EXCEPT ![k] = v]
    <3>1. \A x \in Name : LocalBinding(more, x) = IF x = k THEN v ELSE LocalBinding(env, x)
      BY <2>1, LocalInFront
    <3> HIDE DEF more, env
    <3>2. QED
      BY <3>1 DEF Bindings
  <2>3. L[D] = Bindings(env) /\ D \in 1 .. D
    BY <1>2, <1>6
  <2> HIDE DEF more, env
  <2>4. DOMAIN E = 1 .. D /\ E[D] = more /\ \A i \in 1 .. D : i # D => E[i] = envs[i]
    BY <1>2, <2>1
  <2>5. M = [i \in 1 .. D |-> IF i = D THEN Bindings(more) ELSE L[i]]
    <3>1. \A i \in 1 .. D : Bindings(E[i]) = IF i = D THEN Bindings(more) ELSE L[i]
      BY <1>6, <2>4
    <3>2. QED
      BY <1>8, <1>9, <2>4, <3>1
  <2>6. L' = [L EXCEPT ![D] = [L[D] EXCEPT ![k] = v]]
    BY <1>5, <1>9, <2>2, <2>3, <2>5
  <2>7. Len(L) > 1 /\ L' = [L EXCEPT ![Len(L)][k] = v]
    BY <1>5, <2>1, <2>6
  <2>8. QED
    BY <1>1, <2>7, PromiseScoping
<1>13. QED
  BY <1>10, <1>11, <1>12

(* Evaluating a name. *)
LEMMA Evaluates ==
  ASSUME NamesInv, NEW k \in Name, EvalSymbol(k)
  PROVE  Promise!Next
<1> DEFINE env == Last(envs)
<1>1. /\ envs \in Seq(Seq(Entry)) /\ Len(envs) \in DOMAIN envs
  BY DEF NamesInv, ScopesFormed
<1>2. Promise!Last(L)[k] = LocalBinding(env, k)
  <2>1. DOMAIN L = 1 .. Len(envs) /\ L[Len(envs)] = [x \in Name |-> LocalBinding(env, x)]
    BY <1>1 DEF L, Last
  <2>2. Len(L) = Len(envs)
    BY <1>1, <2>1
  <2>3. QED
    BY <2>1, <2>2 DEF Promise!Last
<1>3. B[Oblist][k] = Bound(bucket[Oblist], size[Oblist], k)
  BY BFacts DEF NamesInv
<1>4. Promise!ValueOf(k) = ValueHere(env, k)
  <2>1. Promise!ValueOf(k) =
          IF Promise!Last(L)[k] # Unbound THEN Promise!Last(L)[k] ELSE B[Oblist][k]
    BY PromiseNames DEF Promise!ValueOf, L, B
  <2>2. QED
    BY <1>2, <1>3, <2>1 DEF ValueHere
<1>5. answer' = IF ValueHere(env, k) = Unbound THEN Error ELSE ValueHere(env, k)
  BY EvalKeeps, EnvReady, EvalFacts
<1>6. store' = store /\ L' = L /\ B' = B
  BY Unchanging DEF EvalSymbol
<1>7. Promise!Evaluate(k)
  BY <1>4, <1>5, <1>6, PromiseNames DEF Promise!Evaluate, L, B
<1>8. QED
  BY <1>7 DEF Promise!Next

(* Looking a name up in a store: what stops the search either has a value for
   the name or obstructs, and nothing that has a value is passed over.      *)
SaysOf(e, k)      == Promise!Says(e, k)
ObstructsOf(e, k) == Promise!Obstructs(e, k)
ValueInOf(e, k)   == Promise!ValueIn(e, k)

LEMMA EntrySays ==
  ASSUME MapsPlaced, NEW e, ReadyEntry(e), NEW k \in Name, ReplyValue(e, k) # Crash
  PROVE  /\ (SaysOf(e, k) => Stops(e, k, FALSE) /\ ReplyValue(e, k) = ValueInOf(e, k))
         /\ (Stops(e, k, FALSE) /\ ~ SaysOf(e, k) => ObstructsOf(e, k) /\ ReplyValue(e, k) = Error)
<1>1. e \in Entry
  BY DEF ReadyEntry
<1>2. CASE e[1] = "pair"
  <2>1. SaysOf(e, k) <=> e[2] = k
    BY <1>2 DEF SaysOf, Promise!Says
  <2>2. Stops(e, k, FALSE) <=> e[2] = k
    BY <1>2 DEF Stops
  <2>3. ValueInOf(e, k) = e[3] /\ ReplyValue(e, k) = e[3]
    BY <1>2, EntryReplies DEF ValueInOf, Promise!ValueIn
  <2>4. QED
    BY <2>1, <2>2, <2>3
<1>3. CASE e[1] = "key"
  <2>1. ~ SaysOf(e, k) /\ ObstructsOf(e, k)
    BY <1>3 DEF SaysOf, Promise!Says, ObstructsOf, Promise!Obstructs
  <2>2. ReplyValue(e, k) = Error
    BY <1>3, EntryReplies
  <2>3. QED
    BY <2>1, <2>2
<1>4. CASE e[1] = "map"
  <2> DEFINE m == e[2]
             b == Bound(bucket[m], size[m], k)
  <2>1. m \in Map /\ Ready(m) /\ e = <<"map", m>>
    BY <1>1, <1>4, EntryFacts DEF ReadyEntry
  <2>2. B[m][k] = b
    BY <2>1, BFacts
  <2>3. /\ SaysOf(e, k) <=> b \notin {Unbound, Nil}
        /\ ObstructsOf(e, k) <=> b = Unbound
        /\ ValueInOf(e, k) = b
    <3>1. /\ SaysOf(e, k) <=> B[m][k] \notin {Unbound, Nil}
          /\ ObstructsOf(e, k) <=> B[m][k] = Unbound
          /\ ValueInOf(e, k) = B[m][k]
      BY <1>4, PromiseNames
         DEF SaysOf, Promise!Says, ObstructsOf, Promise!Obstructs, ValueInOf, Promise!ValueIn, B
    <3>2. QED
      BY <2>2, <3>1
  <2>4. Stops(e, k, FALSE) <=> ReplyValue(e, k) # Nil
    BY <1>4 DEF Stops, ReplyValue
  <2> HIDE DEF m
  <2>5. /\ (size[m] = 0 => ReplyValue(e, k) = Crash)
        /\ (size[m] # 0 /\ b # Unbound => ReplyValue(e, k) = b)
        /\ (size[m] # 0 /\ b = Unbound => ReplyValue(e, k) \in {Nil, Error})
    BY <2>1, MapReplies
  <2>6. QED
    BY <2>3, <2>4, <2>5, NameFacts
<1>5. QED
  BY <1>1, <1>2, <1>3, <1>4, EntryFacts

EntriesOf(st) == Promise!Entries(st)
Speaking(st, k) == {i \in DOMAIN EntriesOf(st) : SaysOf(EntriesOf(st)[i], k)}

LEMMA EntriesFacts ==
  ASSUME NEW st, ReadyStore(st)
  PROVE  LET all == EntriesOf(st)
             N == Len(st.list)
         IN  /\ N \in Nat /\ DOMAIN st.list = 1 .. N
             /\ \A i \in 1 .. N : all[i] = st.list[i]
             /\ (st.tail = Nil => DOMAIN all = 1 .. N)
             /\ (st.tail # Nil => DOMAIN all = 1 .. N + 1 /\ all[N + 1] = <<"map", st.tail>>)
             /\ (st.tail = Nil /\ N = 0 => all = <<>>)
<1> DEFINE list == st.list
           N == Len(list)
           e == <<"map", st.tail>>
<1>1. list \in Seq(Entry)
  BY DEF ReadyStore
<1>2. st.tail # Nil => e \in Entry
  BY DEF ReadyStore, Entry
<1>3. EntriesOf(st) = IF st.tail = Nil THEN list ELSE Append(list, e)
  BY PromiseNames DEF EntriesOf, Promise!Entries
<1> HIDE DEF list, e
<1>4. N \in Nat /\ DOMAIN list = 1 .. N /\ (N = 0 => list = <<>>)
  BY <1>1
<1>5. st.tail # Nil => LET all == Append(list, e) IN
        DOMAIN all = 1 .. N + 1 /\ all[N + 1] = e /\ \A i \in 1 .. N : all[i] = list[i]
  BY <1>1, <1>2
<1>6. QED
  BY <1>3, <1>4, <1>5 DEF list, e

LEMMA SpeakingFirst ==
  ASSUME NEW st, ReadyStore(st), NEW k \in Name, NEW i \in DOMAIN EntriesOf(st),
         SaysOf(EntriesOf(st)[i], k), \A j \in 1 .. i - 1 : ~ SaysOf(EntriesOf(st)[j], k)
  PROVE  Promise!Meaning(st, k) = ValueInOf(EntriesOf(st)[i], k)
<1> DEFINE S == Speaking(st, k)
<1>1. Promise!Meaning(st, k) = IF S = {} THEN Nil ELSE ValueInOf(EntriesOf(st)[Min(S)], k)
  BY PromiseNames, PromiseMin DEF Promise!Meaning, Speaking, SaysOf, EntriesOf, ValueInOf
<1>2. i \in S
  BY DEF Speaking
<1>3. S \in SUBSET Nat /\ i \in Nat /\ \A j \in S : j >= 1 /\ SaysOf(EntriesOf(st)[j], k)
  <2>1. PICK N \in Nat : DOMAIN EntriesOf(st) = 1 .. N
    <3>1. Len(st.list) \in Nat /\ Len(st.list) + 1 \in Nat
      BY EntriesFacts
    <3>2. QED
      BY <3>1, EntriesFacts
  <2>2. QED
    BY <2>1 DEF Speaking
<1> HIDE DEF S
<1>4. Min(S) \in S /\ Min(S) <= i
  BY <1>2, <1>3, MinFacts
<1>5. Min(S) = i
  <2>1. Min(S) \notin 1 .. i - 1
    BY <1>3, <1>4
  <2>2. Min(S) \in Nat /\ Min(S) >= 1
    BY <1>3, <1>4
  <2>3. QED
    BY <1>3, <1>4, <2>1, <2>2
<1>6. QED
  BY <1>1, <1>2, <1>5

LEMMA SpeakingNone ==
  ASSUME NEW st, NEW k \in Name, \A i \in DOMAIN EntriesOf(st) : ~ SaysOf(EntriesOf(st)[i], k)
  PROVE  Promise!Meaning(st, k) = Nil
<1>1. Promise!Meaning(st, k) = IF Speaking(st, k) = {} THEN Nil
                               ELSE ValueInOf(EntriesOf(st)[Min(Speaking(st, k))], k)
  BY PromiseNames, PromiseMin DEF Promise!Meaning, Speaking, SaysOf, EntriesOf, ValueInOf
<1>2. QED
  BY <1>1 DEF Speaking

LEMMA ObstructedAt ==
  ASSUME NEW st, NEW k \in Name, NEW i \in DOMAIN EntriesOf(st),
         ObstructsOf(EntriesOf(st)[i], k), \A j \in 1 .. i - 1 : ~ SaysOf(EntriesOf(st)[j], k)
  PROVE  Promise!Obstructed(st, k)
BY DEF Promise!Obstructed, EntriesOf, ObstructsOf, SaysOf

LEMMA SearchMeans ==
  ASSUME MapsPlaced, NEW st, ReadyStore(st), NEW k \in Name, SearchValue(k, st) # Crash
  PROVE  \/ SearchValue(k, st) = Promise!Meaning(st, k)
         \/ SearchValue(k, st) = Error /\ Promise!Obstructed(st, k)
<1> DEFINE all == EntriesOf(st)
           list == st.list
           N == Len(list)
           stops == StopsFor(list, k)
           last == ReplyValue(<<"map", st.tail>>, k)
           found == SearchValue(k, st)
<1>1. /\ N \in Nat /\ DOMAIN list = 1 .. N
      /\ \A i \in 1 .. N : all[i] = list[i] /\ ReadyEntry(list[i])
      /\ (st.tail = Nil => DOMAIN all = 1 .. N)
      /\ (st.tail # Nil => DOMAIN all = 1 .. N + 1 /\ all[N + 1] = <<"map", st.tail>>)
      /\ (st.tail = Nil /\ N = 0 => all = <<>>)
      /\ (N = 0 <=> list = <<>>)
  <2>1. list \in Seq(Entry)
    BY DEF ReadyStore
  <2>2. N = 0 <=> list = <<>>
    <3> HIDE DEF list
    <3>1. QED
      BY <2>1
  <2>3. QED
    BY <2>2, EntriesFacts DEF ReadyStore
<1>2. /\ (stops # {} => Min(stops) \in stops /\ found = ReplyValue(list[Min(stops)], k))
      /\ (stops = {} /\ st.tail = Nil => found = IF list = <<>> THEN Error ELSE Nil)
      /\ (stops = {} /\ st.tail # Nil => found = IF last = Nil /\ list # <<>> THEN Crash ELSE last)
  BY SearchCases
<1>3. stops \in SUBSET (1 .. N) /\ \A i \in 1 .. N : i \in stops <=> Stops(list[i], k, FALSE)
  BY <1>1 DEF StopsFor
<1>4. st.tail # Nil => ReadyEntry(<<"map", st.tail>>)
  BY DEF ReadyStore, ReadyEntry, Entry
<1>5. ASSUME NEW i \in 1 .. N, i \notin stops
      PROVE  ~ SaysOf(all[i], k)
  <2>1. ReadyEntry(list[i]) /\ all[i] = list[i] /\ ~ Stops(list[i], k, FALSE)
    BY <1>1, <1>3, <1>5
  <2>2. ReplyValue(list[i], k) # Crash
    <3>1. CASE list[i][1] = "map"
      BY <2>1, <3>1, NameFacts DEF Stops, ReplyValue
    <3>2. CASE list[i][1] # "map"
      <4>1. list[i] \in Entry
        BY <2>1 DEF ReadyEntry
      <4>2. QED
        BY <2>1, <3>2, <4>1, EntryFacts, EntryReplies, NameFacts
    <3>3. QED
      BY <3>1, <3>2
  <2>3. QED
    BY <2>1, <2>2, EntrySays
<1> HIDE DEF all, list, stops, last, found, N
<1>6. CASE stops # {}
  <2> DEFINE i == Min(stops)
  <2>1. i \in 1 .. N /\ i \in stops /\ found = ReplyValue(list[i], k) /\ \A j \in stops : i <= j
    <3>1. stops \in SUBSET Nat
      BY <1>1, <1>3
    <3>2. QED
      BY <1>2, <1>3, <1>6, <3>1, MinFacts
  <2> HIDE DEF i
  <2>2. i \in DOMAIN all /\ all[i] = list[i] /\ ReadyEntry(list[i]) /\ Stops(list[i], k, FALSE)
    <3>1. all[i] = list[i] /\ ReadyEntry(list[i])
      BY <1>1, <2>1
    <3>2. Stops(list[i], k, FALSE)
      BY <1>3, <2>1
    <3>3. 1 .. N \subseteq DOMAIN all
      BY <1>1
    <3>4. QED
      BY <2>1, <3>1, <3>2, <3>3
  <2>3. \A j \in 1 .. i - 1 : ~ SaysOf(all[j], k)
    <3>1. \A j \in 1 .. i - 1 : j \in 1 .. N /\ ~ (i <= j)
      BY <1>1, <2>1
    <3>2. QED
      BY <1>5, <2>1, <3>1
  <2>4. ReplyValue(list[i], k) # Crash
    BY <2>1 DEF found
  <2>5. CASE SaysOf(list[i], k)
    <3>1. found = ValueInOf(all[i], k)
      BY <2>1, <2>2, <2>4, <2>5, EntrySays
    <3>2. Promise!Meaning(st, k) = ValueInOf(all[i], k)
      BY <2>2, <2>3, <2>5, SpeakingFirst DEF all
    <3>3. QED
      BY <3>1, <3>2 DEF found
  <2>6. CASE ~ SaysOf(list[i], k)
    <3>1. found = Error /\ ObstructsOf(all[i], k)
      BY <2>1, <2>2, <2>4, <2>6, EntrySays
    <3>2. Promise!Obstructed(st, k)
      BY <2>2, <2>3, <3>1, ObstructedAt DEF all
    <3>3. QED
      BY <3>1, <3>2 DEF found
  <2>7. QED
    BY <2>5, <2>6
<1>7. CASE stops = {} /\ st.tail = Nil
  <2>1. CASE list = <<>>
    <3>1. found = Error /\ all = <<>>
      BY <1>1, <1>2, <1>7, <2>1
    <3>2. Promise!Obstructed(st, k)
      BY <3>1 DEF Promise!Obstructed, all, EntriesOf
    <3>3. QED
      BY <3>1, <3>2 DEF found
  <2>2. CASE list # <<>>
    <3>1. found = Nil
      BY <1>2, <1>7, <2>2
    <3>2. \A i \in DOMAIN all : ~ SaysOf(all[i], k)
      BY <1>1, <1>5, <1>7
    <3>3. QED
      BY <3>1, <3>2, SpeakingNone DEF all, found
  <2>3. QED
    BY <2>1, <2>2
<1>8. CASE stops = {} /\ st.tail # Nil
  <2> DEFINE e == <<"map", st.tail>>
             i == N + 1
  <2>1. found = last /\ (last = Nil => list = <<>>) /\ last # Crash
    BY <1>2, <1>8 DEF found
  <2>2. i \in DOMAIN all /\ all[i] = e /\ ReadyEntry(e) /\ i \in Nat
    BY <1>1, <1>4, <1>8
  <2>3. \A j \in 1 .. i - 1 : ~ SaysOf(all[j], k)
    <3>1. \A j \in 1 .. i - 1 : j \in 1 .. N
      BY <1>1
    <3>2. QED
      BY <1>5, <1>8, <3>1
  <2>4. last = ReplyValue(e, k) /\ (Stops(e, k, FALSE) <=> last # Nil)
    BY DEF last, Stops, ReplyValue
  <2>5. DOMAIN all = 1 .. i
    BY <1>1, <1>8
  <2> HIDE DEF e, i
  <2>6. /\ (SaysOf(e, k) => Stops(e, k, FALSE) /\ last = ValueInOf(e, k))
        /\ (Stops(e, k, FALSE) /\ ~ SaysOf(e, k) => ObstructsOf(e, k) /\ last = Error)
    BY <2>1, <2>2, <2>4, EntrySays
  <2>7. CASE SaysOf(e, k)
    <3>1. Promise!Meaning(st, k) = ValueInOf(all[i], k)
      BY <2>2, <2>3, <2>7, SpeakingFirst DEF all
    <3>2. QED
      BY <2>1, <2>2, <2>6, <2>7, <3>1 DEF found
  <2>8. CASE ~ SaysOf(e, k) /\ last # Nil
    <3>1. last = Error /\ ObstructsOf(all[i], k)
      BY <2>2, <2>4, <2>6, <2>8
    <3>2. Promise!Obstructed(st, k)
      BY <2>2, <2>3, <3>1, ObstructedAt DEF all
    <3>3. QED
      BY <2>1, <3>1, <3>2 DEF found
  <2>9. CASE ~ SaysOf(e, k) /\ last = Nil
    <3>1. \A j \in DOMAIN all : ~ SaysOf(all[j], k)
      <4>1. \A j \in 1 .. i : j = i \/ j \in 1 .. i - 1
        BY <2>2
      <4>2. QED
        BY <2>2, <2>3, <2>5, <2>9, <4>1
    <3>2. QED
      BY <2>1, <2>9, <3>1, SpeakingNone DEF all, found
  <2>10. QED
    BY <2>7, <2>8, <2>9
<1>9. QED
  BY <1>6, <1>7, <1>8

LEMMA Searches ==
  ASSUME NamesInv, NEW k \in Name, Assoc(k), ~ Dies
  PROVE  Promise!Next
<1> DEFINE st == OrOblist(store)
           found == SearchValue(k, st)
<1>1. found # Crash /\ answer' = found /\ UNCHANGED <<size, bucket, envs, store>>
  BY DEF Assoc, SearchValue
<1>2. ReadyStore(st)
  BY StoreIsReady DEF NamesInv
<1>3. B' = B /\ L' = L
  BY <1>1, Unchanging
<1> HIDE DEF st
<1>4. \/ answer' = Promise!Meaning(st, k)
      \/ answer' = Error /\ Promise!Obstructed(st, k)
  BY <1>1, <1>2, SearchMeans DEF NamesInv
<1>5. Promise!Search(st, k)
  BY <1>1, <1>3, <1>4, PromiseNames DEF Promise!Search, B, L
<1>6. st = store \/ st = [list |-> <<>>, tail |-> Oblist]
  BY DEF st, OrOblist, MapOnly, StoreOf
<1>7. QED
  BY <1>5, <1>6 DEF Promise!Next

LEMMA Builds ==
  ASSUME NamesInv, \/ \E tail \in Map \cup {Nil} : StartStore(tail)
                   \/ \E e \in Entry : Extend(e)
  PROVE  Promise!Next
<1>1. answer' = Nothing /\ UNCHANGED <<size, bucket, envs>>
  BY DEF StartStore, Extend
<1>2. B' = B /\ L' = L
  BY <1>1, Unchanging
<1>3. \/ \E m \in Map \cup {Nil} : store' = [list |-> <<>>, tail |-> m]
      \/ \E e \in Entry : store' = [store EXCEPT !.list = <<e>> \o @]
  BY DEF StartStore, Extend, StoreOf
<1>4. Promise!Build
  BY <1>1, <1>2, <1>3, PromiseNames DEF Promise!Build, B, L, Entry
<1>5. QED
  BY <1>4 DEF Promise!Next

(* The initial states. *)
LEMMA PromiseInit == Init => Promise!Init
<1> SUFFICES ASSUME Init PROVE Promise!Init
  OBVIOUS
<1>1. NamesInv
  BY NamesInit
<1>2. \A m \in Map, k \in Name : BindingIn(m, k) = Unbound
  <2>1. ASSUME NEW m \in Map, NEW k \in Name
        PROVE  Bound(bucket[m], size[m], k) = Unbound
    <3>1. bucket[m] = Empty /\ size[m] \in Width \cup {Unmade}
      BY <1>1 DEF Init, NamesInv, MapsPlaced
    <3>2. CASE size[m] \in Width
      BY <3>1, <3>2, EmptyFacts DEF Key
    <3>3. CASE size[m] = Unmade
      BY <3>3 DEF Bound, Unmade
    <3>4. QED
      BY <3>1, <3>2, <3>3
  <2>2. QED
    BY <1>1, <2>1, BindingIsBound DEF NamesInv
<1>3. ASSUME NEW k \in Name
      PROVE  LocalBinding(Root, k) = Unbound
  <2>1. Root \in Seq(Entry) /\ DOMAIN Root = {1} /\ Root[1][1] = "map"
    BY DEF Root, Entry
  <2>2. LocalHits(Root, k) = {}
    BY <2>1 DEF LocalHits
  <2>3. QED
    BY <2>1, <2>2, LocalCases
<1>4. L = <<Promise!NoBindings>>
  <2>1. envs = <<Root>>
    BY DEF Init
  <2>2. [k \in Name |-> LocalBinding(Root, k)] = Promise!NoBindings
    BY <1>3, PromiseNames DEF Promise!NoBindings
  <2>3. L = [i \in DOMAIN <<Root>> |-> [k \in Name |-> LocalBinding(<<Root>>[i], k)]]
    BY <2>1 DEF L
  <2>4. DOMAIN <<Root>> = 1 .. 1 /\ \A i \in 1 .. 1 : <<Root>>[i] = Root
    OBVIOUS
  <2> DEFINE none == Promise!NoBindings
  <2>5. L = [i \in 1 .. 1 |-> none]
    BY <2>2, <2>3, <2>4
  <2> HIDE DEF none
  <2>6. <<none>> = [i \in 1 .. 1 |-> none]
    OBVIOUS
  <2>7. QED
    BY <2>5, <2>6 DEF none
<1>5. B = [m \in Map |-> Promise!NoBindings]
  BY <1>2, PromiseNames DEF B, Promise!NoBindings
<1>6. store = [list |-> <<>>, tail |-> Nil] /\ answer = Nothing
  BY DEF Init, NilStore, StoreOf
<1>7. QED
  BY <1>4, <1>5, <1>6, PromiseNames DEF Promise!Init, B, L

(* Every step is one of Scopes, or none. *)
Seen == <<B, L, store, answer>>

LEMMA DiesUnseen == Dies => UNCHANGED Seen
BY Unchanging DEF Dies, Seen

LEMMA PromiseStep ==
  ASSUME NamesInv, NamesInv', [Next]_vars
  PROVE  Promise!Next \/ UNCHANGED Seen
<1>1. CASE UNCHANGED vars
  BY <1>1, Unchanging DEF vars, Seen
<1>2. ASSUME NEW k \in Name, NEW v \in Value, DeepBind(k, v)
      PROVE  Promise!Next
  <2>1. Oblist \in Map /\ Ready(Oblist) /\ size[Oblist] > 0
    BY OblistIsReady DEF NamesInv, OblistReady
  <2>2. /\ size' = size /\ answer' = Nothing /\ store' = store /\ envs' = envs
        /\ bucket' = [bucket EXCEPT ![Oblist] = HashmapPut(@, size[Oblist], k, v)]
    BY <1>2 DEF DeepBind
  <2>3. B' = [B EXCEPT ![Oblist][k] = v]
    BY <2>1, <2>2, BindsOne DEF NamesInv
  <2>4. QED
    BY <2>1, <2>2, <2>3, Unchanging, PromiseBind
<1>3. ASSUME NEW m \in Map \ {Oblist}, NEW k \in Name, NEW v \in Value, PutShriek(m, k, v)
      PROVE  Promise!Next \/ UNCHANGED Seen
  <2>1. CASE size[m] = 0
    BY <1>3, <2>1, DiesUnseen DEF PutShriek
  <2>2. CASE size[m] # 0
    <3>1. Ready(m) /\ size[m] > 0
      BY <1>3, <2>2, MadeIsReady, NameFacts DEF PutShriek, NamesInv, Ready
    <3>2. /\ size' = size /\ answer' = Nothing /\ store' = store /\ envs' = envs
          /\ bucket' = [bucket EXCEPT ![m] = HashmapPut(@, size[m], k, v)]
      BY <1>3, <2>2 DEF PutShriek
    <3>3. B' = [B EXCEPT ![m][k] = v]
      BY <3>1, <3>2, BindsOne DEF NamesInv
    <3>4. QED
      BY <3>2, <3>3, Unchanging, PromiseBind
  <2>3. QED
    BY <2>1, <2>2
<1>4. ASSUME NEW m \in Map, NEW n \in Sizes, MakeHashmap(m, n, <<>>)
      PROVE  Promise!Next
  BY <1>4, MakesEmpty
<1>5. ASSUME NEW m \in Map, NEW n \in Sizes, MakeHashmap(m, n, ItemsOf(store))
      PROVE  Promise!Next \/ UNCHANGED Seen
  <2>1. CASE n = 0 /\ ItemsOf(store) # <<>>
    BY <1>5, <2>1, DiesUnseen DEF MakeHashmap
  <2>2. CASE ~ (n = 0 /\ ItemsOf(store) # <<>>)
    BY <1>5, <2>2, MakesFull
  <2>3. QED
    BY <2>1, <2>2
<1>6. ASSUME NEW m \in Map, PutAll(m)
      PROVE  Promise!Next \/ UNCHANGED Seen
  <2>1. CASE size[m] = 0 /\ PutsAnything
    BY <1>6, <2>1, DiesUnseen DEF PutAll
  <2>2. CASE ~ (size[m] = 0 /\ PutsAnything)
    BY <1>6, <2>2, PutsAll
  <2>3. QED
    BY <2>1, <2>2
<1>7. ASSUME NEW k \in Name, EvalSymbol(k)
      PROVE  Promise!Next
  BY <1>7, Evaluates
<1>8. ASSUME NEW k \in Name, Assoc(k)
      PROVE  Promise!Next \/ UNCHANGED Seen
  BY <1>8, DiesUnseen, Searches
<1>9. CASE Crashed
  BY <1>1, <1>9 DEF Crashed
<1>10. QED
  BY <1>1, <1>2, <1>3, <1>4, <1>5, <1>6, <1>7, <1>8, <1>9, Builds, Scoped DEF Next

(* Hashing, chains, copying and lists of local bindings together behave as a
   global function and nested scopes: binding a name, or all of a store,
   changes what that binds and nothing else; leaving a scope undoes its
   bindings and no others; an evaluated name has its innermost local value,
   else the latest global one; and a lookup that does not end the process or
   fail finds the first that speaks of the name.                           *)
THEOREM NamespacesImplementScopes == Spec => ImplementsScopes
<1>1. Init => Promise!Init
  BY PromiseInit
<1>2. NamesInv /\ NamesInv' /\ [Next]_vars => [Promise!Next]_Seen
  BY PromiseStep
<1>3. [][Promise!Next]_Seen <=> [][Promise!Next]_<<[m \in Map |-> [k \in Name |-> BindingIn(m, k)]],
          [i \in DOMAIN envs |-> [k \in Name |-> LocalBinding(envs[i], k)]], store, answer>>
  BY DEF Seen, B, L
<1>4. QED
  BY <1>1, <1>2, <1>3, NamesSound, PTL DEF Spec, ImplementsScopes, Promise!Spec
=============================================================================
