--------------------------- MODULE EqualityProofs ----------------------------
(* Proofs about equal(): copies are equal if they share their hashmaps and
   only then, equal texts have the same hash, and texts as the reader makes
   them, and lists of them, are equal only if they look the same; for every
   set of characters, every width of hashes and every size of the buffer.  *)
EXTENDS Equality, Recursion

USE ConstantsAssumption

-----------------------------------------------------------------------------
(* The heap.                                                               *)

ObjectTags == TextTags \cup {"CONS", "INTR", "VECP"}
Objects == [tag : ObjectTags, car : Nat, cdr : Nat, chr : Nat, hash : 0 .. HashRange - 1]

(* What the heap is like, whatever call goes on. *)
HeapTyped ==
  /\ heap \in Seq(Objects)
  /\ \A p \in DOMAIN heap : heap[p].car \in 0 .. p - 1 /\ heap[p].cdr \in 0 .. p - 1

(* The cells of a text have its type; a null is the last; and the hash of each
   is that of its character and its tail.                                  *)
TextCell(p) ==
  /\ heap[p].cdr = NIL \/ Tag(heap[p].cdr) = heap[p].tag
  /\ heap[p].chr = 0 => heap[p].cdr = NIL
  /\ heap[p].hash = CalculateHash(heap[p].chr, heap[p].cdr)
TextsFormed == \A p \in DOMAIN heap : IsText(p) => TextCell(p)

(* Only lists use the first pointer, and integers none. *)
AtomsFormed ==
  \A p \in DOMAIN heap : /\ heap[p].tag # "CONS" => heap[p].car = NIL
                         /\ heap[p].tag = "INTR" => heap[p].cdr = NIL

LEMMA HeapFacts ==
  ASSUME HeapTyped
  PROVE  /\ Len(heap) \in Nat /\ DOMAIN heap = 1 .. Len(heap)
         /\ \A p \in Pointer : /\ p \in Nat /\ (p # NIL => p \in DOMAIN heap)
                               /\ Cdr(p) \in Pointer
         /\ \A p \in DOMAIN heap : /\ p \in Pointer /\ p # NIL /\ heap[p] \in Objects
                                   /\ heap[p].car \in Pointer /\ heap[p].car < p
                                   /\ heap[p].cdr \in Pointer /\ heap[p].cdr < p
<1>1. Len(heap) \in Nat /\ DOMAIN heap = 1 .. Len(heap)
  BY DEF HeapTyped
<1>2. \A p \in DOMAIN heap : /\ p \in Pointer /\ p # NIL /\ heap[p] \in Objects
                             /\ heap[p].car \in Pointer /\ heap[p].car < p
                             /\ heap[p].cdr \in Pointer /\ heap[p].cdr < p
  BY <1>1 DEF HeapTyped, Pointer, NIL
<1>3. \A p \in Pointer : p \in Nat /\ (p # NIL => p \in DOMAIN heap)
  BY <1>1 DEF Pointer, NIL
<1>4. \A p \in Pointer : Cdr(p) \in Pointer
  <2>1. NIL \in Pointer
    BY <1>1 DEF NIL, Pointer
  <2>2. Tag(NIL) = "NIL"
    BY DEF Tag
  <2>3. ~ IsText(NIL) /\ Tag(NIL) # "CONS"
    BY <2>2 DEF IsText
  <2>4. Cdr(NIL) \in Pointer
    BY <2>1, <2>3 DEF Cdr
  <2>5. ASSUME NEW p \in Pointer, p # NIL
        PROVE  Cdr(p) \in Pointer
    <3>1. p \in DOMAIN heap
      BY <1>3, <2>5
    <3>2. heap[p].cdr \in Pointer
      BY <1>2, <3>1
    <3>3. QED
      BY <2>1, <3>2 DEF Cdr
  <2>6. QED
    BY <2>4, <2>5
<1>5. QED
  BY <1>1, <1>2, <1>3, <1>4 DEF Pointer

-----------------------------------------------------------------------------
(* The functions defined by recursion.                                     *)

Place(p) ==
  CHOOSE place : place = [i \in 0 .. Shipyard |-> IF i = 0 THEN p ELSE Cdr(place[i - 1])]

LEMMA AfterPlace == \A p, n : After(p, n) = Place(p)[n]
BY DEF After, Place

(* After walks along the cdrs. *)
LEMMA AfterFacts ==
  ASSUME HeapTyped, NEW p \in Pointer
  PROVE  /\ After(p, 0) = p
         /\ \A n \in 1 .. Shipyard : After(p, n) = Cdr(After(p, n - 1))
         /\ \A n \in 0 .. Shipyard : After(p, n) \in Pointer
<1> DEFINE D == 0 .. Shipyard
           rank == [i \in D |-> i]
           body(g, i) == IF i = 0 THEN p ELSE Cdr(g[i - 1])
           step == [g \in [D -> Pointer] |-> [i \in D |-> body(g, i)]]
<1>1. \A q \in Pointer : Cdr(q) \in Pointer
  BY HeapFacts
<1>2. \A g \in [D -> Pointer], i \in D : body(g, i) \in Pointer
  BY <1>1
<1>3. step \in [[D -> Pointer] -> [D -> Pointer]]
  <2> HIDE DEF body
  <2>1. QED
    BY <1>2
<1>4. rank \in [D -> Nat] /\ Shipyard + 1 \in Nat /\ \A i \in D : rank[i] < Shipyard + 1
  OBVIOUS
<1>5. [i \in D |-> p] \in [D -> Pointer]
  OBVIOUS
<1>6. LooksBelow(D, Pointer, rank, step)
  <2>1. SUFFICES ASSUME NEW g \in [D -> Pointer], NEW h \in [D -> Pointer], NEW i \in D,
                        \A j \in D : rank[j] < rank[i] => g[j] = h[j]
                 PROVE  step[g][i] = step[h][i]
    BY DEF LooksBelow
  <2>2. i # 0 => i - 1 \in D /\ g[i - 1] = h[i - 1]
    BY <2>1
  <2>3. body(g, i) = body(h, i)
    BY <2>2
  <2>4. step[g][i] = body(g, i) /\ step[h][i] = body(h, i)
    OBVIOUS
  <2>5. QED
    BY <2>3, <2>4
<1>7. PICK f \in [D -> Pointer] : f = step[f]
  <2>1. Recursive(D, Pointer, rank, step, [i \in D |-> p], Shipyard + 1)
    <3> HIDE DEF step, rank, D
    <3>1. QED
      BY <1>3, <1>4, <1>5, <1>6 DEF Recursive
  <2> HIDE DEF step, rank, D
  <2>2. QED
    BY <2>1, Recursion
<1>8. f = [i \in D |-> IF i = 0 THEN p ELSE Cdr(f[i - 1])]
  BY <1>7
<1>9. Place(p) = [i \in D |-> IF i = 0 THEN p ELSE Cdr(Place(p)[i - 1])]
  BY <1>8 DEF Place
<1> DEFINE P == Place(p)
<1>10. P = [i \in D |-> IF i = 0 THEN p ELSE Cdr(P[i - 1])]
  BY <1>9
<1> HIDE DEF P
<1>11. P[0] = p /\ \A n \in 1 .. Shipyard : P[n] = Cdr(P[n - 1])
  BY <1>10
<1>12. \A n \in 0 .. Shipyard : P[n] \in Pointer
  <2> DEFINE Bad == {n \in 0 .. Shipyard : P[n] \notin Pointer}
  <2>1. SUFFICES ASSUME Bad # {} PROVE FALSE
    OBVIOUS
  <2>2. PICK n \in Bad : \A y \in Bad : n <= y
    <3>1. Bad \in SUBSET Nat
      OBVIOUS
    <3> HIDE DEF Bad
    <3>2. QED
      BY <2>1, <3>1, Least
  <2>3. n \in 1 .. Shipyard
    BY <1>11
  <2>4. P[n - 1] \in Pointer
    <3>1. n - 1 \in 0 .. Shipyard /\ ~(n <= n - 1)
      BY <2>3
    <3>2. n - 1 \notin Bad
      <4> HIDE DEF Bad
      <4>1. QED
        BY <2>2, <3>1
    <3>3. QED
      BY <3>1, <3>2
  <2>5. QED
    BY <1>1, <1>11, <2>2, <2>3, <2>4
<1>13. QED
  BY <1>11, <1>12, AfterPlace DEF P

SharingIn(h) ==
  CHOOSE sharing : sharing = [p \in 0 .. Len(h) |->
    {q \in 0 .. Len(h) :
       \/ p = q
       \/ /\ p # NIL /\ q # NIL
          /\ h[p].tag = h[q].tag /\ h[p].tag # "VECP"
          /\ h[p].chr = h[q].chr
          /\ h[q].car \in sharing[h[p].car]
          /\ h[q].cdr \in sharing[h[p].cdr]}]

LEMMA SharingDefined == SharingCopies = SharingIn(heap)
BY DEF SharingCopies, SharingIn, Pointer

SharesWith(c, p, q) ==
  \/ p = q
  \/ /\ p # NIL /\ q # NIL
     /\ heap[p].tag = heap[q].tag /\ heap[p].tag # "VECP"
     /\ heap[p].chr = heap[q].chr
     /\ heap[q].car \in c[heap[p].car]
     /\ heap[q].cdr \in c[heap[p].cdr]

(* What the definition of SharingCopies says is true of it. *)
LEMMA SharingFacts ==
  ASSUME HeapTyped
  PROVE  \A p, q \in Pointer : q \in SharingCopies[p] <=> SharesWith(SharingCopies, p, q)
<1> DEFINE D == Pointer
           R == SUBSET Pointer
           rank == [p \in D |-> p]
           step == [g \in [D -> R] |-> [p \in D |-> {q \in Pointer : SharesWith(g, p, q)}]]
           start == [p \in D |-> {}]
<1>1. step \in [[D -> R] -> [D -> R]] /\ start \in [D -> R]
  OBVIOUS
<1>2. rank \in [D -> Nat] /\ Len(heap) + 1 \in Nat /\ \A p \in D : rank[p] < Len(heap) + 1
  BY HeapFacts DEF Pointer
<1>3. LooksBelow(D, R, rank, step)
  <2>1. SUFFICES ASSUME NEW g \in [D -> R], NEW h \in [D -> R], NEW p \in D,
                        \A e \in D : rank[e] < rank[p] => g[e] = h[e]
                 PROVE  step[g][p] = step[h][p]
    BY DEF LooksBelow
  <2>2. p # NIL => g[heap[p].car] = h[heap[p].car] /\ g[heap[p].cdr] = h[heap[p].cdr]
    <3>1. ASSUME p # NIL
          PROVE  /\ heap[p].car \in D /\ heap[p].car < p
                 /\ heap[p].cdr \in D /\ heap[p].cdr < p
      <4>1. p \in Pointer
        OBVIOUS
      <4>2. p \in DOMAIN heap
        BY <3>1, <4>1, HeapFacts
      <4>3. QED
        BY <4>2, HeapFacts
    <3>2. QED
      BY <2>1, <3>1
  <2>3. \A q \in Pointer : SharesWith(g, p, q) <=> SharesWith(h, p, q)
    BY <2>2 DEF SharesWith
  <2>4. step[g][p] = {q \in Pointer : SharesWith(g, p, q)} /\ step[h][p] = {q \in Pointer : SharesWith(h, p, q)}
    OBVIOUS
  <2>5. QED
    BY <2>3, <2>4
<1>4. PICK f \in [D -> R] : f = step[f]
  <2>1. Recursive(D, R, rank, step, start, Len(heap) + 1)
    <3> HIDE DEF step, rank, D, R, start
    <3>1. QED
      BY <1>1, <1>2, <1>3 DEF Recursive
  <2> HIDE DEF step, rank, D, R, start
  <2>2. QED
    BY <2>1, Recursion
<1>5. f = [p \in Pointer |-> {q \in Pointer : SharesWith(f, p, q)}]
  BY <1>4
<1>6. SharingCopies = [p \in Pointer |-> {q \in Pointer : SharesWith(SharingCopies, p, q)}]
  BY <1>5 DEF SharingCopies, SharesWith
<1> DEFINE C == SharingCopies
<1>7. C = [p \in Pointer |-> {q \in Pointer : SharesWith(C, p, q)}]
  BY <1>6
<1> HIDE DEF C
<1>8. \A p, q \in Pointer : q \in C[p] <=> SharesWith(C, p, q)
  BY <1>7
<1>9. QED
  BY <1>8 DEF C

CopiesIn(h) ==
  CHOOSE copies : copies = [p \in 0 .. Len(h) |->
    {q \in 0 .. Len(h) :
       \/ p = q
       \/ /\ p # NIL /\ q # NIL
          /\ h[p].tag = h[q].tag /\ h[p].chr = h[q].chr
          /\ h[q].car \in copies[h[p].car]
          /\ h[q].cdr \in copies[h[p].cdr]}]

LEMMA CopiesDefined == Copies = CopiesIn(heap)
BY DEF Copies, CopiesIn, Pointer

CopyOf(c, p, q) ==
  \/ p = q
  \/ /\ p # NIL /\ q # NIL
     /\ heap[p].tag = heap[q].tag /\ heap[p].chr = heap[q].chr
     /\ heap[q].car \in c[heap[p].car]
     /\ heap[q].cdr \in c[heap[p].cdr]

(* What the definition of Copies says is true of it. *)
LEMMA CopiesFacts ==
  ASSUME HeapTyped
  PROVE  \A p, q \in Pointer : q \in Copies[p] <=> CopyOf(Copies, p, q)
<1> DEFINE D == Pointer
           R == SUBSET Pointer
           rank == [p \in D |-> p]
           step == [g \in [D -> R] |-> [p \in D |-> {q \in Pointer : CopyOf(g, p, q)}]]
           start == [p \in D |-> {}]
<1>1. step \in [[D -> R] -> [D -> R]] /\ start \in [D -> R]
  OBVIOUS
<1>2. rank \in [D -> Nat] /\ Len(heap) + 1 \in Nat /\ \A p \in D : rank[p] < Len(heap) + 1
  BY HeapFacts DEF Pointer
<1>3. LooksBelow(D, R, rank, step)
  <2>1. SUFFICES ASSUME NEW g \in [D -> R], NEW h \in [D -> R], NEW p \in D,
                        \A e \in D : rank[e] < rank[p] => g[e] = h[e]
                 PROVE  step[g][p] = step[h][p]
    BY DEF LooksBelow
  <2>2. p # NIL => g[heap[p].car] = h[heap[p].car] /\ g[heap[p].cdr] = h[heap[p].cdr]
    <3>1. ASSUME p # NIL
          PROVE  /\ heap[p].car \in D /\ heap[p].car < p
                 /\ heap[p].cdr \in D /\ heap[p].cdr < p
      <4>1. p \in Pointer
        OBVIOUS
      <4>2. p \in DOMAIN heap
        BY <3>1, <4>1, HeapFacts
      <4>3. QED
        BY <4>2, HeapFacts
    <3>2. QED
      BY <2>1, <3>1
  <2>3. \A q \in Pointer : CopyOf(g, p, q) <=> CopyOf(h, p, q)
    BY <2>2 DEF CopyOf
  <2>4. step[g][p] = {q \in Pointer : CopyOf(g, p, q)} /\ step[h][p] = {q \in Pointer : CopyOf(h, p, q)}
    OBVIOUS
  <2>5. QED
    BY <2>3, <2>4
<1>4. PICK f \in [D -> R] : f = step[f]
  <2>1. Recursive(D, R, rank, step, start, Len(heap) + 1)
    <3> HIDE DEF step, rank, D, R, start
    <3>1. QED
      BY <1>1, <1>2, <1>3 DEF Recursive
  <2> HIDE DEF step, rank, D, R, start
  <2>2. QED
    BY <2>1, Recursion
<1>5. f = [p \in Pointer |-> {q \in Pointer : CopyOf(f, p, q)}]
  BY <1>4
<1>6. Copies = [p \in Pointer |-> {q \in Pointer : CopyOf(Copies, p, q)}]
  BY <1>5 DEF Copies, CopyOf
<1> DEFINE C == Copies
<1>7. C = [p \in Pointer |-> {q \in Pointer : CopyOf(C, p, q)}]
  BY <1>6
<1> HIDE DEF C
<1>8. \A p, q \in Pointer : q \in C[p] <=> CopyOf(C, p, q)
  BY <1>7
<1>9. QED
  BY <1>8 DEF C

TextOf(g, p) ==
  IF p = NIL THEN <<>> ELSE IF heap[p].chr = 0 THEN <<>> ELSE <<heap[p].chr>> \o g[heap[p].cdr]

LEMMA CharactersFacts ==
  ASSUME HeapTyped
  PROVE  \A p \in Pointer : Characters[p] = TextOf(Characters, p)
<1> DEFINE D == Pointer
           R == Seq(Nat)
           rank == [p \in D |-> p]
           step == [g \in [D -> R] |-> [p \in D |-> TextOf(g, p)]]
           start == [p \in D |-> <<>>]
<1>1. \A g \in [D -> R], p \in D : TextOf(g, p) \in R
  <2> TAKE g \in [D -> R], p \in D
  <2>1. CASE p = NIL
    BY <2>1 DEF TextOf
  <2>2. CASE p # NIL
    <3>1. p \in Pointer
      OBVIOUS
    <3>2. p \in DOMAIN heap
      BY <2>2, <3>1, HeapFacts
    <3>3. heap[p].chr \in Nat /\ heap[p].cdr \in Pointer
      BY <3>2, HeapFacts DEF Objects
    <3>4. g[heap[p].cdr] \in Seq(Nat) /\ <<heap[p].chr>> \in Seq(Nat)
      BY <3>3
    <3>5. <<heap[p].chr>> \o g[heap[p].cdr] \in Seq(Nat)
      BY <3>4
    <3>6. QED
      BY <2>2, <3>5 DEF TextOf
  <2>3. QED
    BY <2>1, <2>2
<1>2. step \in [[D -> R] -> [D -> R]] /\ start \in [D -> R]
  BY <1>1
<1>3. rank \in [D -> Nat] /\ Len(heap) + 1 \in Nat /\ \A p \in D : rank[p] < Len(heap) + 1
  BY HeapFacts DEF Pointer
<1>4. LooksBelow(D, R, rank, step)
  <2>1. SUFFICES ASSUME NEW g \in [D -> R], NEW h \in [D -> R], NEW p \in D,
                        \A e \in D : rank[e] < rank[p] => g[e] = h[e]
                 PROVE  step[g][p] = step[h][p]
    BY DEF LooksBelow
  <2>2. p # NIL => g[heap[p].cdr] = h[heap[p].cdr]
    <3>1. ASSUME p # NIL
          PROVE  heap[p].cdr \in D /\ heap[p].cdr < p
      <4>1. p \in Pointer
        OBVIOUS
      <4>2. p \in DOMAIN heap
        BY <3>1, <4>1, HeapFacts
      <4>3. QED
        BY <4>2, HeapFacts
    <3>2. QED
      BY <2>1, <3>1
  <2>3. TextOf(g, p) = TextOf(h, p)
    BY <2>2 DEF TextOf
  <2>4. step[g][p] = TextOf(g, p) /\ step[h][p] = TextOf(h, p)
    OBVIOUS
  <2>5. QED
    BY <2>3, <2>4
<1>5. PICK f \in [D -> R] : f = step[f]
  <2>1. Recursive(D, R, rank, step, start, Len(heap) + 1)
    <3> HIDE DEF step, rank, D, R, start
    <3>1. QED
      BY <1>2, <1>3, <1>4 DEF Recursive
  <2> HIDE DEF step, rank, D, R, start
  <2>2. QED
    BY <2>1, Recursion
<1>6. f = [p \in Pointer |-> TextOf(f, p)]
  BY <1>5
<1>7. Characters = [p \in Pointer |-> TextOf(Characters, p)]
  BY <1>6 DEF Characters, TextOf
<1> DEFINE C == Characters
<1>8. C = [p \in Pointer |-> TextOf(C, p)]
  BY <1>7
<1> HIDE DEF C
<1>9. \A p \in Pointer : C[p] = TextOf(C, p)
  BY <1>8
<1>10. QED
  BY <1>9 DEF C

LikenessOf(g, p, q) ==
  \/ p = q
  \/ /\ p # NIL /\ q # NIL /\ heap[p].tag = heap[q].tag
     /\ \/ IsText(p) /\ Characters[p] = Characters[q]
        \/ /\ heap[p].tag = "CONS"
           /\ heap[q].car \in g[heap[p].car]
           /\ heap[q].cdr \in g[heap[p].cdr]
        \/ heap[p].tag = "INTR" /\ heap[p].chr = heap[q].chr

LEMMA LookalikesFacts ==
  ASSUME HeapTyped
  PROVE  \A p, q \in Pointer : q \in Lookalikes[p] <=> LikenessOf(Lookalikes, p, q)
<1> DEFINE D == Pointer
           R == SUBSET Pointer
           rank == [p \in D |-> p]
           step == [g \in [D -> R] |-> [p \in D |-> {q \in Pointer : LikenessOf(g, p, q)}]]
           start == [p \in D |-> {}]
<1>1. step \in [[D -> R] -> [D -> R]] /\ start \in [D -> R]
  OBVIOUS
<1>2. rank \in [D -> Nat] /\ Len(heap) + 1 \in Nat /\ \A p \in D : rank[p] < Len(heap) + 1
  BY HeapFacts DEF Pointer
<1>3. LooksBelow(D, R, rank, step)
  <2>1. SUFFICES ASSUME NEW g \in [D -> R], NEW h \in [D -> R], NEW p \in D,
                        \A e \in D : rank[e] < rank[p] => g[e] = h[e]
                 PROVE  step[g][p] = step[h][p]
    BY DEF LooksBelow
  <2>2. p # NIL => g[heap[p].car] = h[heap[p].car] /\ g[heap[p].cdr] = h[heap[p].cdr]
    <3>1. ASSUME p # NIL
          PROVE  /\ heap[p].car \in D /\ heap[p].car < p
                 /\ heap[p].cdr \in D /\ heap[p].cdr < p
      <4>1. p \in Pointer
        OBVIOUS
      <4>2. p \in DOMAIN heap
        BY <3>1, <4>1, HeapFacts
      <4>3. QED
        BY <4>2, HeapFacts
    <3>2. QED
      BY <2>1, <3>1
  <2>3. \A q \in Pointer : LikenessOf(g, p, q) <=> LikenessOf(h, p, q)
    BY <2>2 DEF LikenessOf
  <2>4. /\ step[g][p] = {q \in Pointer : LikenessOf(g, p, q)}
        /\ step[h][p] = {q \in Pointer : LikenessOf(h, p, q)}
    OBVIOUS
  <2>5. QED
    BY <2>3, <2>4
<1>4. PICK f \in [D -> R] : f = step[f]
  <2>1. Recursive(D, R, rank, step, start, Len(heap) + 1)
    <3> HIDE DEF step, rank, D, R, start
    <3>1. QED
      BY <1>1, <1>2, <1>3 DEF Recursive
  <2> HIDE DEF step, rank, D, R, start
  <2>2. QED
    BY <2>1, Recursion
<1>5. f = [p \in Pointer |-> {q \in Pointer : LikenessOf(f, p, q)}]
  BY <1>4
<1>6. Lookalikes = [p \in Pointer |-> {q \in Pointer : LikenessOf(Lookalikes, p, q)}]
  BY <1>5 DEF Lookalikes, LikenessOf
<1> DEFINE C == Lookalikes
<1>7. C = [p \in Pointer |-> {q \in Pointer : LikenessOf(C, p, q)}]
  BY <1>6
<1> HIDE DEF C
<1>8. \A p, q \in Pointer : q \in C[p] <=> LikenessOf(C, p, q)
  BY <1>7
<1>9. QED
  BY <1>8 DEF C

(* What is defined of the heap changes only with it. *)
PlaceIn(h, p) ==
  CHOOSE place : place = [i \in 0 .. Shipyard |->
    IF i = 0 THEN p
    ELSE IF (IF place[i - 1] = NIL THEN "NIL" ELSE h[place[i - 1]].tag) \in TextTags
            \/ (IF place[i - 1] = NIL THEN "NIL" ELSE h[place[i - 1]].tag) = "CONS"
         THEN h[place[i - 1]].cdr ELSE NIL]

TextIn(h) ==
  CHOOSE text : text = [p \in 0 .. Len(h) |->
    IF p = NIL THEN <<>> ELSE IF h[p].chr = 0 THEN <<>> ELSE <<h[p].chr>> \o text[h[p].cdr]]

LikeIn(h, texts) ==
  CHOOSE alike : alike = [p \in 0 .. Len(h) |->
    {q \in 0 .. Len(h) :
       \/ p = q
       \/ /\ p # NIL /\ q # NIL /\ h[p].tag = h[q].tag
          /\ \/ (IF p = NIL THEN "NIL" ELSE h[p].tag) \in TextTags /\ texts[p] = texts[q]
             \/ /\ h[p].tag = "CONS"
                /\ h[q].car \in alike[h[p].car]
                /\ h[q].cdr \in alike[h[p].cdr]
             \/ h[p].tag = "INTR" /\ h[p].chr = h[q].chr}]

LEMMA OfTheHeap ==
  /\ Copies = CopiesIn(heap) /\ SharingCopies = SharingIn(heap) /\ Characters = TextIn(heap)
  /\ Lookalikes = LikeIn(heap, TextIn(heap))
  /\ \A p, n : After(p, n) = PlaceIn(heap, p)[n]
<1>1. Copies = CopiesIn(heap) /\ SharingCopies = SharingIn(heap)
  BY CopiesDefined, SharingDefined
<1>2. Characters = TextIn(heap)
  BY DEF Characters, TextIn, Pointer
<1>3. Lookalikes = LikeIn(heap, Characters)
  BY DEF Lookalikes, LikeIn, Pointer, IsText, Tag
<1>4. \A p, n : After(p, n) = PlaceIn(heap, p)[n]
  BY DEF After, PlaceIn, Cdr, IsText, Tag
<1>5. QED
  BY <1>1, <1>2, <1>3, <1>4

LEMMA SameHeap ==
  ASSUME heap' = heap
  PROVE  /\ Copies' = Copies /\ SharingCopies' = SharingCopies /\ Lookalikes' = Lookalikes
         /\ \A p, n : After(p, n)' = After(p, n)
<1>1. (/\ Copies = CopiesIn(heap) /\ SharingCopies = SharingIn(heap) /\ Characters = TextIn(heap)
       /\ Lookalikes = LikeIn(heap, TextIn(heap))
       /\ \A p, n : After(p, n) = PlaceIn(heap, p)[n])'
  BY OfTheHeap, PTL
<1>2. QED
  BY <1>1, OfTheHeap

-----------------------------------------------------------------------------
(* Copies have the same hash, and nothing that equal compares differs.     *)

LEMMA BlockFacts ==
  ASSUME HeapTyped, NEW a \in Pointer, NEW b \in Pointer
  PROVE  /\ Block(a, b) \in 0 .. Shipyard - 1
         /\ \A i \in 0 .. Block(a, b) - 1 : After(a, i) # NIL /\ After(b, i) # NIL
         /\ \/ Block(a, b) = Shipyard - 1
            \/ After(a, Block(a, b)) = NIL \/ After(b, Block(a, b)) = NIL
<1> DEFINE Ends == {n \in 0 .. Shipyard - 1 :
                      n = Shipyard - 1 \/ After(a, n) = NIL \/ After(b, n) = NIL}
<1>1. PICK n \in Ends : \A y \in Ends : n <= y
  <2>1. Shipyard - 1 \in Ends /\ Ends \in SUBSET Nat
    OBVIOUS
  <2> HIDE DEF Ends
  <2>2. QED
    BY <2>1, Least
<1>2. n \in 0 .. Shipyard - 1 /\ (n = Shipyard - 1 \/ After(a, n) = NIL \/ After(b, n) = NIL)
  OBVIOUS
<1>3. ASSUME NEW i \in 0 .. n - 1
      PROVE  After(a, i) # NIL /\ After(b, i) # NIL
  <2>1. i \in 0 .. Shipyard - 1 /\ ~(n <= i)
    BY <1>2
  <2>2. i \notin Ends
    <3> HIDE DEF Ends
    <3>1. QED
      BY <1>1, <2>1
  <2>3. QED
    BY <2>1, <2>2
<1>4. \E m \in 0 .. Shipyard - 1 :
        /\ \A i \in 0 .. m - 1 : After(a, i) # NIL /\ After(b, i) # NIL
        /\ m = Shipyard - 1 \/ After(a, m) = NIL \/ After(b, m) = NIL
  BY <1>2, <1>3
<1>5. QED
  BY <1>4 DEF Block

LEMMA TextFacts ==
  ASSUME HeapTyped, TextsFormed, NEW p \in Pointer, IsText(p)
  PROVE  /\ p \in DOMAIN heap /\ p # NIL /\ heap[p].tag \in TextTags /\ TextCell(p)
         /\ heap[p].cdr \in Pointer /\ heap[p].cdr < p /\ Cdr(p) = heap[p].cdr
         /\ heap[p].cdr # NIL => IsText(heap[p].cdr)
<1>1. p # NIL
  BY DEF IsText, Tag
<1>2. p \in DOMAIN heap
  BY <1>1, HeapFacts
<1>3. TextCell(p) /\ heap[p].tag \in TextTags
  BY <1>1, <1>2 DEF TextsFormed, IsText, Tag
<1>4. heap[p].cdr \in Pointer /\ heap[p].cdr < p
  BY <1>2, HeapFacts
<1>5. QED
  BY <1>1, <1>2, <1>3, <1>4 DEF Cdr, IsText, TextCell

LEMMA SharingReflexive == HeapTyped => \A p \in Pointer : p \in SharingCopies[p]
BY SharingFacts DEF SharesWith

(* A copy that shares the hashmaps is a copy; and a copy of a text, in which
   there are none, does.                                                   *)
LEMMA SharingIsCopy ==
  ASSUME HeapTyped
  PROVE  \A p, q \in Pointer : q \in SharingCopies[p] => q \in Copies[p]
<1> DEFINE Bad == {p \in Pointer : \E q \in Pointer : q \in SharingCopies[p] /\ q \notin Copies[p]}
<1>1. SUFFICES ASSUME Bad # {} PROVE FALSE
  OBVIOUS
<1>2. PICK p \in Bad : \A y \in Bad : p <= y
  <2>1. Bad \in SUBSET Nat
    BY HeapFacts
  <2> HIDE DEF Bad
  <2>2. QED
    BY <1>1, <2>1, Least
<1>3. PICK q \in Pointer : q \in SharingCopies[p] /\ q \notin Copies[p]
  BY <1>2
<1>4. p \in Pointer
  BY <1>2
<1>5. p # q /\ SharesWith(SharingCopies, p, q)
  BY <1>3, <1>4, SharingFacts, CopiesFacts DEF CopyOf
<1>6. /\ p # NIL /\ q # NIL /\ heap[p].tag = heap[q].tag /\ heap[p].chr = heap[q].chr
      /\ heap[q].car \in SharingCopies[heap[p].car] /\ heap[q].cdr \in SharingCopies[heap[p].cdr]
  BY <1>5 DEF SharesWith
<1>7. p \in DOMAIN heap /\ q \in DOMAIN heap /\ p \in Nat
  BY <1>3, <1>4, <1>6, HeapFacts
<1>8. /\ heap[p].car \in Pointer /\ heap[p].car < p /\ heap[q].car \in Pointer
      /\ heap[p].cdr \in Pointer /\ heap[p].cdr < p /\ heap[q].cdr \in Pointer
  BY <1>7, HeapFacts
<1>9. heap[p].car \notin Bad /\ heap[p].cdr \notin Bad
  <2>1. /\ heap[p].car \in Nat /\ ~(p <= heap[p].car)
        /\ heap[p].cdr \in Nat /\ ~(p <= heap[p].cdr)
    <3>1. \A x \in Pointer : x \in Nat
      BY HeapFacts
    <3>2. QED
      BY <1>7, <1>8, <3>1
  <2> HIDE DEF Bad
  <2>2. QED
    BY <1>2, <2>1
<1>10. heap[q].car \in Copies[heap[p].car] /\ heap[q].cdr \in Copies[heap[p].cdr]
  BY <1>6, <1>8, <1>9
<1>11. CopyOf(Copies, p, q)
  BY <1>6, <1>10 DEF CopyOf
<1>12. QED
  BY <1>3, <1>4, <1>11, CopiesFacts

LEMMA TextCopiesShare ==
  ASSUME HeapTyped, TextsFormed, AtomsFormed
  PROVE  \A p, q \in Pointer : q \in Copies[p] /\ IsText(p) => q \in SharingCopies[p]
<1> DEFINE Bad == {p \in Pointer : \E q \in Pointer :
                     q \in Copies[p] /\ IsText(p) /\ q \notin SharingCopies[p]}
<1>1. SUFFICES ASSUME Bad # {} PROVE FALSE
  OBVIOUS
<1>2. PICK p \in Bad : \A y \in Bad : p <= y
  <2>1. Bad \in SUBSET Nat
    BY HeapFacts
  <2> HIDE DEF Bad
  <2>2. QED
    BY <1>1, <2>1, Least
<1>3. PICK q \in Pointer : q \in Copies[p] /\ IsText(p) /\ q \notin SharingCopies[p]
  BY <1>2
<1>4. p \in Pointer
  BY <1>2
<1>5. p # q /\ CopyOf(Copies, p, q)
  BY <1>3, <1>4, CopiesFacts, SharingReflexive
<1>6. /\ p # NIL /\ q # NIL /\ heap[p].tag = heap[q].tag /\ heap[p].chr = heap[q].chr
      /\ heap[q].car \in Copies[heap[p].car] /\ heap[q].cdr \in Copies[heap[p].cdr]
  BY <1>5 DEF CopyOf
<1>7. p \in DOMAIN heap /\ q \in DOMAIN heap /\ p \in Nat
  BY <1>3, <1>4, <1>6, HeapFacts
<1>8. heap[p].tag \in TextTags /\ heap[p].tag \notin {"CONS", "VECP"} /\ NIL \in Pointer
  <2>1. heap[p].tag \in TextTags
    BY <1>3, <1>4, TextFacts
  <2>2. QED
    BY <2>1, HeapFacts DEF Pointer, NIL
<1>9. heap[p].car = NIL /\ heap[q].car = NIL
  BY <1>6, <1>7, <1>8 DEF AtomsFormed
<1>10. heap[q].car \in SharingCopies[heap[p].car]
  BY <1>8, <1>9, SharingReflexive
<1>11. heap[q].cdr \in SharingCopies[heap[p].cdr]
  <2>1. heap[p].cdr \in Pointer /\ heap[p].cdr < p /\ heap[q].cdr \in Pointer
    BY <1>7, HeapFacts
  <2>2. CASE heap[p].cdr = NIL
    <3>1. CopyOf(Copies, NIL, heap[q].cdr)
      BY <1>6, <1>8, <2>1, <2>2, CopiesFacts
    <3>2. QED
      BY <1>8, <2>2, <3>1, SharingReflexive DEF CopyOf
  <2>3. CASE heap[p].cdr # NIL
    <3>1. IsText(heap[p].cdr)
      BY <1>3, <1>4, <2>3, TextFacts
    <3>2. heap[p].cdr \notin Bad
      <4>1. heap[p].cdr \in Nat /\ ~(p <= heap[p].cdr)
        <5>1. \A x \in Pointer : x \in Nat
          BY HeapFacts
        <5>2. QED
          BY <1>7, <2>1, <5>1
      <4> HIDE DEF Bad
      <4>2. QED
        BY <1>2, <4>1
    <3>3. QED
      BY <1>6, <2>1, <3>1, <3>2
  <2>4. QED
    BY <2>2, <2>3
<1>12. SharesWith(SharingCopies, p, q)
  BY <1>6, <1>8, <1>10, <1>11 DEF SharesWith
<1>13. QED
  BY <1>3, <1>4, <1>12, SharingFacts

LEMMA SharingHashAlike ==
  ASSUME HeapTyped, TextsFormed
  PROVE  \A p, q \in Pointer : q \in SharingCopies[p] /\ IsText(p) => heap[p].hash = heap[q].hash
<1> DEFINE Bad == {p \in Pointer : \E q \in Pointer :
                     q \in SharingCopies[p] /\ IsText(p) /\ heap[p].hash # heap[q].hash}
<1>1. SUFFICES ASSUME Bad # {} PROVE FALSE
  OBVIOUS
<1>2. PICK p \in Bad : \A y \in Bad : p <= y
  <2>1. Bad \in SUBSET Nat
    BY HeapFacts
  <2> HIDE DEF Bad
  <2>2. QED
    BY <1>1, <2>1, Least
<1>3. PICK q \in Pointer : q \in SharingCopies[p] /\ IsText(p) /\ heap[p].hash # heap[q].hash
  BY <1>2
<1>4. p \in Pointer
  BY <1>2
<1>5. p # q /\ SharesWith(SharingCopies, p, q)
  BY <1>3, <1>4, SharingFacts
<1>6. /\ p # NIL /\ q # NIL /\ heap[p].tag = heap[q].tag /\ heap[p].chr = heap[q].chr
      /\ heap[q].cdr \in SharingCopies[heap[p].cdr]
  BY <1>5 DEF SharesWith
<1>7. IsText(q)
  BY <1>3, <1>6 DEF IsText, Tag
<1> DEFINE pt == heap[p].cdr
           qt == heap[q].cdr
<1>8. /\ TextCell(p) /\ pt \in Pointer /\ pt < p /\ (pt # NIL => IsText(pt))
      /\ TextCell(q) /\ qt \in Pointer /\ qt < q /\ (qt # NIL => IsText(qt))
  BY <1>3, <1>4, <1>7, TextFacts
<1>9. ~ IsText(NIL)
  BY DEF IsText, Tag
<1>10. qt \in SharingCopies[pt] /\ SharesWith(SharingCopies, pt, qt)
  BY <1>6, <1>8, SharingFacts
<1>11. pt # NIL => qt # NIL /\ heap[pt].hash = heap[qt].hash
  <2>1. ASSUME pt # NIL PROVE qt # NIL
    BY <1>10, <2>1 DEF SharesWith
  <2>2. pt \notin Bad
    <3>1. p \in Nat /\ pt \in Nat /\ ~(p <= pt)
      <4> HIDE DEF pt, qt, Bad
      <4>1. p \in Nat /\ pt \in Nat
        BY <1>4, <1>8, HeapFacts
      <4>2. QED
        BY <1>8, <4>1
    <3> HIDE DEF Bad
    <3>2. QED
      BY <1>2, <3>1
  <2>3. QED
    BY <1>8, <1>10, <2>1, <2>2
<1>12. pt = NIL => qt = NIL
  BY <1>10 DEF SharesWith
<1>13. pt # NIL => (heap[pt].cdr = NIL <=> heap[qt].cdr = NIL)
  <2>1. ASSUME pt # NIL, pt # qt
        PROVE  heap[qt].cdr \in SharingCopies[heap[pt].cdr]
    BY <1>10, <2>1 DEF SharesWith
  <2>2. ASSUME pt # NIL
        PROVE  heap[pt].cdr \in Pointer /\ heap[qt].cdr \in Pointer
    BY <1>8, <1>11, <2>2, TextFacts
  <2>3. ASSUME pt # NIL, pt # qt
        PROVE  SharesWith(SharingCopies, heap[pt].cdr, heap[qt].cdr)
    BY <2>1, <2>2, <2>3, SharingFacts
  <2>4. QED
    BY <2>3 DEF SharesWith
<1>14. CalculateHash(heap[p].chr, pt) = CalculateHash(heap[q].chr, qt)
  BY <1>6, <1>8, <1>9, <1>11, <1>12, <1>13 DEF CalculateHash
<1>15. QED
  BY <1>3, <1>8, <1>14 DEF TextCell

LEMMA SharingCdr ==
  ASSUME HeapTyped, NEW p \in Pointer, NEW q \in SharingCopies[p], q \in Pointer
  PROVE  Cdr(q) \in SharingCopies[Cdr(p)]
<1>1. CASE p = q
  BY <1>1, HeapFacts, SharingReflexive
<1>2. CASE p # q
  <2>1. SharesWith(SharingCopies, p, q)
    BY SharingFacts
  <2>2. p # NIL /\ q # NIL /\ heap[p].tag = heap[q].tag /\ heap[q].cdr \in SharingCopies[heap[p].cdr]
    BY <1>2, <2>1 DEF SharesWith
  <2>3. Tag(p) = Tag(q)
    BY <2>2 DEF Tag
  <2>4. NIL \in Pointer
    BY HeapFacts DEF Pointer, NIL
  <2>5. NIL \in SharingCopies[NIL]
    BY <2>4, SharingReflexive
  <2>6. QED
    BY <2>2, <2>3, <2>5 DEF Cdr, IsText
<1>3. QED
  BY <1>1, <1>2

LEMMA SharingAfter ==
  ASSUME HeapTyped, NEW p \in Pointer, NEW q \in Pointer, q \in SharingCopies[p]
  PROVE  \A n \in 0 .. Shipyard : After(q, n) \in SharingCopies[After(p, n)]
<1> DEFINE Bad == {n \in 0 .. Shipyard : After(q, n) \notin SharingCopies[After(p, n)]}
<1>1. SUFFICES ASSUME Bad # {} PROVE FALSE
  OBVIOUS
<1>2. PICK n \in Bad : \A y \in Bad : n <= y
  <2>1. Bad \in SUBSET Nat
    OBVIOUS
  <2> HIDE DEF Bad
  <2>2. QED
    BY <1>1, <2>1, Least
<1>3. n \in 0 .. Shipyard /\ After(q, n) \notin SharingCopies[After(p, n)]
  BY <1>2
<1>4. n \in 1 .. Shipyard
  BY <1>3, AfterFacts
<1>5. After(q, n - 1) \in SharingCopies[After(p, n - 1)]
  <2>1. n - 1 \in 0 .. Shipyard /\ ~(n <= n - 1)
    BY <1>4
  <2>2. n - 1 \notin Bad
    <3> HIDE DEF Bad
    <3>1. QED
      BY <1>2, <2>1
  <2>3. QED
    BY <2>1, <2>2
<1>6. /\ After(p, n) = Cdr(After(p, n - 1)) /\ After(q, n) = Cdr(After(q, n - 1))
      /\ After(p, n - 1) \in Pointer /\ After(q, n - 1) \in Pointer
  BY <1>4, AfterFacts
<1>7. QED
  BY <1>3, <1>5, <1>6, SharingCdr

(* The block of a copy is the same, and what follows it is a copy. *)
LEMMA SharingBlock ==
  ASSUME HeapTyped, NEW a \in Pointer, NEW b \in Pointer, b \in SharingCopies[a]
  PROVE  /\ SameBlock(a, b, Block(a, b))
         /\ Cdr(After(b, Block(a, b))) \in SharingCopies[Cdr(After(a, Block(a, b)))]
<1> DEFINE n == Block(a, b)
<1>1. n \in 0 .. Shipyard - 1 /\ \A i \in 0 .. n - 1 : After(a, i) # NIL /\ After(b, i) # NIL
  BY BlockFacts
<1> HIDE DEF n
<1>2. n \in 0 .. Shipyard /\ \A i \in 0 .. n - 1 : i \in 0 .. Shipyard
  BY <1>1
<1>3. ASSUME NEW i \in 0 .. n - 1
      PROVE  CharAt(a, i) = CharAt(b, i)
  <2>1. After(b, i) \in SharingCopies[After(a, i)] /\ After(a, i) \in Pointer /\ After(b, i) \in Pointer
    BY <1>2, SharingAfter, AfterFacts
  <2>2. SharesWith(SharingCopies, After(a, i), After(b, i))
    BY <2>1, SharingFacts
  <2>3. QED
    BY <2>2 DEF SharesWith, CharAt
<1>4. SameBlock(a, b, n)
  BY <1>3 DEF SameBlock
<1>5. Cdr(After(b, n)) \in SharingCopies[Cdr(After(a, n))]
  BY <1>2, SharingAfter, AfterFacts, SharingCdr
<1>6. QED
  BY <1>4, <1>5 DEF n

-----------------------------------------------------------------------------
(* Texts as the reader makes them, of which a block is the same, look alike. *)

LEMMA AfterText ==
  ASSUME HeapTyped, TextsFormed, NEW p \in Pointer, IsText(p)
  PROVE  \A n \in 0 .. Shipyard : After(p, n) = NIL \/ IsText(After(p, n))
<1> DEFINE Bad == {n \in 0 .. Shipyard : ~(After(p, n) = NIL \/ IsText(After(p, n)))}
<1>1. SUFFICES ASSUME Bad # {} PROVE FALSE
  OBVIOUS
<1>2. PICK n \in Bad : \A y \in Bad : n <= y
  <2>1. Bad \in SUBSET Nat
    OBVIOUS
  <2> HIDE DEF Bad
  <2>2. QED
    BY <1>1, <2>1, Least
<1>3. n \in 0 .. Shipyard /\ ~(After(p, n) = NIL \/ IsText(After(p, n)))
  BY <1>2
<1>4. n \in 1 .. Shipyard
  BY <1>3, AfterFacts
<1>5. After(p, n - 1) = NIL \/ IsText(After(p, n - 1))
  <2>1. n - 1 \in 0 .. Shipyard /\ ~(n <= n - 1)
    BY <1>4
  <2>2. n - 1 \notin Bad
    <3> HIDE DEF Bad
    <3>1. QED
      BY <1>2, <2>1
  <2>3. QED
    BY <2>1, <2>2
<1>6. After(p, n) = Cdr(After(p, n - 1)) /\ After(p, n - 1) \in Pointer
  BY <1>4, AfterFacts
<1>7. CASE After(p, n - 1) = NIL
  BY <1>3, <1>6, <1>7 DEF Cdr, IsText, Tag
<1>8. CASE IsText(After(p, n - 1))
  BY <1>3, <1>6, <1>8, TextFacts
<1>9. QED
  BY <1>5, <1>7, <1>8

LEMMA NilStays ==
  ASSUME HeapTyped, NEW p \in Pointer, NEW n \in 0 .. Shipyard, After(p, n) = NIL
  PROVE  \A m \in n .. Shipyard : After(p, m) = NIL
<1> DEFINE Bad == {m \in n .. Shipyard : After(p, m) # NIL}
<1>1. SUFFICES ASSUME Bad # {} PROVE FALSE
  OBVIOUS
<1>2. PICK m \in Bad : \A y \in Bad : m <= y
  <2>1. Bad \in SUBSET Nat
    OBVIOUS
  <2> HIDE DEF Bad
  <2>2. QED
    BY <1>1, <2>1, Least
<1>3. m \in n .. Shipyard /\ After(p, m) # NIL
  BY <1>2
<1>4. m # n
  BY <1>3
<1>5. m - 1 \in n .. Shipyard /\ m \in 1 .. Shipyard /\ ~(m <= m - 1)
  BY <1>3, <1>4
<1>6. After(p, m - 1) = NIL
  <2>1. m - 1 \notin Bad
    <3> HIDE DEF Bad
    <3>1. QED
      BY <1>2, <1>5
  <2>2. QED
    BY <1>5, <2>1
<1>7. After(p, m) = Cdr(NIL)
  BY <1>5, <1>6, AfterFacts
<1>8. QED
  BY <1>3, <1>7 DEF Cdr, IsText, Tag

(* A null is the last character. *)
LEMMA NullEnds ==
  ASSUME HeapTyped, TextsFormed, NEW p \in Pointer, IsText(p),
         NEW n \in 0 .. Shipyard - 1, After(p, n) # NIL, CharAt(p, n) = 0
  PROVE  \A m \in n + 1 .. Shipyard : After(p, m) = NIL
<1>1. n \in 0 .. Shipyard /\ n + 1 \in 1 .. Shipyard /\ n + 1 \in 0 .. Shipyard /\ n + 1 - 1 = n
  OBVIOUS
<1>2. IsText(After(p, n)) /\ After(p, n) \in Pointer
  BY <1>1, AfterText, AfterFacts
<1>3. TextCell(After(p, n)) /\ Cdr(After(p, n)) = heap[After(p, n)].cdr
  BY <1>2, TextFacts
<1>4. Cdr(After(p, n)) = NIL
  BY <1>3 DEF TextCell, CharAt
<1>5. After(p, n + 1) = NIL
  BY <1>1, <1>4, AfterFacts
<1>6. QED
  BY <1>1, <1>5, NilStays

(* Texts with the same characters as far as a null in both. *)
LEMMA SameCharacters ==
  ASSUME HeapTyped, TextsFormed, NEW a \in Pointer, IsText(a), NEW b \in Pointer, IsText(b),
         NEW n \in 0 .. Shipyard - 1,
         \A i \in 0 .. n : /\ After(a, i) # NIL /\ After(b, i) # NIL
                           /\ CharAt(a, i) = CharAt(b, i),
         CharAt(a, n) = 0
  PROVE  Characters[a] = Characters[b]
<1> DEFINE Text(p, i) == Characters[After(p, i)]
           Good == {k \in 0 .. n : Text(a, n - k) = Text(b, n - k)}
           Bad == {k \in 0 .. n : Text(a, n - k) # Text(b, n - k)}
<1>1. ASSUME NEW p \in Pointer, IsText(p), NEW i \in 0 .. n, After(p, i) # NIL
      PROVE  /\ CharAt(p, i) = 0 => Text(p, i) = <<>>
             /\ CharAt(p, i) # 0 => Text(p, i) = <<CharAt(p, i)>> \o Text(p, i + 1)
  <2>1. i \in 0 .. Shipyard /\ i + 1 \in 1 .. Shipyard /\ i + 1 - 1 = i
    OBVIOUS
  <2>2. After(p, i) \in Pointer /\ IsText(After(p, i)) /\ After(p, i + 1) = Cdr(After(p, i))
    BY <1>1, <2>1, AfterFacts, AfterText
  <2>3. After(p, i + 1) = heap[After(p, i)].cdr
    BY <2>2, TextFacts
  <2>4. Characters[After(p, i)] = TextOf(Characters, After(p, i))
    BY <2>2, CharactersFacts
  <2>5. QED
    BY <1>1, <2>3, <2>4 DEF TextOf, CharAt
<1> HIDE DEF Text
<1>2. Bad = {}
  <2>1. SUFFICES ASSUME Bad # {} PROVE FALSE
    OBVIOUS
  <2>2. PICK k \in Bad : \A y \in Bad : k <= y
    <3>1. Bad \in SUBSET Nat
      OBVIOUS
    <3> HIDE DEF Bad
    <3>2. QED
      BY <2>1, <3>1, Least
  <2>3. k \in 0 .. n /\ Text(a, n - k) # Text(b, n - k)
    BY <2>2
  <2>4. k # 0
    <3>1. 0 \in 0 .. n /\ n \in 0 .. n /\ n - 0 = n
      OBVIOUS
    <3>2. Text(a, n) = <<>> /\ Text(b, n) = <<>>
      BY <1>1, <3>1
    <3>3. QED
      BY <2>3, <3>1, <3>2
  <2>5. /\ k - 1 \in 0 .. n /\ ~(k <= k - 1)
        /\ n - k \in 0 .. n /\ n - (k - 1) = n - k + 1
    BY <2>3, <2>4
  <2>6. Text(a, n - k + 1) = Text(b, n - k + 1)
    <3>1. k - 1 \notin Bad
      <4> HIDE DEF Bad
      <4>1. QED
        BY <2>2, <2>5
    <3>2. Text(a, n - (k - 1)) = Text(b, n - (k - 1))
      BY <2>5, <3>1
    <3>3. QED
      BY <2>5, <3>2
  <2> DEFINE i == n - k
  <2>7. i \in 0 .. n /\ Text(a, i) # Text(b, i) /\ Text(a, i + 1) = Text(b, i + 1)
    BY <2>3, <2>5, <2>6
  <2> HIDE DEF i
  <2>8. /\ After(a, i) # NIL /\ After(b, i) # NIL /\ CharAt(a, i) = CharAt(b, i)
    BY <2>7
  <2>9. QED
    BY <1>1, <2>7, <2>8
<1>3. Text(a, 0) = Text(b, 0)
  <2>1. n \in 0 .. n /\ n - n = 0
    OBVIOUS
  <2>2. QED
    BY <1>2, <2>1
<1>4. QED
  BY <1>3, AfterFacts DEF Text

LEMMA SameReads ==
  ASSUME HeapTyped, TextsFormed, AsRead, NEW a \in Pointer, IsText(a),
         NEW b \in Pointer, IsText(b), SameBlock(a, b, Block(a, b))
  PROVE  Characters[a] = Characters[b]
<1> DEFINE n == Block(a, b)
<1>1. /\ n \in 0 .. Shipyard - 1
      /\ \A i \in 0 .. n - 1 : After(a, i) # NIL /\ After(b, i) # NIL
      /\ n = Shipyard - 1 \/ After(a, n) = NIL \/ After(b, n) = NIL
  BY BlockFacts
<1>2. SameBlock(a, b, n)
  OBVIOUS
<1> HIDE DEF n
<1>3. a \in DOMAIN heap /\ b \in DOMAIN heap
  BY TextFacts
<1>4. PICK k \in 0 .. Shipyard - 2 : After(a, k) # NIL /\ CharAt(a, k) = 0
  BY <1>3 DEF AsRead
<1>5. PICK m \in 0 .. Shipyard - 2 : After(b, m) # NIL /\ CharAt(b, m) = 0
  BY <1>3 DEF AsRead
<1>6. /\ \A i \in k + 1 .. Shipyard : After(a, i) = NIL
      /\ \A i \in m + 1 .. Shipyard : After(b, i) = NIL
  <2>1. k \in 0 .. Shipyard - 1 /\ m \in 0 .. Shipyard - 1
    OBVIOUS
  <2>2. QED
    BY <1>4, <1>5, <2>1, NullEnds
<1>7. /\ \A i \in 0 .. k : After(a, i) # NIL
      /\ \A i \in 0 .. m : After(b, i) # NIL
  <2>1. ASSUME NEW p \in Pointer, NEW j \in 0 .. Shipyard - 2, After(p, j) # NIL,
               NEW i \in 0 .. j, After(p, i) = NIL
        PROVE  FALSE
    <3>1. i \in 0 .. Shipyard /\ j \in i .. Shipyard
      OBVIOUS
    <3>2. QED
      BY <2>1, <3>1, NilStays
  <2>2. QED
    BY <1>4, <1>5, <2>1
(* No null of one comes before the null of the other. *)
<1>8. /\ \A j \in 0 .. k - 1 : CharAt(a, j) # 0
      /\ \A j \in 0 .. m - 1 : CharAt(b, j) # 0
  <2>1. ASSUME NEW p \in Pointer, IsText(p), NEW l \in 0 .. Shipyard - 2, After(p, l) # NIL,
               \A i \in 0 .. l : After(p, i) # NIL, NEW j \in 0 .. l - 1, CharAt(p, j) = 0
        PROVE  FALSE
    <3>1. j \in 0 .. Shipyard - 1 /\ j \in 0 .. l /\ l \in j + 1 .. Shipyard
      OBVIOUS
    <3>2. QED
      BY <2>1, <3>1, NullEnds
  <2>2. QED
    BY <1>4, <1>5, <1>7, <2>1
<1>9. n <= k + 1 /\ n <= m + 1
  <2>1. ASSUME NEW j \in 0 .. Shipyard - 2, ~(n <= j + 1)
        PROVE  j + 1 \in 0 .. n - 1 /\ j + 1 \in j + 1 .. Shipyard
    BY <1>1, <2>1
  <2>2. QED
    BY <1>1, <1>6, <2>1
<1>10. n = k + 1 \/ n = m + 1
  <2>1. CASE n = Shipyard - 1
    BY <1>9, <2>1
  <2>2. CASE After(a, n) = NIL
    <3>1. n \notin 0 .. k
      BY <1>7, <2>2
    <3>2. QED
      BY <1>1, <1>9, <3>1
  <2>3. CASE After(b, n) = NIL
    <3>1. n \notin 0 .. m
      BY <1>7, <2>3
    <3>2. QED
      BY <1>1, <1>9, <3>1
  <2>4. QED
    BY <1>1, <2>1, <2>2, <2>3
<1>11. \A i \in 0 .. n - 1 : CharAt(a, i) = CharAt(b, i)
  <2> TAKE i \in 0 .. n - 1
  <2>1. \A j \in 0 .. i - 1 : j \in 0 .. k - 1
    BY <1>1, <1>9
  <2>2. QED
    BY <1>2, <1>8, <2>1 DEF SameBlock
<1>12. k = m
  <2>1. CASE n = k + 1
    <3>1. k \in 0 .. n - 1
      BY <2>1
    <3>2. CharAt(b, k) = 0
      BY <1>4, <1>11, <3>1
    <3>3. k \notin 0 .. m - 1
      BY <1>8, <3>2
    <3>4. QED
      BY <1>9, <2>1, <3>3
  <2>2. CASE n = m + 1
    <3>1. m \in 0 .. n - 1
      BY <2>2
    <3>2. CharAt(a, m) = 0
      BY <1>5, <1>11, <3>1
    <3>3. m \notin 0 .. k - 1
      BY <1>8, <3>2
    <3>4. QED
      BY <1>9, <2>2, <3>3
  <2>3. QED
    BY <1>10, <2>1, <2>2
<1>13. n = k + 1
  BY <1>10, <1>12
<1>14. \A i \in 0 .. k : /\ After(a, i) # NIL /\ After(b, i) # NIL
                         /\ CharAt(a, i) = CharAt(b, i)
  <2>1. \A i \in 0 .. k : i \in 0 .. n - 1
    BY <1>13
  <2>2. QED
    BY <1>7, <1>11, <1>12, <2>1
<1>15. k \in 0 .. Shipyard - 1
  OBVIOUS
<1>16. QED
  BY <1>4, <1>14, <1>15, SameCharacters

-----------------------------------------------------------------------------
(* The inductive invariant.                                                *)

CallTyped ==
  /\ asked \in {<<>>} \cup (Pointer \X Pointer) /\ todo \in Seq(Pointer \X Pointer)
  /\ verdict \in {"open", "true", "false"}
  /\ asked = <<>> => todo = <<>>
  /\ verdict = "open" <=> asked = <<>> \/ todo # <<>>

(* All that are to be compared are related by f. *)
AllIn(f, pairs) == \A i \in DOMAIN pairs : pairs[i][2] \in f[pairs[i][1]]

(* If the one is a copy of the other that shares its maps, no comparison has
   failed, and none will.                                                  *)
SharingPass ==
  asked # <<>> /\ asked[2] \in SharingCopies[asked[1]]
    => verdict # "false" /\ AllIn(SharingCopies, todo)

(* Unless a comparison fails, a copy shares the maps, if those copies do that
   are still to be compared.                                               *)
MapsRest ==
  asked # <<>> /\ asked[2] \in Copies[asked[1]] /\ verdict # "false"
    => /\ AllIn(Copies, todo)
       /\ AllIn(SharingCopies, todo) => asked[2] \in SharingCopies[asked[1]]

(* Unless a comparison fails, the objects look the same, if those do that are
   still to be compared.                                                   *)
LooksRest ==
  asked # <<>> /\ AsRead /\ verdict # "false" /\ AllIn(Lookalikes, todo)
    => asked[2] \in Lookalikes[asked[1]]

(* Texts are told apart by their hashes before anything else. *)
HashesCompared ==
  asked # <<>> /\ IsText(asked[1]) /\ IsText(asked[2])
    => todo = <<asked>> \/ verdict = "false" \/ heap[asked[1]].hash = heap[asked[2]].hash

EqualInv ==
  /\ HeapTyped /\ TextsFormed /\ AtomsFormed /\ CallTyped
  /\ SharingPass /\ MapsRest /\ LooksRest /\ HashesCompared

LEMMA HashInRange ==
  ASSUME HeapTyped, NEW c \in Chars, NEW tail \in Pointer
  PROVE  CalculateHash(c, tail) \in 0 .. HashRange - 1
<1>1. c \in 0 .. HashRange - 1 /\ HashRange \in Nat /\ HashRange > 0
  OBVIOUS
<1>2. \A x \in Nat : x % HashRange \in 0 .. HashRange - 1
  BY <1>1
<1>3. ASSUME IsText(tail)
      PROVE  c * heap[tail].hash \in Nat
  <2>1. tail \in DOMAIN heap
    BY <1>3, HeapFacts DEF IsText, Tag
  <2>2. heap[tail].hash \in Nat
    BY <2>1, HeapFacts DEF Objects
  <2>3. QED
    BY <1>1, <2>2
<1>4. QED
  BY <1>1, <1>2, <1>3 DEF CalculateHash

(* A constructor adds a cell that refers to older ones. *)
LEMMA BuildKeeps ==
  ASSUME EqualInv, NEW object \in Objects, object.car \in Pointer, object.cdr \in Pointer,
         object.tag \in TextTags =>
           /\ object.cdr = NIL \/ Tag(object.cdr) = object.tag
           /\ object.chr = 0 => object.cdr = NIL
           /\ object.hash = CalculateHash(object.chr, object.cdr),
         object.tag # "CONS" => object.car = NIL,
         object.tag = "INTR" => object.cdr = NIL,
         Build(object)
  PROVE  EqualInv'
<1>1. /\ heap \in Seq(Objects) /\ heap' = Append(heap, object)
      /\ asked = <<>> /\ todo = <<>> /\ verdict = "open"
      /\ asked' = <<>> /\ todo' = <<>> /\ verdict' = "open"
  BY DEF EqualInv, HeapTyped, CallTyped, Build
<1> DEFINE n == Len(heap)
<1>2. /\ n \in Nat /\ heap' \in Seq(Objects) /\ Len(heap') = n + 1
      /\ \A p \in 1 .. n : heap'[p] = heap[p]
      /\ heap'[n + 1] = object
  BY <1>1
<1>3. DOMAIN heap = 1 .. n /\ DOMAIN heap' = 1 .. n + 1
  BY <1>1, <1>2
<1>4. HeapTyped
  BY DEF EqualInv
<1>5. object.car \in 0 .. n /\ object.cdr \in 0 .. n
  BY DEF Pointer
<1>6. HeapTyped'
  <2>1. ASSUME NEW p \in 1 .. n + 1
        PROVE  heap'[p].car \in 0 .. p - 1 /\ heap'[p].cdr \in 0 .. p - 1
    <3>1. CASE p \in 1 .. n
      BY <1>2, <1>3, <1>4, <3>1 DEF HeapTyped
    <3>2. CASE p = n + 1
      BY <1>2, <1>5, <3>2
    <3>3. QED
      BY <1>2, <3>1, <3>2
  <2>2. QED
    BY <1>2, <1>3, <2>1 DEF HeapTyped
<1>7. \A p \in 0 .. n : Tag(p)' = Tag(p) /\ (IsText(p)' <=> IsText(p))
  BY <1>2 DEF Tag, IsText, NIL
<1>8. \A c \in Nat, p \in 0 .. n : CalculateHash(c, p)' = CalculateHash(c, p)
  <2> TAKE c \in Nat, p \in 0 .. n
  <2>1. p # NIL => heap'[p] = heap[p]
    BY <1>2 DEF NIL
  <2>2. p = NIL => ~ IsText(p) /\ ~ IsText(p)'
    <3>1. NIL \in 0 .. n /\ ~ IsText(NIL)
      BY <1>2 DEF IsText, Tag, NIL
    <3>2. QED
      BY <1>7, <3>1
  <2>3. QED
    BY <1>7, <2>1, <2>2 DEF CalculateHash, NIL
<1>9. TextsFormed'
  <2>1. ASSUME NEW p \in 1 .. n + 1, IsText(p)'
        PROVE  TextCell(p)'
    <3>1. CASE p \in 1 .. n
      <4>1. p \in DOMAIN heap /\ p \in 0 .. n /\ IsText(p) /\ heap'[p] = heap[p]
        BY <1>2, <1>3, <1>7, <2>1, <3>1
      <4>2. TextCell(p)
        BY <4>1 DEF EqualInv, TextsFormed
      <4>3. PICK cdr \in 0 .. n : cdr = heap[p].cdr
        BY <1>4, <4>1, HeapFacts DEF Pointer
      <4>4. PICK chr \in Nat : chr = heap[p].chr
        BY <1>4, <4>1, HeapFacts DEF Objects
      <4>5. Tag(cdr)' = Tag(cdr) /\ CalculateHash(chr, cdr)' = CalculateHash(chr, cdr)
        BY <1>7, <1>8
      <4>6. heap'[p].cdr = cdr /\ heap'[p].chr = chr
        BY <4>1, <4>3, <4>4
      <4>7. /\ cdr = NIL \/ Tag(cdr) = heap[p].tag
            /\ chr = 0 => cdr = NIL
            /\ heap[p].hash = CalculateHash(chr, cdr)
        BY <4>2, <4>3, <4>4 DEF TextCell
      <4>8. QED
        BY <4>1, <4>5, <4>6, <4>7 DEF TextCell
    <3>2. CASE p = n + 1
      <4>1. heap'[p] = object /\ object.tag \in TextTags
        BY <1>2, <2>1, <3>2 DEF IsText, Tag, NIL
      <4>2. PICK cdr \in 0 .. n : cdr = object.cdr
        BY <1>5
      <4>3. PICK chr \in Nat : chr = object.chr
        BY DEF Objects
      <4>4. Tag(cdr)' = Tag(cdr) /\ CalculateHash(chr, cdr)' = CalculateHash(chr, cdr)
        BY <1>7, <1>8
      <4>5. heap'[p].cdr = cdr /\ heap'[p].chr = chr /\ heap'[p].tag = object.tag
        BY <4>1, <4>2, <4>3
      <4>6. /\ cdr = NIL \/ Tag(cdr) = object.tag
            /\ chr = 0 => cdr = NIL
            /\ object.hash = CalculateHash(chr, cdr)
        BY <4>1, <4>2, <4>3
      <4>7. QED
        BY <4>1, <4>4, <4>5, <4>6 DEF TextCell
    <3>3. QED
      BY <1>2, <3>1, <3>2
  <2>2. QED
    BY <1>3, <2>1 DEF TextsFormed
<1>10. CallTyped'
  BY <1>1 DEF CallTyped
<1>11. SharingPass' /\ MapsRest' /\ LooksRest' /\ HashesCompared'
  BY <1>1 DEF SharingPass, MapsRest, LooksRest, HashesCompared
<1>12. AtomsFormed'
  <2>1. \A p \in 1 .. n + 1 : p \in 1 .. n \/ p = n + 1
    BY <1>2
  <2>2. \A p \in 1 .. n : /\ heap[p].tag # "CONS" => heap[p].car = NIL
                          /\ heap[p].tag = "INTR" => heap[p].cdr = NIL
    BY <1>3 DEF EqualInv, AtomsFormed
  <2>3. ASSUME NEW p \in 1 .. n + 1
        PROVE  /\ heap'[p].tag # "CONS" => heap'[p].car = NIL
               /\ heap'[p].tag = "INTR" => heap'[p].cdr = NIL
    <3>1. CASE p \in 1 .. n
      <4>1. heap'[p] = heap[p]
        BY <1>2, <3>1
      <4>2. QED
        BY <2>2, <3>1, <4>1
    <3>2. CASE p = n + 1
      <4>1. heap'[p] = object
        BY <1>2, <3>2
      <4>2. QED
        BY <4>1
    <3>3. QED
      BY <2>1, <3>1, <3>2
  <2>4. QED
    BY <1>3, <2>3 DEF AtomsFormed, NIL
<1>13. QED
  BY <1>6, <1>9, <1>10, <1>11, <1>12 DEF EqualInv

-----------------------------------------------------------------------------
(* The steps of a call.                                                    *)

(* Adding pairs to those that are left. *)
LEMMA AllInMore ==
  ASSUME NEW f, NEW S, NEW rest \in Seq(S), NEW more \in Seq(S)
  PROVE  AllIn(f, more \o rest) <=> AllIn(f, more) /\ AllIn(f, rest)
<1>1. /\ Len(more \o rest) = Len(more) + Len(rest)
      /\ \A i \in 1 .. Len(more) : (more \o rest)[i] = more[i]
      /\ \A i \in 1 .. Len(rest) : (more \o rest)[Len(more) + i] = rest[i]
  OBVIOUS
<1>2. ASSUME AllIn(f, more \o rest)
      PROVE  AllIn(f, more) /\ AllIn(f, rest)
  <2>1. \A i \in 1 .. Len(more) : i \in DOMAIN (more \o rest)
    BY <1>1
  <2>2. \A i \in 1 .. Len(rest) : Len(more) + i \in DOMAIN (more \o rest)
    BY <1>1
  <2>3. AllIn(f, more)
    BY <1>1, <1>2, <2>1 DEF AllIn
  <2>4. ASSUME NEW i \in DOMAIN rest
        PROVE  rest[i][2] \in f[rest[i][1]]
    <3>1. i \in 1 .. Len(rest)
      OBVIOUS
    <3> DEFINE all == more \o rest
    <3>2. all[Len(more) + i][2] \in f[all[Len(more) + i][1]]
      BY <1>2, <2>2, <3>1 DEF AllIn
    <3>3. all[Len(more) + i] = rest[i]
      BY <1>1, <3>1
    <3> HIDE DEF all
    <3>4. QED
      BY <3>2, <3>3
  <2>5. QED
    BY <2>3, <2>4 DEF AllIn
<1>3. ASSUME AllIn(f, more), AllIn(f, rest)
      PROVE  AllIn(f, more \o rest)
  <2>1. ASSUME NEW i \in DOMAIN (more \o rest)
        PROVE  \/ i \in 1 .. Len(more)
               \/ i - Len(more) \in 1 .. Len(rest) /\ Len(more) + (i - Len(more)) = i
    BY <1>1
  <2>2. QED
    BY <1>1, <1>3, <2>1 DEF AllIn
<1>4. QED
  BY <1>2, <1>3

LEMMA PendingFacts ==
  ASSUME HeapTyped, CallTyped, Pending
  PROVE  /\ asked # <<>> /\ todo # <<>> /\ A \in Pointer /\ B \in Pointer
         /\ Rest \in Seq(Pointer \X Pointer) /\ todo = <<<<A, B>>>> \o Rest
         /\ \A f : AllIn(f, todo) <=> B \in f[A] /\ AllIn(f, Rest)
<1>1. /\ asked # <<>> /\ todo # <<>> /\ todo \in Seq(Pointer \X Pointer)
  BY DEF Pending, CallTyped
<1>2. /\ Head(todo) \in Pointer \X Pointer /\ Tail(todo) \in Seq(Pointer \X Pointer)
      /\ todo = <<Head(todo)>> \o Tail(todo)
  BY <1>1
<1>3. Head(todo) = <<A, B>> /\ A \in Pointer /\ B \in Pointer
  BY <1>2 DEF A, B
<1>4. \A f : AllIn(f, <<<<A, B>>>>) <=> B \in f[A]
  BY DEF AllIn
<1>5. <<<<A, B>>>> \in Seq(Pointer \X Pointer)
  BY <1>3
<1>6. QED
  BY <1>1, <1>2, <1>3, <1>4, <1>5, AllInMore DEF Rest

(* What a comparison that goes on with other pairs, or fails, has to keep. *)
StepKeeps ==
  /\ UNCHANGED <<heap, asked>> /\ CallTyped'
  /\ AllIn(SharingCopies, todo) => verdict' # "false" /\ AllIn(SharingCopies, todo')
  /\ verdict' # "false" /\ AllIn(Copies, todo)
       => /\ AllIn(Copies, todo')
          /\ AllIn(SharingCopies, todo') => AllIn(SharingCopies, todo)
  /\ AsRead /\ verdict' # "false" /\ AllIn(Lookalikes, todo') => AllIn(Lookalikes, todo)
  /\ IsText(A) /\ IsText(B) => verdict' = "false" \/ heap[A].hash = heap[B].hash

LEMMA GoKeeps ==
  ASSUME HeapTyped, CallTyped, Pending, NEW more \in Seq(Pointer \X Pointer),
         Go(more \o Rest),
         B \in SharingCopies[A] => AllIn(SharingCopies, more),
         B \in Copies[A] => /\ AllIn(Copies, more)
                            /\ AllIn(SharingCopies, more) => B \in SharingCopies[A],
         AsRead /\ AllIn(Lookalikes, more) => B \in Lookalikes[A],
         IsText(A) /\ IsText(B) => heap[A].hash = heap[B].hash
  PROVE  StepKeeps
<1>1. /\ UNCHANGED <<heap, asked>> /\ todo' = more \o Rest
      /\ verdict' = IF todo' = <<>> THEN "true" ELSE "open"
  BY DEF Go
<1>2. asked # <<>> /\ Rest \in Seq(Pointer \X Pointer)
  BY PendingFacts
<1>3. todo' \in Seq(Pointer \X Pointer)
  BY <1>1, <1>2
<1>4. CallTyped'
  BY <1>1, <1>2, <1>3 DEF CallTyped, Pointer
<1>5. \A f : AllIn(f, todo') <=> AllIn(f, more) /\ AllIn(f, Rest)
  BY <1>1, <1>2, AllInMore
<1>6. QED
  BY <1>1, <1>4, <1>5, PendingFacts DEF StepKeeps

LEMMA ReturnKeeps ==
  ASSUME HeapTyped, CallTyped, Pending, Return("false"), B \notin SharingCopies[A]
  PROVE  StepKeeps
<1>1. UNCHANGED <<heap, asked>> /\ todo' = <<>> /\ verdict' = "false"
  BY DEF Return
<1>2. CallTyped'
  BY <1>1, PendingFacts DEF CallTyped, Pointer
<1>3. QED
  BY <1>1, <1>2, PendingFacts DEF StepKeeps

LEMMA CompareKeeps ==
  ASSUME HeapTyped, TextsFormed, AtomsFormed, CallTyped, Compare
  PROVE  StepKeeps
<1>1. Pending
  BY DEF Compare, CompareIdentical, CompareNumbers, CompareConses, CompareTexts, CompareOthers
<1>2. A \in Pointer /\ B \in Pointer /\ Rest \in Seq(Pointer \X Pointer)
  BY <1>1, PendingFacts
<1>3. Rest = <<>> \o Rest /\ <<>> \in Seq(Pointer \X Pointer)
  BY <1>2
<1>4. \A f : AllIn(f, <<>>)
  BY DEF AllIn
<1>5. /\ B \in SharingCopies[A] <=> SharesWith(SharingCopies, A, B)
      /\ B \in Copies[A] <=> CopyOf(Copies, A, B)
      /\ B \in Lookalikes[A] <=> LikenessOf(Lookalikes, A, B)
  BY <1>2, SharingFacts, CopiesFacts, LookalikesFacts
<1>6. CASE CompareIdentical
  <2>1. A = B /\ Go(<<>> \o Rest)
    BY <1>3, <1>6 DEF CompareIdentical
  <2>2. B \in Lookalikes[A] /\ B \in SharingCopies[A]
    BY <1>5, <2>1 DEF LikenessOf, SharesWith
  <2>3. QED
    BY <1>1, <1>3, <1>4, <2>1, <2>2, GoKeeps
<1>7. \A p \in Pointer : Tag(p) \in ObjectTags => p # NIL /\ p \in DOMAIN heap /\ heap[p].tag = Tag(p)
  BY HeapFacts DEF Tag, ObjectTags
<1>8. \A p \in Pointer : Tag(p) \in {"INTR", "CONS"} => ~ IsText(p)
  BY DEF IsText
<1>9. CASE CompareNumbers
  <2>1. /\ Tag(A) = "INTR" /\ Tag(B) = "INTR" /\ A # B
        /\ IF heap[A].chr = heap[B].chr THEN Go(Rest) ELSE Return("false")
    BY <1>9 DEF CompareNumbers
  <2>2. /\ A # NIL /\ B # NIL /\ heap[A].tag = "INTR" /\ heap[B].tag = "INTR"
        /\ ~ IsText(A)
    BY <1>2, <1>7, <1>8, <2>1 DEF ObjectTags
  <2>3. CASE heap[A].chr = heap[B].chr
    <3>1. Go(<<>> \o Rest)
      BY <1>3, <2>1, <2>3
    <3>2. B \in Lookalikes[A] /\ B \in SharingCopies[A]
      <4>1. A \in DOMAIN heap /\ B \in DOMAIN heap /\ NIL \in Pointer
        BY <1>2, <1>7, <2>1, HeapFacts DEF ObjectTags, Pointer, NIL
      <4>2. /\ heap[A].car = NIL /\ heap[A].cdr = NIL
            /\ heap[B].car = NIL /\ heap[B].cdr = NIL /\ NIL \in SharingCopies[NIL]
        BY <2>2, <4>1, SharingReflexive DEF AtomsFormed
      <4>3. QED
        BY <1>5, <2>2, <2>3, <4>2 DEF LikenessOf, SharesWith
    <3>3. QED
      BY <1>1, <1>3, <1>4, <2>2, <3>1, <3>2, GoKeeps
  <2>4. CASE heap[A].chr # heap[B].chr
    <3>1. B \notin SharingCopies[A]
      BY <1>5, <2>1, <2>4 DEF SharesWith
    <3>2. QED
      BY <1>1, <2>1, <2>4, <3>1, ReturnKeeps
  <2>5. QED
    BY <2>3, <2>4
<1>10. CASE CompareConses
  <2> DEFINE more == <<<<heap[A].car, heap[B].car>>, <<heap[A].cdr, heap[B].cdr>>>>
  <2>1. Tag(A) = "CONS" /\ Tag(B) = "CONS" /\ A # B /\ Go(more \o Rest)
    BY <1>10 DEF CompareConses
  <2>2. /\ A # NIL /\ B # NIL /\ heap[A].tag = "CONS" /\ heap[B].tag = "CONS"
        /\ ~ IsText(A) /\ A \in DOMAIN heap /\ B \in DOMAIN heap
    BY <1>2, <1>7, <1>8, <2>1 DEF ObjectTags
  <2>3. /\ heap[A].car \in Pointer /\ heap[A].cdr \in Pointer
        /\ heap[B].car \in Pointer /\ heap[B].cdr \in Pointer
    BY <2>2, HeapFacts
  <2>4. more \in Seq(Pointer \X Pointer)
    BY <2>3
  <2>5. \A f : AllIn(f, more) <=> heap[B].car \in f[heap[A].car] /\ heap[B].cdr \in f[heap[A].cdr]
    BY DEF AllIn
  <2> HIDE DEF more
  <2>6. B \in SharingCopies[A] => AllIn(SharingCopies, more)
    BY <1>5, <2>1, <2>5 DEF SharesWith
  <2>7. AllIn(Lookalikes, more) => B \in Lookalikes[A]
    BY <1>5, <2>2, <2>5 DEF LikenessOf
  <2>8. B \in Copies[A] => /\ AllIn(Copies, more)
                           /\ AllIn(SharingCopies, more) => B \in SharingCopies[A]
    BY <1>5, <2>1, <2>2, <2>5 DEF CopyOf, SharesWith
  <2>9. QED
    BY <1>1, <2>1, <2>2, <2>4, <2>6, <2>7, <2>8, GoKeeps
<1>11. CASE CompareTexts
  <2> DEFINE n    == Block(A, B)
             more == <<<<Cdr(After(A, n)), Cdr(After(B, n))>>>>
  <2>1. /\ IsText(A) /\ Tag(A) = Tag(B) /\ A # B
        /\ IF heap[A].hash = heap[B].hash /\ SameBlock(A, B, n)
           THEN Go(more \o Rest) ELSE Return("false")
    BY <1>11 DEF CompareTexts
  <2>2. IsText(B)
    BY <2>1 DEF IsText
  <2>3. more \in Seq(Pointer \X Pointer)
    <3>1. n \in 0 .. Shipyard
      BY <1>2, BlockFacts
    <3> HIDE DEF n
    <3>2. After(A, n) \in Pointer /\ After(B, n) \in Pointer
      BY <1>2, <3>1, AfterFacts
    <3>3. Cdr(After(A, n)) \in Pointer /\ Cdr(After(B, n)) \in Pointer
      BY <3>2, HeapFacts
    <3>4. QED
      BY <3>3
  <2>4. AllIn(SharingCopies, more) <=> Cdr(After(B, n)) \in SharingCopies[Cdr(After(A, n))]
    BY DEF AllIn
  <2>5. B \in SharingCopies[A] => /\ heap[A].hash = heap[B].hash /\ SameBlock(A, B, n)
                           /\ AllIn(SharingCopies, more)
    BY <1>2, <2>1, <2>4, SharingHashAlike, SharingBlock
  <2>6. CASE heap[A].hash = heap[B].hash /\ SameBlock(A, B, n)
    <3>1. AsRead => Characters[A] = Characters[B]
      BY <1>2, <2>1, <2>2, <2>6, SameReads
    <3>2. A # NIL /\ B # NIL /\ heap[A].tag = heap[B].tag
      BY <1>2, <1>7, <2>1, <2>2 DEF IsText, ObjectTags
    <3>3. AsRead => B \in Lookalikes[A]
      BY <1>5, <2>1, <3>1, <3>2 DEF LikenessOf
    <3>4. B \in Copies[A] => B \in SharingCopies[A]
      BY <1>2, <2>1, TextCopiesShare
    <3>5. AllIn(SharingCopies, more) => AllIn(Copies, more)
      <4>1. more[1][1] \in Pointer /\ more[1][2] \in Pointer
        BY <2>3
      <4>2. \A f : AllIn(f, more) <=> more[1][2] \in f[more[1][1]]
        BY DEF AllIn
      <4> HIDE DEF more
      <4>3. QED
        BY <4>1, <4>2, SharingIsCopy
    <3> HIDE DEF more
    <3>6. QED
      BY <1>1, <2>1, <2>3, <2>5, <2>6, <3>3, <3>4, <3>5, GoKeeps
  <2>7. CASE ~(heap[A].hash = heap[B].hash /\ SameBlock(A, B, n))
    <3>1. B \notin SharingCopies[A] /\ Return("false")
      BY <2>1, <2>5, <2>7
    <3>2. QED
      BY <1>1, <3>1, ReturnKeeps
  <2>8. QED
    BY <2>6, <2>7
<1>12. CASE CompareOthers
  <2>1. A # B /\ Return("false") /\ (Tag(A) # Tag(B) \/ Tag(A) = "VECP")
    BY <1>12 DEF CompareOthers
  <2>2. B \notin SharingCopies[A]
    BY <1>5, <2>1 DEF SharesWith, Tag
  <2>3. QED
    BY <1>1, <2>1, <2>2, ReturnKeeps
<1>13. QED
  BY <1>6, <1>9, <1>10, <1>11, <1>12 DEF Compare

LEMMA CallKeeps ==
  ASSUME EqualInv, NEW a \in Pointer, NEW b \in Pointer, Call(a, b)
  PROVE  EqualInv'
<1>1. /\ asked = <<>> /\ asked' = <<a, b>> /\ todo' = <<<<a, b>>>> /\ heap' = heap
      /\ verdict' = "open"
  BY DEF Call, EqualInv, CallTyped
<1>2. HeapTyped' /\ TextsFormed' /\ AtomsFormed'
  BY <1>1 DEF EqualInv, HeapTyped, TextsFormed, AtomsFormed, TextCell, IsText, Tag, CalculateHash
<1>3. CallTyped'
  BY <1>1 DEF CallTyped, Pointer
<1>4. \A f : AllIn(f, todo') <=> asked'[2] \in f[asked'[1]]
  BY <1>1 DEF AllIn
<1>5. SharingPass' /\ MapsRest' /\ LooksRest' /\ HashesCompared'
  BY <1>1, <1>4 DEF SharingPass, MapsRest, LooksRest, HashesCompared
<1>6. QED
  BY <1>2, <1>3, <1>5 DEF EqualInv

LEMMA StepsKeep ==
  ASSUME EqualInv, Pending, StepKeeps
  PROVE  EqualInv'
<1>1. heap' = heap /\ asked' = asked /\ asked # <<>> /\ CallTyped'
  BY DEF StepKeeps, Pending
<1>2. HeapTyped' /\ TextsFormed' /\ AtomsFormed'
  BY <1>1 DEF EqualInv, HeapTyped, TextsFormed, AtomsFormed, TextCell, IsText, Tag, CalculateHash
<1>3. /\ Copies' = Copies /\ SharingCopies' = SharingCopies /\ Lookalikes' = Lookalikes
      /\ \A p, n : After(p, n)' = After(p, n)
  BY <1>1, SameHeap
<1>4. AsRead' => AsRead
  BY <1>1, <1>3 DEF AsRead, CharAt, IsText, Tag
<1>5. SharingPass'
  BY <1>1, <1>3 DEF EqualInv, SharingPass, StepKeeps
<1>6. LooksRest'
  <2>1. verdict # "false"
    BY DEF EqualInv, CallTyped, Pending
  <2>2. QED
    BY <1>1, <1>3, <1>4, <2>1 DEF EqualInv, LooksRest, StepKeeps
<1>7. HashesCompared'
  <2>1. todo = <<asked>> => A = asked[1] /\ B = asked[2]
    BY DEF A, B
  <2>2. verdict # "false"
    BY DEF EqualInv, CallTyped, Pending
  <2>3. IsText(asked[1])' /\ IsText(asked[2])' => IsText(asked[1]) /\ IsText(asked[2])
    BY <1>1 DEF IsText, Tag
  <2>4. QED
    BY <1>1, <2>1, <2>2, <2>3 DEF EqualInv, HashesCompared, StepKeeps
<1>8. MapsRest'
  <2>1. verdict # "false"
    BY DEF EqualInv, CallTyped, Pending
  <2>2. QED
    BY <1>1, <1>3, <2>1 DEF EqualInv, MapsRest, StepKeeps
<1>9. QED
  BY <1>1, <1>2, <1>5, <1>6, <1>7, <1>8 DEF EqualInv

LEMMA InitEqual == Init => EqualInv
<1> SUFFICES ASSUME Init PROVE EqualInv
  OBVIOUS
<1>1. heap = <<>> /\ asked = <<>> /\ todo = <<>> /\ verdict = "open"
  BY DEF Init
<1>2. HeapTyped /\ TextsFormed /\ AtomsFormed
  BY <1>1 DEF HeapTyped, TextsFormed, AtomsFormed
<1>3. QED
  BY <1>1, <1>2 DEF EqualInv, CallTyped, SharingPass, MapsRest, LooksRest, HashesCompared

LEMMA NextEqual == EqualInv /\ [Next]_vars => EqualInv'
<1> SUFFICES ASSUME EqualInv, [Next]_vars PROVE EqualInv'
  OBVIOUS
<1>0. HeapTyped /\ TextsFormed /\ AtomsFormed /\ CallTyped
  BY DEF EqualInv
<1>1. ASSUME NEW c \in Chars, NEW tail \in Pointer, NEW t \in TextTags,
             MakeStringLikeThing(c, tail, t)
      PROVE  EqualInv'
  <2> DEFINE object == Object(t, NIL, tail, c, CalculateHash(c, tail))
  <2>1. Tag(tail) \in {t, "NIL"} /\ (c = 0 => tail = NIL) /\ Build(object)
    BY <1>1 DEF MakeStringLikeThing
  <2>2. Tag(tail) = "NIL" => tail = NIL
    <3>1. ASSUME tail # NIL
          PROVE  Tag(tail) \in ObjectTags
      <4>1. heap[tail] \in Objects
        BY <1>0, <3>1, HeapFacts
      <4>2. QED
        BY <3>1, <4>1 DEF Tag, Objects
    <3>2. QED
      BY <3>1 DEF ObjectTags
  <2>3. NIL \in Pointer /\ tail \in Nat /\ c \in Nat /\ CalculateHash(c, tail) \in 0 .. HashRange - 1
    BY <1>0, HeapFacts, HashInRange DEF Pointer, NIL
  <2>4. /\ object \in Objects /\ object.tag = t /\ object.car = NIL /\ object.cdr = tail
        /\ object.chr = c /\ object.hash = CalculateHash(c, tail)
    BY <2>3 DEF Object, Objects, ObjectTags, NIL
  <2>5. object.tag \notin {"CONS", "INTR"}
    BY <2>4
  <2> HIDE DEF object
  <2>6. QED
    BY <2>1, <2>2, <2>3, <2>4, <2>5, BuildKeeps
<1>2. ASSUME NEW tag \in {"CONS", "INTR", "VECP"}, NEW car \in Pointer, NEW cdr \in Pointer,
             NEW chr \in Nat, tag # "CONS" => car = NIL /\ cdr = NIL,
             Build(Object(tag, car, cdr, chr, 0))
      PROVE  EqualInv'
  <2> DEFINE object == Object(tag, car, cdr, chr, 0)
  <2>1. /\ object \in Objects /\ object.tag = tag /\ object.car = car /\ object.cdr = cdr
    BY <1>0, HeapFacts DEF Object, Objects, ObjectTags
  <2>2. Build(object) /\ object.tag \notin TextTags
    BY <1>2, <2>1
  <2> HIDE DEF object
  <2>3. /\ object.tag # "CONS" => object.car = NIL
        /\ object.tag = "INTR" => object.cdr = NIL
    BY <1>2, <2>1
  <2>4. QED
    BY <2>1, <2>2, <2>3, BuildKeeps
<1>3. NIL \in Pointer
  BY <1>0, HeapFacts DEF Pointer, NIL
<1>4. ASSUME NEW car \in Pointer, NEW cdr \in Pointer, MakeCons(car, cdr)
      PROVE  EqualInv'
  BY <1>2, <1>4 DEF MakeCons
<1>5. ASSUME NEW n \in 1 .. 2, MakeInteger(n)
      PROVE  EqualInv'
  BY <1>2, <1>3, <1>5 DEF MakeInteger
<1>6. CASE MakeHashmap
  BY <1>2, <1>3, <1>6 DEF MakeHashmap
<1>7. ASSUME NEW a \in Pointer, NEW b \in Pointer, Call(a, b)
      PROVE  EqualInv'
  BY <1>7, CallKeeps
<1>8. CASE Compare
  <2>1. Pending
    BY <1>8 DEF Compare, CompareIdentical, CompareNumbers, CompareConses, CompareTexts, CompareOthers
  <2>2. QED
    BY <1>0, <1>8, <2>1, CompareKeeps, StepsKeep
<1>9. CASE Forget
  <2>1. heap' = heap /\ asked' = <<>> /\ todo' = <<>> /\ verdict' = "open"
    BY <1>9 DEF Forget, Done
  <2>2. HeapTyped' /\ TextsFormed' /\ AtomsFormed'
    BY <1>0, <2>1 DEF HeapTyped, TextsFormed, AtomsFormed, TextCell, IsText, Tag, CalculateHash
  <2>3. QED
    BY <2>1, <2>2 DEF EqualInv, CallTyped, SharingPass, MapsRest, LooksRest, HashesCompared
<1>10. CASE UNCHANGED vars
  <2>1. heap' = heap /\ asked' = asked /\ todo' = todo /\ verdict' = verdict
    BY <1>10 DEF vars
  <2>2. HeapTyped' /\ TextsFormed' /\ AtomsFormed' /\ CallTyped'
    BY <1>0, <2>1 DEF HeapTyped, TextsFormed, AtomsFormed, TextCell, IsText, Tag, CalculateHash, CallTyped, Pointer
  <2>3. /\ Copies' = Copies /\ SharingCopies' = SharingCopies /\ Lookalikes' = Lookalikes
      /\ \A p, n : After(p, n)' = After(p, n)
    BY <2>1, SameHeap
  <2>4. AsRead' => AsRead
    BY <2>1, <2>3 DEF AsRead, CharAt, IsText, Tag
  <2>5. SharingPass' /\ MapsRest' /\ LooksRest' /\ HashesCompared'
    BY <2>1, <2>3, <2>4 DEF EqualInv, SharingPass, MapsRest, LooksRest, HashesCompared, IsText, Tag
  <2>6. QED
    BY <2>2, <2>5 DEF EqualInv
<1>11. QED
  BY <1>1, <1>4, <1>5, <1>6, <1>7, <1>8, <1>9, <1>10 DEF Next, Compare

LEMMA EqualKept == Spec => []EqualInv
BY InitEqual, NextEqual, PTL DEF Spec

-----------------------------------------------------------------------------
(* The theorems.                                                           *)

(* The heap, the pair that is compared, what is left to compare and the
   verdict have their types, and every object refers to older ones.        *)
THEOREM EqualTyped == Spec => []TypeOK
<1>1. EqualInv => TypeOK
  BY DEF EqualInv, HeapTyped, CallTyped, TypeOK, Objects, ObjectTags
<1>2. QED
  BY <1>1, EqualKept, PTL

(* equal answers true of an object and a copy of it, made by whatever calls
   of the constructors, if and only if they share their hashmaps.          *)
THEOREM CopiesEqual == Spec => []CopiesAreEqual
<1>1. EqualInv => CopiesAreEqual
  <2> SUFFICES ASSUME EqualInv, Done, Identical PROVE verdict = "true" <=> SharesMaps
    BY DEF CopiesAreEqual
  <2>1. verdict \in {"true", "false"} /\ AllIn(SharingCopies, todo)
    BY DEF EqualInv, CallTyped, AllIn, Done
  <2>2. QED
    BY <2>1 DEF EqualInv, SharingPass, MapsRest, Done, Identical, SharesMaps
<1>2. QED
  BY <1>1, EqualKept, PTL

(* Texts that equal takes for the same have the same hash, so hashmap_get
   looks for a key in the bucket into which hashmap_put put an equal one.  *)
THEOREM EqualHashes == Spec => []EqualTextsHashAlike
<1>1. EqualInv => EqualTextsHashAlike
  BY DEF EqualInv, HashesCompared, EqualTextsHashAlike, Done
<1>2. QED
  BY <1>1, EqualKept, PTL

(* While all texts are as the reader makes them, ended by a null that the
   buffer of equal can hold, objects are equal only if they look the same. *)
THEOREM EqualReadsAlike == Spec => []EqualReadsLookTheSame
<1>1. EqualInv => EqualReadsLookTheSame
  <2> SUFFICES ASSUME EqualInv, Done, verdict = "true", AsRead PROVE LooksTheSame
    BY DEF EqualReadsLookTheSame
  <2>1. AllIn(Lookalikes, todo)
    BY DEF AllIn, Done
  <2>2. QED
    BY <2>1 DEF EqualInv, LooksRest, LooksTheSame, Done
<1>2. QED
  BY <1>1, EqualKept, PTL
=============================================================================
