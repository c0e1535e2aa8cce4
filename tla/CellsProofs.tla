----------------------------- MODULE CellsProofs -----------------------------
(* What the operations on objects do to their counts, whatever the program.
   A ledger says how often each object is claimed by those who are not
   objects: by activations, bindings, variables.  Each operation is shown to
   change the heap and the ledger together, so that what was Covered is.    *)
EXTENDS Cells, Recursion, FiniteSetTheorems, SequenceTheorems

(* A pointer in the ledger. *)
Is(p, i)    == IF p = Obj(i) THEN 1 ELSE 0
Plus(w, p)  == [i \in Nat |-> w[i] + Is(p, i)]
Minus(w, p) == [i \in Nat |-> w[i] - Is(p, i)]
Ledger      == [Nat -> Int]

(* The heap is in order, and covers what is claimed. *)
Backed(h, w) ==
  /\ w \in Ledger /\ \A i \in Nat : i \notin DOMAIN h => w[i] = 0
  /\ HeapOK(h)
  /\ Covered(h, w)

(* As long as there was no exception, which would refer to a frame, a frame has
   exactly the counts that are claimed, and is freed with the last of them. *)
NoException(h) == \A i \in DOMAIN h : h[i].kind # "EXEP"
Told(c, n) ==
  c.kind = "FRAME" => c.count = n /\ (n = 0 => c.free) /\ (n # 0 => ~c.free)
Tallied(h, w) == NoException(h) => \A i \in DOMAIN h : Told(h[i], w[i])

Sound(h, w) == Backed(h, w) /\ Tallied(h, w)

(* What an operation leaves alone: cells keep their kind, and of those in F
   only the count changes.                                                 *)
Grows(h, g) == DOMAIN h \subseteq DOMAIN g /\ \A i \in DOMAIN h : g[i].kind = h[i].kind
Keeps(c, d) == /\ d.kind = c.kind /\ d.free = c.free /\ d.part = c.part
               /\ d.prev = c.prev /\ d.depth = c.depth /\ d.args = c.args
Leaves(h, g, F) == Grows(h, g) /\ \A i \in F : Keeps(h[i], g[i])

(* Frames that somebody has. *)
Held(h, w, F) ==
  \A i \in F : i \in DOMAIN h /\ h[i].kind = "FRAME" /\ ~h[i].free /\ w[i] > 0

-----------------------------------------------------------------------------
(* Ledgers, and what is left alone. *)
LEMMA LedgerFacts ==
  ASSUME NEW w \in Ledger, NEW p
  PROVE  /\ Plus(w, p) \in Ledger /\ Minus(w, p) \in Ledger
         /\ \A i \in Nat : Plus(w, p)[i] = w[i] + Is(p, i) /\ Minus(w, p)[i] = w[i] - Is(p, i)
         /\ Minus(Plus(w, p), p) = w /\ Plus(Minus(w, p), p) = w
<1>1. \A i \in Nat : Is(p, i) \in {0, 1} /\ w[i] \in Int
  BY DEF Is, Ledger
<1>2. /\ Plus(w, p) \in Ledger /\ Minus(w, p) \in Ledger
      /\ \A i \in Nat : Plus(w, p)[i] = w[i] + Is(p, i) /\ Minus(w, p)[i] = w[i] - Is(p, i)
  BY <1>1 DEF Plus, Minus, Ledger
<1>3. \A i \in Nat : (w[i] + Is(p, i)) - Is(p, i) = w[i] /\ (w[i] - Is(p, i)) + Is(p, i) = w[i]
  BY <1>1
<1>4. Minus(Plus(w, p), p) = [i \in Nat |-> w[i]] /\ Plus(Minus(w, p), p) = [i \in Nat |-> w[i]]
  BY <1>2, <1>3 DEF Plus, Minus
<1>5. QED
  BY <1>2, <1>4 DEF Ledger

LEMMA ObjFacts ==
  /\ \A i, j : Obj(i) = Obj(j) => i = j
  /\ \A i : IsObj(Obj(i)) /\ Obj(i)[2] = i
BY DEF Obj, IsObj

IsAtom(p) == ~IsObj(p) /\ p[1] \in Atoms

LEMMA AtomsAre ==
  /\ IsAtom(Nil) /\ IsAtom(T)
  /\ \A n : /\ IsAtom(Num(n)) /\ IsAtom(Sym(n)) /\ IsAtom(Key(n)) /\ IsAtom(Text(n))
            /\ IsAtom(Prim(n)) /\ IsAtom(Special(n))
BY DEF IsAtom, Atoms, IsObj, Nil, T, Num, Sym, Key, Text, Prim, Special

LEMMA AtomFacts ==
  ASSUME NEW h, NEW p, ~IsObj(p)
  PROVE  /\ IncRef(h, p) = h /\ DecRef(h, p) = h /\ Lend(h, p) = h
         /\ \A i : Is(p, i) = 0
<1>1. \A i : p # Obj(i)
  BY ObjFacts
<1>2. QED
  BY <1>1 DEF IncRef, DecRef, Lend, Is

LEMMA AtomValue ==
  ASSUME NEW h, NEW p, IsAtom(p)
  PROVE  Value(h, p) /\ Tag(h, p) = p[1]
BY DEF IsAtom, Value, Points, Tag

LEMMA AtomLedger ==
  ASSUME NEW w \in Ledger, NEW p, ~IsObj(p)
  PROVE  Plus(w, p) = w /\ Minus(w, p) = w
<1>1. \A i \in Nat : Is(p, i) = 0 /\ w[i] \in Int /\ w[i] + 0 = w[i] /\ w[i] - 0 = w[i]
  BY ObjFacts DEF Is, Ledger
<1>2. Plus(w, p) = [i \in Nat |-> w[i]] /\ Minus(w, p) = [i \in Nat |-> w[i]]
  BY <1>1 DEF Plus, Minus
<1>3. QED
  BY <1>2 DEF Ledger

LEMMA LeavesFacts ==
  /\ \A h, F : F \subseteq DOMAIN h => Leaves(h, h, F)
  /\ \A g, h, k, F : Leaves(g, h, F) /\ Leaves(h, k, F) => Leaves(g, k, F)
  /\ \A g, h, F, G : Leaves(g, h, F) /\ G \subseteq F => Leaves(g, h, G)
BY DEF Leaves, Grows, Keeps

LEMMA GrowsValue ==
  ASSUME NEW h, NEW g, Grows(h, g), NEW p, Value(h, p)
  PROVE  Value(g, p)
BY DEF Grows, Value, Points

-----------------------------------------------------------------------------
(* Sequences. *)
LEMMA MadeSequence ==
  ASSUME NEW s, NEW n \in Nat, s = [i \in 1 .. n |-> s[i]]
  PROVE  IsSequence(s) /\ Len(s) = n /\ DOMAIN s = 1 .. n /\ s \in Seq({s[i] : i \in 1 .. n})
<1> DEFINE S == {s[i] : i \in 1 .. n}
<1>1. \A i \in 1 .. n : s[i] \in S
  OBVIOUS
<1> HIDE DEF S
<1>2. s \in [1 .. n -> S]
  BY <1>1
<1>3. s \in Seq(S) /\ Len(s) = n /\ DOMAIN s = 1 .. n
  BY <1>2
<1>4. QED
  BY <1>3 DEF IsSequence, S

LEMMA SequenceFacts ==
  ASSUME NEW s, IsSequence(s)
  PROVE  Len(s) \in Nat /\ DOMAIN s = 1 .. Len(s) /\ s \in Seq({s[i] : i \in 1 .. Len(s)})
<1>1. Len(s) \in Nat /\ s = [i \in 1 .. Len(s) |-> s[i]]
  BY DEF IsSequence
<1>2. QED
  BY <1>1, MadeSequence

LEMMA AppendFacts ==
  ASSUME NEW s, IsSequence(s), NEW e
  PROVE  /\ IsSequence(Append(s, e)) /\ Len(Append(s, e)) = Len(s) + 1
         /\ DOMAIN Append(s, e) = DOMAIN s \cup {Len(s) + 1} /\ Len(s) + 1 \notin DOMAIN s
         /\ \A i \in DOMAIN s : Append(s, e)[i] = s[i]
         /\ Append(s, e)[Len(s) + 1] = e
<1> DEFINE n == Len(s)
           S == {s[i] : i \in 1 .. n} \cup {e}
           t == Append(s, e)
<1>1. n \in Nat /\ DOMAIN s = 1 .. n /\ s = [i \in 1 .. n |-> s[i]]
  BY SequenceFacts DEF IsSequence
<1>2. s \in Seq(S) /\ e \in S
  <2>1. \A i \in 1 .. n : s[i] \in S
    OBVIOUS
  <2>2. e \in S
    OBVIOUS
  <2> HIDE DEF S
  <2>3. s \in [1 .. n -> S]
    BY <1>1, <2>1
  <2>4. QED
    BY <1>1, <2>2, <2>3
<1> HIDE DEF S
<1>3. /\ t \in Seq(S) /\ Len(t) = n + 1
      /\ \A i \in 1 .. n : t[i] = s[i] /\ t[n + 1] = e
  BY <1>2, AppendProperties
<1>4. t[n + 1] = e /\ \A i \in 1 .. n : t[i] = s[i]
  BY <1>2, AppendProperties
<1>5. DOMAIN t = 1 .. n + 1 /\ 1 .. n + 1 = (1 .. n) \cup {n + 1} /\ n + 1 \notin 1 .. n
  BY <1>1, <1>3
<1>6. t = [i \in 1 .. n + 1 |-> t[i]]
  <2> HIDE DEF t
  <2>1. QED
    BY <1>3, <1>5
<1> HIDE DEF t, n
<1>7. IsSequence(t)
  BY <1>1, <1>3, <1>6 DEF IsSequence
<1>8. QED
  BY <1>1, <1>3, <1>4, <1>5, <1>7 DEF t, n

LEMMA PrefixedFacts ==
  ASSUME NEW s, IsSequence(s), NEW e
  PROVE  LET t == <<e>> \o s
         IN  /\ IsSequence(t) /\ Len(t) = Len(s) + 1 /\ t # <<>>
             /\ DOMAIN t = 1 .. Len(s) + 1 /\ t[1] = e
             /\ \A i \in DOMAIN s : t[i + 1] = s[i]
             /\ Head(t) = e /\ Tail(t) = s
<1> DEFINE n == Len(s)
           S == {s[i] : i \in 1 .. n} \cup {e}
           t == <<e>> \o s
<1>1. n \in Nat /\ DOMAIN s = 1 .. n /\ s = [i \in 1 .. n |-> s[i]]
  BY SequenceFacts DEF IsSequence
<1>2. s \in Seq(S) /\ e \in S
  <2>1. \A i \in 1 .. n : s[i] \in S
    OBVIOUS
  <2>2. e \in S
    OBVIOUS
  <2> HIDE DEF S
  <2>3. s \in [1 .. n -> S]
    BY <1>1, <2>1
  <2>4. QED
    BY <1>1, <2>2, <2>3
<1> HIDE DEF S
<1>3. <<e>> \in Seq(S) /\ Len(<<e>>) = 1
  BY <1>2
<1>4. /\ t \in Seq(S) /\ Len(t) = n + 1
      /\ \A i \in 1 .. n + 1 : t[i] = IF i <= 1 THEN <<e>>[i] ELSE s[i - 1]
  BY <1>1, <1>2, <1>3, ConcatProperties
<1>5. t[1] = e /\ \A i \in 1 .. n : t[i + 1] = s[i]
  <2>1. 1 \in 1 .. n + 1 /\ \A i \in 1 .. n : i + 1 \in 1 .. n + 1 /\ ~(i + 1 <= 1) /\ (i + 1) - 1 = i
    BY <1>1
  <2>2. QED
    BY <1>4, <2>1
<1>6. DOMAIN t = 1 .. n + 1
  BY <1>1, <1>4
<1>7. t = [i \in 1 .. n + 1 |-> t[i]]
  BY <1>4, <1>6
<1>8. t # <<>>
  BY <1>1, <1>4
<1>9. Head(t) = e /\ Tail(t) = s
  <2>1. Head(t) = t[1]
    BY <1>4, <1>8, HeadTailProperties
  <2>2. /\ Tail(t) \in Seq(S) /\ Len(Tail(t)) = Len(t) - 1
        /\ \A i \in 1 .. Len(Tail(t)) : Tail(t)[i] = t[i + 1]
    BY <1>4, <1>8, HeadTailProperties
  <2>3. Len(Tail(t)) = n
    BY <1>1, <1>4, <2>2
  <2>4. \A i \in 1 .. n : Tail(t)[i] = s[i]
    BY <1>5, <2>2, <2>3
  <2>5. DOMAIN Tail(t) = 1 .. n
    BY <2>2, <2>3
  <2>6. Tail(t) = [i \in 1 .. n |-> Tail(t)[i]]
    BY <2>2, <2>5
  <2>7. QED
    BY <1>1, <1>5, <2>1, <2>4, <2>6
<1> HIDE DEF t, n
<1>10. IsSequence(t)
  BY <1>1, <1>4, <1>7 DEF IsSequence
<1>11. QED
  BY <1>1, <1>4, <1>5, <1>6, <1>8, <1>9, <1>10 DEF t, n

LEMMA TailFacts ==
  ASSUME NEW s, IsSequence(s), s # <<>>
  PROVE  /\ IsSequence(Tail(s)) /\ Len(Tail(s)) = Len(s) - 1 /\ Len(s) > 0
         /\ DOMAIN Tail(s) = 1 .. Len(s) - 1 /\ Head(s) = s[1] /\ 1 \in DOMAIN s
         /\ \A i \in DOMAIN Tail(s) : Tail(s)[i] = s[i + 1] /\ i + 1 \in DOMAIN s
         /\ s = <<Head(s)>> \o Tail(s)
<1> DEFINE n == Len(s)
           S == {s[i] : i \in 1 .. n}
           t == Tail(s)
<1>1. n \in Nat /\ DOMAIN s = 1 .. n /\ s \in Seq(S)
  BY SequenceFacts
<1> HIDE DEF S
<1>2. n > 0
  BY <1>1
<1>3. /\ t \in Seq(S) /\ Len(t) = n - 1 /\ Head(s) = s[1]
      /\ \A i \in 1 .. Len(t) : t[i] = s[i + 1]
  BY <1>1, HeadTailProperties
<1>4. DOMAIN t = 1 .. n - 1 /\ n - 1 \in Nat /\ \A i \in 1 .. n - 1 : i + 1 \in 1 .. n
  BY <1>1, <1>2, <1>3
<1>5. t = [i \in 1 .. n - 1 |-> t[i]]
  <2> HIDE DEF t
  <2>1. QED
    BY <1>3, <1>4
<1>6. IsSequence(t)
  <2> HIDE DEF t
  <2>1. QED
    BY <1>4, <1>5, MadeSequence
<1>7. s = <<Head(s)>> \o t
  <2> DEFINE u == <<Head(s)>> \o t
  <2>1. /\ IsSequence(u) /\ Len(u) = Len(t) + 1 /\ DOMAIN u = 1 .. Len(t) + 1 /\ u[1] = Head(s)
        /\ \A i \in DOMAIN t : u[i + 1] = t[i]
    BY <1>6, PrefixedFacts
  <2>2. Len(u) = n
    BY <1>3, <1>1, <2>1
  <2>3. \A i \in 1 .. n : u[i] = s[i]
    <3>1. SUFFICES ASSUME NEW i \in 1 .. n PROVE u[i] = s[i]
      OBVIOUS
    <3>2. CASE i = 1
      BY <1>3, <2>1, <3>2
    <3>3. CASE i # 1
      <4>1. i - 1 \in 1 .. n - 1 /\ (i - 1) + 1 = i
        BY <1>1, <3>3
      <4>2. u[(i - 1) + 1] = t[i - 1] /\ t[i - 1] = s[(i - 1) + 1]
        BY <1>3, <1>4, <2>1, <4>1
      <4>3. QED
        BY <4>1, <4>2
    <3>4. QED
      BY <3>2, <3>3
  <2>4. u = [i \in 1 .. n |-> u[i]] /\ s = [i \in 1 .. n |-> s[i]]
    BY <1>1, <2>1, <2>2 DEF IsSequence
  <2> HIDE DEF u
  <2>5. u = s
    BY <2>3, <2>4
  <2>6. QED
    BY <2>5 DEF u
<1>8. QED
  BY <1>1, <1>2, <1>3, <1>4, <1>6, <1>7

-----------------------------------------------------------------------------
(* Where there are pointers to an object. *)
LEMMA HeapFacts ==
  ASSUME NEW h, HeapOK(h)
  PROVE  /\ IsSequence(h) /\ Len(h) \in Nat /\ DOMAIN h = 1 .. Len(h) /\ DOMAIN h \subseteq Nat
         /\ IsFiniteSet(DOMAIN h)
         /\ \A i \in DOMAIN h :
              /\ CellOK(h[i]) /\ PartsOK(h, h[i])
              /\ h[i].count \in Nat /\ h[i].given \in Nat /\ h[i].args \in Nat
              /\ h[i].depth \in Nat /\ h[i].prev \in Nat /\ h[i].free \in BOOLEAN
              /\ h[i].free => DOMAIN h[i].part = {}
              /\ ~h[i].free => DOMAIN h[i].part = 1 .. Arity(h[i].kind)
<1>1. IsSequence(h) /\ \A i \in DOMAIN h : CellOK(h[i]) /\ PartsOK(h, h[i])
  BY DEF HeapOK
<1>2. Len(h) \in Nat /\ DOMAIN h = 1 .. Len(h)
  BY <1>1, SequenceFacts
<1>3. IsFiniteSet(1 .. Len(h))
  BY <1>2, FS_Interval
<1>4. ASSUME NEW i \in DOMAIN h
      PROVE  /\ h[i].count \in Nat /\ h[i].given \in Nat /\ h[i].args \in Nat
             /\ h[i].depth \in Nat /\ h[i].prev \in Nat /\ h[i].free \in BOOLEAN
             /\ h[i].free => DOMAIN h[i].part = {}
             /\ ~h[i].free => DOMAIN h[i].part = 1 .. Arity(h[i].kind)
  <2> DEFINE c == h[i]
  <2>1. CellOK(c)
    BY <1>1
  <2> HIDE DEF c
  <2>2. /\ c.free \in BOOLEAN
        /\ c.count \in Nat /\ c.given \in Nat /\ c.prev \in Nat /\ c.depth \in Nat /\ c.args \in Nat
    BY <2>1 DEF CellOK
  <2>3. c.free => DOMAIN c.part = {}
    BY <2>1 DEF CellOK
  <2>4. ~c.free => DOMAIN c.part = 1 .. Arity(c.kind)
    BY <2>1 DEF CellOK
  <2>5. QED
    BY <2>2, <2>3, <2>4 DEF c
<1>5. QED
  BY <1>1, <1>2, <1>3, <1>4

LEMMA SameLength ==
  ASSUME NEW h, NEW g, HeapOK(h), HeapOK(g), DOMAIN g = DOMAIN h
  PROVE  Len(g) = Len(h)
<1>1. DOMAIN g = 1 .. Len(g) /\ DOMAIN h = 1 .. Len(h) /\ Len(g) \in Nat /\ Len(h) \in Nat
  BY HeapFacts
<1> DEFINE m == Len(g)
           n == Len(h)
<1>2. 1 .. m = 1 .. n /\ m \in Nat /\ n \in Nat
  BY <1>1
<1> HIDE DEF m, n
<1>3. m = n
  BY <1>2
<1>4. QED
  BY <1>3 DEF m, n

LEMMA WidthFacts ==
  ArgsInFrame \in Nat /\ ArgsInFrame >= 1 /\ ArgsInFrame + 1 \in Nat
  /\ \A k : Arity(k) \in 1 .. ArgsInFrame + 1
BY FrameAssumption DEF Arity

LEMMA PlacesFacts ==
  ASSUME NEW h, HeapOK(h), NEW S, S \subseteq DOMAIN h, NEW i
  PROVE  /\ IsFiniteSet(Places(h, S, i)) /\ Cardinality(Places(h, S, i)) \in Nat
         /\ Places(h, S, i) \subseteq Places(h, DOMAIN h, i)
         /\ Cardinality(Places(h, S, i)) <= Cardinality(Places(h, DOMAIN h, i))
<1>1. IsFiniteSet(DOMAIN h) /\ ArgsInFrame + 1 \in Nat
  BY HeapFacts, WidthFacts
<1>2. IsFiniteSet((DOMAIN h) \X (1 .. ArgsInFrame + 1))
  <2>1. IsFiniteSet(1 .. ArgsInFrame + 1)
    BY <1>1, FS_Interval
  <2>2. QED
    BY <1>1, <2>1, FS_Product
<1>3. Places(h, DOMAIN h, i) \subseteq (DOMAIN h) \X (1 .. ArgsInFrame + 1)
  BY DEF Places
<1>4. Places(h, S, i) \subseteq Places(h, DOMAIN h, i)
  BY DEF Places
<1>5. IsFiniteSet(Places(h, DOMAIN h, i))
  BY <1>2, <1>3, FS_Subset
<1>6. IsFiniteSet(Places(h, S, i)) /\ Cardinality(Places(h, S, i)) <= Cardinality(Places(h, DOMAIN h, i))
  BY <1>4, <1>5, FS_Subset
<1>7. QED
  BY <1>4, <1>6, FS_CardinalityType

(* g is h with other counts, and the cells of S emptied. *)
Trimmed(h, g, S) ==
  /\ IsSequence(g) /\ DOMAIN g = DOMAIN h
  /\ \A i \in DOMAIN h :
       /\ CellOK(g[i]) /\ g[i].kind = h[i].kind
       /\ g[i].kind = "FRAME" => g[i].given = 0
       /\ i \notin S => Keeps(h[i], g[i])
       /\ i \in S => g[i].free /\ g[i].part = <<>>

LEMMA TrimmedOK ==
  ASSUME NEW h, HeapOK(h), NEW g, NEW S, S \subseteq DOMAIN h, Trimmed(h, g, S)
  PROVE  /\ HeapOK(g) /\ Grows(h, g)
         /\ \A i : Places(g, DOMAIN g, i) = Places(h, DOMAIN h, i) \ Places(h, S, i)
<1>1. /\ IsSequence(g) /\ DOMAIN g = DOMAIN h
      /\ \A i \in DOMAIN h :
           /\ CellOK(g[i]) /\ g[i].kind = h[i].kind
           /\ g[i].kind = "FRAME" => g[i].given = 0
           /\ i \notin S => Keeps(h[i], g[i])
           /\ i \in S => g[i].free /\ g[i].part = <<>>
  BY DEF Trimmed
<1>2. Grows(h, g)
  BY <1>1 DEF Grows
<1>3. \A i \in DOMAIN h : PartsOK(h, h[i])
  BY DEF HeapOK
<1>4. ASSUME NEW i \in DOMAIN h
      PROVE  PartsOK(g, g[i])
  <2>1. CASE i \in S
    BY <1>1, <2>1 DEF PartsOK
  <2>2. CASE i \notin S
    <3>1. Keeps(h[i], g[i]) /\ PartsOK(h, h[i])
      BY <1>1, <1>3, <2>2
    <3>2. g[i].kind = h[i].kind /\ g[i].part = h[i].part /\ g[i].free = h[i].free
      BY <3>1 DEF Keeps
    <3>3. ASSUME NEW n \in DOMAIN g[i].part
          PROVE  IF g[i].kind = "EXEP" /\ n = 2
                 THEN \E f \in DOMAIN g : g[i].part[n] = Obj(f) /\ g[f].kind = "FRAME"
                 ELSE Value(g, g[i].part[n])
      <4>1. CASE g[i].kind = "EXEP" /\ n = 2
        BY <1>1, <3>1, <3>2, <4>1 DEF PartsOK
      <4>2. CASE ~(g[i].kind = "EXEP" /\ n = 2)
        <5>1. Value(h, h[i].part[n])
          BY <3>1, <3>2, <3>3, <4>2 DEF PartsOK
        <5>2. QED
          BY <1>2, <3>2, <4>2, <5>1, GrowsValue
      <4>3. QED
        BY <4>1, <4>2
    <3>4. g[i].kind = "STRG" /\ ~g[i].free => ~IsObj(g[i].part[1])
      BY <3>1, <3>2 DEF PartsOK
    <3>5. QED
      BY <1>1, <3>3, <3>4 DEF PartsOK
  <2>3. QED
    BY <2>1, <2>2
<1>5. ASSUME NEW i
      PROVE  Places(g, DOMAIN g, i) = Places(h, DOMAIN h, i) \ Places(h, S, i)
  <2> DEFINE Box == (DOMAIN h) \X (1 .. ArgsInFrame + 1)
  <2>1. \A x \in Box : x[1] \in DOMAIN h
    OBVIOUS
  <2>2. \A x \in Box : x[1] \in S => DOMAIN g[x[1]].part = {}
    BY <1>1
  <2>3. \A x \in Box : x[1] \notin S => g[x[1]].part = h[x[1]].part
    BY <1>1 DEF Keeps
  <2>4. \A x \in Box : x[1] \in S <=> x \in S \X (1 .. ArgsInFrame + 1)
    OBVIOUS
  <2>5. S \X (1 .. ArgsInFrame + 1) \subseteq Box
    OBVIOUS
  <2> DEFINE In(k, x) == x[2] \in DOMAIN k[x[1]].part /\ k[x[1]].part[x[2]] = Obj(i)
  <2>6. /\ Places(g, DOMAIN g, i) = {x \in Box : In(g, x)}
        /\ Places(h, DOMAIN h, i) = {x \in Box : In(h, x)}
        /\ Places(h, S, i) = {x \in S \X (1 .. ArgsInFrame + 1) : In(h, x)}
    BY <1>1 DEF Places
  <2>7. \A x \in Box : In(g, x) <=> In(h, x) /\ x[1] \notin S
    BY <2>2, <2>3
  <2> HIDE DEF In, Box
  <2>8. QED
    BY <2>4, <2>5, <2>6, <2>7
<1>6. HeapOK(g)
  BY <1>1, <1>4 DEF HeapOK
<1>7. QED
  BY <1>2, <1>5, <1>6

-----------------------------------------------------------------------------
(* Counts. *)
(* Claims to cells that are no frames may be given up for nothing; after an
   exception, all may.                                                     *)
Fewer(h, v, w) ==
  \A i \in Nat : /\ v[i] <= w[i]
                 /\ i \notin DOMAIN h => v[i] = w[i]
                 /\ i \in DOMAIN h /\ h[i].kind = "FRAME" /\ NoException(h) => v[i] = w[i]

LEMMA Weaken ==
  ASSUME NEW h, NEW w, Sound(h, w), NEW v \in Ledger, Fewer(h, v, w)
  PROVE  Sound(h, v)
<1>1. HeapOK(h) /\ w \in Ledger /\ DOMAIN h \subseteq Nat
  BY HeapFacts DEF Sound, Backed
<1>2. ASSUME NEW i \in DOMAIN h
      PROVE  Cardinality(Places(h, DOMAIN h, i)) + v[i] <= h[i].count + h[i].given
  <2>1. Cardinality(Places(h, DOMAIN h, i)) + w[i] <= h[i].count + h[i].given
    BY DEF Sound, Backed, Covered
  <2>2. Cardinality(Places(h, DOMAIN h, i)) \in Nat
    BY <1>1, PlacesFacts
  <2>3. v[i] \in Int /\ w[i] \in Int /\ v[i] <= w[i]
    BY <1>1 DEF Ledger, Fewer
  <2>4. h[i].count \in Nat /\ h[i].given \in Nat
    BY <1>1, HeapFacts
  <2>5. QED
    BY <2>1, <2>2, <2>3, <2>4
<1>3. \A i \in Nat : i \notin DOMAIN h => v[i] = 0
  BY DEF Sound, Backed, Fewer
<1>4. Backed(h, v)
  BY <1>1, <1>2, <1>3 DEF Backed, Covered
<1>5. Tallied(h, v)
  <2>1. NoException(h) => \A i \in DOMAIN h : Told(h[i], w[i])
    BY DEF Sound, Tallied
  <2>2. NoException(h) => \A i \in DOMAIN h : h[i].kind = "FRAME" => v[i] = w[i]
    BY <1>1 DEF Fewer
  <2> HIDE DEF NoException
  <2>3. QED
    BY <2>1, <2>2 DEF Tallied, Told
<1>6. QED
  BY <1>4, <1>5 DEF Sound

LEMMA NoMore ==
  ASSUME NEW h, NEW w, NEW p, w \in Ledger, Sound(h, Plus(w, p)), Value(h, p)
  PROVE  Sound(h, w)
<1>1. \A i \in Nat : /\ Plus(w, p)[i] = w[i] + Is(p, i) /\ w[i] \in Int
                     /\ Is(p, i) \in {0, 1}
  BY LedgerFacts DEF Is, Ledger
<1>2. \A i : i \notin DOMAIN h \/ h[i].kind = "FRAME" => Is(p, i) = 0
  BY ObjFacts DEF Value, Points, Is
<1>3. \A i \in Nat : w[i] <= Plus(w, p)[i] /\ (Is(p, i) = 0 => w[i] = Plus(w, p)[i])
  BY <1>1
<1>4. Fewer(h, w, Plus(w, p))
  BY <1>2, <1>3 DEF Fewer
<1>5. QED
  BY <1>4, LedgerFacts, Weaken

LEMMA Dropped ==
  ASSUME NEW h, NEW w, NEW p, w \in Ledger, Sound(h, Plus(w, p)), Points(h, p), ~NoException(h)
  PROVE  Sound(h, w)
<1>1. \A i \in Nat : /\ Plus(w, p)[i] = w[i] + Is(p, i) /\ w[i] \in Int
                     /\ Is(p, i) \in {0, 1}
  BY LedgerFacts DEF Is, Ledger
<1>2. \A i : i \notin DOMAIN h => Is(p, i) = 0
  BY ObjFacts DEF Points, Is
<1>3. \A i \in Nat : w[i] <= Plus(w, p)[i] /\ (Is(p, i) = 0 => w[i] = Plus(w, p)[i])
  BY <1>1
<1>4. Fewer(h, w, Plus(w, p))
  BY <1>2, <1>3 DEF Fewer
<1>5. QED
  BY <1>4, LedgerFacts, Weaken

(* Frames that are as they were, and as often claimed. *)
SameFrames(h, g, v, w) ==
  /\ DOMAIN g = DOMAIN h
  /\ \A i \in DOMAIN h :
       /\ g[i].kind = h[i].kind
       /\ h[i].kind = "FRAME" => g[i].count = h[i].count /\ (g[i].free <=> h[i].free) /\ v[i] = w[i]

LEMMA SameTallied ==
  ASSUME NEW h, NEW w, Tallied(h, w), NEW g, NEW v, SameFrames(h, g, v, w)
  PROVE  Tallied(g, v)
<1>1. NoException(g) => NoException(h)
  BY DEF NoException, SameFrames
<1>2. \A i \in DOMAIN h : Told(h[i], w[i]) => Told(g[i], v[i])
  BY DEF SameFrames, Told
<1>3. QED
  BY <1>1, <1>2 DEF Tallied, SameFrames

(* One count is set to another number, or one `given'. *)
Renewed(k, c, d) ==
  [kind |-> k.kind, free |-> k.free, count |-> c, given |-> d,
   part |-> k.part, prev |-> k.prev, depth |-> k.depth, args |-> k.args]
Recounted(h, g, j, c, d) == g = [h EXCEPT ![j] = Renewed(h[j], c, d)]

LEMMA RecountedCell ==
  ASSUME NEW k, CellOK(k), NEW c \in Nat, NEW d \in Nat
  PROVE  LET e == Renewed(k, c, d)
         IN  CellOK(e) /\ Keeps(k, e) /\ e.count = c /\ e.given = d
<1> DEFINE e == Renewed(k, c, d)
<1>1. /\ e.kind = k.kind /\ e.free = k.free /\ e.count = c /\ e.given = d /\ e.part = k.part
      /\ e.prev = k.prev /\ e.depth = k.depth /\ e.args = k.args
  BY DEF Renewed
<1>2. e = [kind |-> e.kind, free |-> e.free, count |-> e.count, given |-> e.given,
           part |-> e.part, prev |-> e.prev, depth |-> e.depth, args |-> e.args]
  BY DEF Renewed
<1> HIDE DEF e
<1>3. CellOK(e)
  BY <1>1, <1>2 DEF CellOK
<1>4. QED
  BY <1>1, <1>3 DEF Keeps, e

(* EXCEPT makes such a cell. *)
LEMMA RenewedFacts ==
  ASSUME NEW k, CellOK(k)
  PROVE  /\ \A c : [k EXCEPT !.count = c] = Renewed(k, c, k.given)
         /\ \A d : [k EXCEPT !.given = d] = Renewed(k, k.count, d)
<1>1. k = [kind |-> k.kind, free |-> k.free, count |-> k.count, given |-> k.given,
           part |-> k.part, prev |-> k.prev, depth |-> k.depth, args |-> k.args]
  BY DEF CellOK
<1>2. ASSUME NEW c PROVE [k EXCEPT !.count = c] = Renewed(k, c, k.given)
  BY <1>1 DEF Renewed
<1>3. ASSUME NEW d PROVE [k EXCEPT !.given = d] = Renewed(k, k.count, d)
  BY <1>1 DEF Renewed
<1>4. QED
  BY <1>2, <1>3

LEMMA RecountedFacts ==
  ASSUME NEW h, HeapOK(h), NEW j \in DOMAIN h, NEW c \in Nat, NEW d \in Nat,
         h[j].kind = "FRAME" => d = 0, NEW g, Recounted(h, g, j, c, d)
  PROVE  /\ HeapOK(g) /\ DOMAIN g = DOMAIN h /\ Leaves(h, g, DOMAIN h)
         /\ \A i : Places(g, DOMAIN g, i) = Places(h, DOMAIN h, i)
         /\ g[j].count = c /\ g[j].given = d
         /\ \A i \in DOMAIN h : i # j => g[i] = h[i]
<1> DEFINE e == Renewed(h[j], c, d)
<1>1. CellOK(e) /\ Keeps(h[j], e) /\ e.count = c /\ e.given = d
  BY HeapFacts, RecountedCell
<1>2. g = [h EXCEPT ![j] = e]
  BY DEF Recounted
<1> HIDE DEF e
<1>3. DOMAIN g = DOMAIN h /\ g[j] = e /\ \A i \in DOMAIN h : i # j => g[i] = h[i]
  BY <1>2
<1>4. IsSequence(g)
  <2>1. Len(h) \in Nat /\ h = [i \in 1 .. Len(h) |-> h[i]]
    BY HeapFacts DEF IsSequence
  <2>2. g = [i \in 1 .. Len(h) |-> g[i]]
    BY <1>2, <2>1
  <2>3. QED
    BY <2>1, <2>2, MadeSequence
<1>5. \A i \in DOMAIN h : Keeps(h[i], g[i]) /\ CellOK(g[i])
  BY <1>1, <1>3, HeapFacts DEF Keeps
<1>6. \A i \in DOMAIN h : g[i].kind = "FRAME" => g[i].given = 0
  <2>1. \A i \in DOMAIN h : PartsOK(h, h[i])
    BY DEF HeapOK
  <2>2. \A i \in DOMAIN h : h[i].kind = "FRAME" => h[i].given = 0
    BY <2>1 DEF PartsOK
  <2>3. QED
    BY <1>1, <1>3, <2>2 DEF Keeps
<1>7. Trimmed(h, g, {})
  BY <1>3, <1>4, <1>5, <1>6 DEF Trimmed, Keeps
<1>8. \A i : Places(h, {}, i) = {}
  BY DEF Places
<1>9. /\ HeapOK(g) /\ Grows(h, g)
      /\ \A i : Places(g, DOMAIN g, i) = Places(h, DOMAIN h, i)
  BY <1>7, <1>8, TrimmedOK
<1>10. QED
  BY <1>1, <1>3, <1>5, <1>9 DEF Leaves

LEMMA RecountedBacked ==
  ASSUME NEW h, NEW w, Backed(h, w), NEW j \in DOMAIN h, NEW c \in Nat, NEW d \in Nat,
         h[j].kind = "FRAME" => d = 0, NEW g, Recounted(h, g, j, c, d),
         NEW v \in Ledger, \A i \in Nat : i # j => v[i] = w[i],
         v[j] <= w[j] + (c + d) - (h[j].count + h[j].given)
  PROVE  Backed(g, v)
<1>1. HeapOK(h) /\ w \in Ledger /\ DOMAIN h \subseteq Nat
  BY HeapFacts DEF Backed
<1>2. /\ HeapOK(g) /\ DOMAIN g = DOMAIN h /\ g[j].count = c /\ g[j].given = d
      /\ \A i : Places(g, DOMAIN g, i) = Places(h, DOMAIN h, i)
      /\ \A i \in DOMAIN h : i # j => g[i] = h[i]
  BY <1>1, RecountedFacts
<1>3. ASSUME NEW i \in DOMAIN h
      PROVE  Cardinality(Places(g, DOMAIN g, i)) + v[i] <= g[i].count + g[i].given
  <2> DEFINE n == Cardinality(Places(h, DOMAIN h, i))
  <2>1. n + w[i] <= h[i].count + h[i].given
    BY DEF Backed, Covered
  <2>2. n \in Nat
    BY <1>1, PlacesFacts
  <2>3. v[i] \in Int /\ w[i] \in Int /\ h[i].count \in Nat /\ h[i].given \in Nat
    BY <1>1, HeapFacts DEF Ledger
  <2>4. Cardinality(Places(g, DOMAIN g, i)) = n
    BY <1>2
  <2> HIDE DEF n
  <2>5. CASE i = j
    BY <1>2, <2>1, <2>2, <2>3, <2>4, <2>5
  <2>6. CASE i # j
    BY <1>1, <1>2, <2>1, <2>2, <2>3, <2>4, <2>6
  <2>7. QED
    BY <2>5, <2>6
<1>4. \A i \in Nat : i \notin DOMAIN g => v[i] = 0
  BY <1>2 DEF Backed
<1>5. QED
  BY <1>2, <1>3, <1>4 DEF Backed, Covered

(* inc_ref counts a claim. *)
LEMMA IncRefBacked ==
  ASSUME NEW h, NEW w, Backed(h, w), NEW p, Points(h, p)
  PROVE  /\ Backed(IncRef(h, p), Plus(w, p)) /\ Leaves(h, IncRef(h, p), DOMAIN h)
         /\ DOMAIN IncRef(h, p) = DOMAIN h /\ Len(IncRef(h, p)) = Len(h)
<1>1. HeapOK(h) /\ w \in Ledger /\ DOMAIN h \subseteq Nat
  BY HeapFacts DEF Backed
<1>2. CASE ~IsObj(p)
  BY <1>1, <1>2, AtomFacts, AtomLedger, LeavesFacts
<1>3. CASE IsObj(p)
  <2> DEFINE j == p[2]
             c == h[j].count + 1
             d == h[j].given
             g == [h EXCEPT ![j].count = @ + 1]
  <2>1. p = Obj(j) /\ j \in DOMAIN h
    BY <1>3 DEF Points
  <2>2. h[j].count \in Nat /\ h[j].given \in Nat /\ (h[j].kind = "FRAME" => d = 0) /\ c \in Nat
        /\ d \in Nat /\ CellOK(h[j])
    BY <1>1, <2>1, HeapFacts DEF PartsOK
  <2>3. Recounted(h, g, j, c, d)
    <3>1. Renewed(h[j], c, d) = [h[j] EXCEPT !.count = c]
      BY <2>2, RenewedFacts
    <3>2. g = [h EXCEPT ![j] = [h[j] EXCEPT !.count = c]]
      OBVIOUS
    <3>3. QED
      BY <3>1, <3>2 DEF Recounted
  <2>4. /\ Plus(w, p) \in Ledger /\ \A i \in Nat : i # j => Plus(w, p)[i] = w[i]
        /\ Plus(w, p)[j] = w[j] + 1 /\ w[j] \in Int
    BY <1>1, <2>1, LedgerFacts, ObjFacts DEF Is, Ledger
  <2>5. IncRef(h, p) = g
    BY <1>3 DEF IncRef
  <2> HIDE DEF g
  <2>6. Plus(w, p)[j] <= w[j] + (c + d) - (h[j].count + h[j].given)
    BY <2>2, <2>4
  <2> HIDE DEF c, d, j
  <2>7. Backed(g, Plus(w, p))
    BY <1>1, <2>1, <2>2, <2>3, <2>4, <2>6, RecountedBacked
  <2>8. Leaves(h, g, DOMAIN h) /\ DOMAIN g = DOMAIN h /\ HeapOK(g)
    <3>1. /\ HeapOK(h) /\ j \in DOMAIN h /\ c \in Nat /\ d \in Nat
          /\ (h[j].kind = "FRAME" => d = 0) /\ Recounted(h, g, j, c, d)
      BY <1>1, <2>1, <2>2, <2>3
    <3>2. HeapOK(g) /\ DOMAIN g = DOMAIN h
      BY <3>1, RecountedFacts
    <3>3. Leaves(h, g, DOMAIN h)
      BY <3>1, RecountedFacts
    <3>4. QED
      BY <3>2, <3>3
  <2>9. Len(g) = Len(h)
    BY <1>1, <2>8, SameLength
  <2>10. QED
    BY <2>5, <2>7, <2>8, <2>9
<1>4. QED
  BY <1>2, <1>3

(* A value is no frame. *)
LEMMA NoFrame ==
  ASSUME NEW h, NEW w \in Ledger, NEW p, Value(h, p), DOMAIN h \subseteq Nat
  PROVE  \A i \in DOMAIN h : h[i].kind = "FRAME" =>
           p # Obj(i) /\ Plus(w, p)[i] = w[i] /\ Minus(w, p)[i] = w[i]
<1>1. \A i \in DOMAIN h : h[i].kind = "FRAME" => p # Obj(i)
  BY ObjFacts DEF Value
<1>2. \A i \in DOMAIN h : /\ Plus(w, p)[i] = w[i] + Is(p, i) /\ Minus(w, p)[i] = w[i] - Is(p, i)
                          /\ w[i] \in Int
  BY LedgerFacts DEF Ledger
<1>3. \A i \in DOMAIN h : h[i].kind = "FRAME" => Is(p, i) = 0
  BY <1>1 DEF Is
<1>4. QED
  BY <1>1, <1>2, <1>3

LEMMA IncRefSound ==
  ASSUME NEW h, NEW w, Sound(h, w), NEW p, Value(h, p)
  PROVE  /\ Sound(IncRef(h, p), Plus(w, p)) /\ Leaves(h, IncRef(h, p), DOMAIN h)
         /\ DOMAIN IncRef(h, p) = DOMAIN h /\ Len(IncRef(h, p)) = Len(h)
<1> DEFINE g == IncRef(h, p)
           v == Plus(w, p)
<1>1. Backed(h, w) /\ Tallied(h, w) /\ w \in Ledger /\ DOMAIN h \subseteq Nat /\ Points(h, p)
  BY HeapFacts DEF Sound, Backed, Value
<1>2. Backed(g, v) /\ Leaves(h, g, DOMAIN h) /\ DOMAIN g = DOMAIN h /\ Len(g) = Len(h)
  BY <1>1, IncRefBacked
<1>3. \A i \in DOMAIN h : p # Obj(i) => g[i] = h[i]
  BY <1>1 DEF IncRef, Points
<1>4. \A i \in DOMAIN h : h[i].kind = "FRAME" => p # Obj(i) /\ v[i] = w[i]
  BY <1>1, NoFrame
<1> HIDE DEF g, v
<1>5. SameFrames(h, g, v, w)
  BY <1>2, <1>3, <1>4 DEF SameFrames, Leaves, Grows
<1>6. Sound(g, v)
  BY <1>1, <1>2, <1>5, SameTallied DEF Sound
<1>7. QED
  BY <1>2, <1>6 DEF g, v

-----------------------------------------------------------------------------
(* dec_ref, and the cascade. *)
Emptied(k) == [k EXCEPT !.free = TRUE, !.part = <<>>]

LEMMA EmptiedCell ==
  ASSUME NEW k, CellOK(k)
  PROVE  /\ CellOK(Emptied(k)) /\ Emptied(k).kind = k.kind /\ Emptied(k).free
         /\ Emptied(k).part = <<>>
         /\ Emptied(k).count = k.count /\ Emptied(k).given = k.given
<1> DEFINE d(b) == [k EXCEPT !.free = b]
           e(b) == [kind |-> k.kind, free |-> b, count |-> k.count, given |-> k.given,
                    part |-> <<>>, prev |-> k.prev, depth |-> k.depth, args |-> k.args]
<1>1. k = [kind |-> k.kind, free |-> k.free, count |-> k.count, given |-> k.given,
           part |-> k.part, prev |-> k.prev, depth |-> k.depth, args |-> k.args]
  BY DEF CellOK
<1>2. ASSUME NEW b
      PROVE  [d(b) EXCEPT !.part = <<>>] = e(b)
  <2>1. d(b) = [kind |-> k.kind, free |-> b, count |-> k.count, given |-> k.given,
                part |-> k.part, prev |-> k.prev, depth |-> k.depth, args |-> k.args]
    BY <1>1
  <2> HIDE DEF d
  <2>2. QED
    BY <2>1
<1>3. Emptied(k) = [d(TRUE) EXCEPT !.part = <<>>]
  BY DEF Emptied
<1> HIDE DEF d, e
<1>4. Emptied(k) = e(TRUE)
  BY <1>2, <1>3
<1>5. ASSUME NEW b
      PROVE  /\ e(b).kind = k.kind /\ e(b).free = b /\ e(b).count = k.count
             /\ e(b).given = k.given /\ e(b).part = <<>>
             /\ e(b).prev = k.prev /\ e(b).depth = k.depth /\ e(b).args = k.args
             /\ e(b) = [kind |-> e(b).kind, free |-> e(b).free, count |-> e(b).count,
                        given |-> e(b).given, part |-> e(b).part, prev |-> e(b).prev,
                        depth |-> e(b).depth, args |-> e(b).args]
  BY DEF e
<1> DEFINE x == e(TRUE)
<1>6. /\ x.kind = k.kind /\ x.free = TRUE /\ x.count = k.count /\ x.given = k.given
      /\ x.part = <<>> /\ x.prev = k.prev /\ x.depth = k.depth /\ x.args = k.args
      /\ x = [kind |-> x.kind, free |-> x.free, count |-> x.count, given |-> x.given,
              part |-> x.part, prev |-> x.prev, depth |-> x.depth, args |-> x.args]
  BY <1>5
<1> HIDE DEF x
<1>7. CellOK(x)
  BY <1>6 DEF CellOK
<1>8. Emptied(k) = x
  BY <1>4 DEF x
<1>9. QED
  BY <1>6, <1>7, <1>8

LEMMA LessFacts ==
  ASSUME NEW c \in Nat, NEW n \in Nat
  PROVE  Less(c, n) \in Nat /\ Less(c, n) >= c - n /\ Less(c, 0) = c
BY DEF Less

LEMMA FreeCellsFacts ==
  ASSUME NEW h, HeapOK(h), NEW S, S \subseteq DOMAIN h
  PROVE  LET g == FreeCells(h, S)
         IN  /\ Trimmed(h, g, S)
             /\ \A i \in DOMAIN h :
                  /\ g[i].given = h[i].given
                  /\ i \in S => g[i].count = h[i].count
                  /\ i \notin S => g[i].count = Less(h[i].count, Cardinality(Places(h, S, i)))
<1> DEFINE parts == UNION {{h[j].part[n] : n \in DOMAIN h[j].part} : j \in S}
           emptied(i) == Emptied(h[i])
           less(i) == Less(h[i].count, Cardinality(Places(h, S, i)))
           lowered(i) == [h[i] EXCEPT !.count = Less(@, Cardinality(Places(h, S, i)))]
           g == FreeCells(h, S)
<1>1. g = [i \in DOMAIN h |-> IF i \in S THEN emptied(i)
                              ELSE IF Obj(i) \notin parts THEN h[i] ELSE lowered(i)]
  BY DEF FreeCells, Emptied
<1>2. \A i \in DOMAIN h : CellOK(h[i]) /\ h[i].count \in Nat /\ h[i].given \in Nat
  BY HeapFacts
<1>3. \A i \in DOMAIN h : Obj(i) \notin parts => Places(h, S, i) = {}
  <2>1. SUFFICES ASSUME NEW i, NEW x \in Places(h, S, i) PROVE Obj(i) \in parts
    OBVIOUS
  <2>2. x[1] \in S /\ x[2] \in DOMAIN h[x[1]].part /\ h[x[1]].part[x[2]] = Obj(i)
    BY DEF Places
  <2>3. QED
    BY <2>2
<1>4. \A i \in DOMAIN h : Cardinality(Places(h, S, i)) \in Nat /\ less(i) \in Nat
  BY <1>2, PlacesFacts, LessFacts
<1>5. \A i \in DOMAIN h : lowered(i) = Renewed(h[i], less(i), h[i].given)
  BY <1>2, RenewedFacts
<1>6. ASSUME NEW i \in DOMAIN h
      PROVE  /\ CellOK(g[i]) /\ g[i].kind = h[i].kind
             /\ i \notin S => Keeps(h[i], g[i])
             /\ i \in S => g[i].free /\ g[i].part = <<>>
             /\ g[i].given = h[i].given
             /\ i \in S => g[i].count = h[i].count
             /\ i \notin S => g[i].count = less(i)
  <2>1. CASE i \in S
    <3>1. g[i] = emptied(i)
      BY <1>1, <2>1
    <3> HIDE DEF g
    <3>2. QED
      BY <1>2, <2>1, <3>1, EmptiedCell
  <2>2. CASE i \notin S /\ Obj(i) \notin parts
    <3>1. g[i] = h[i]
      BY <1>1, <2>2
    <3>2. less(i) = h[i].count
      <4>1. Places(h, S, i) = {}
        BY <1>3, <2>2
      <4>2. Cardinality(Places(h, S, i)) = 0
        BY <4>1, FS_EmptySet
      <4>3. QED
        BY <1>2, <4>2, LessFacts
    <3> HIDE DEF g, less, parts
    <3>3. QED
      BY <1>2, <2>2, <3>1, <3>2 DEF Keeps
  <2>3. CASE i \notin S /\ Obj(i) \in parts
    <3> DEFINE e == Renewed(h[i], less(i), h[i].given)
    <3>1. g[i] = lowered(i)
      BY <1>1, <2>3
    <3>2. g[i] = e
      BY <1>5, <3>1
    <3>3. CellOK(e) /\ Keeps(h[i], e) /\ e.count = less(i) /\ e.given = h[i].given
      <4> HIDE DEF less
      <4>1. QED
        BY <1>2, <1>4, RecountedCell
    <3>4. e.kind = h[i].kind
      BY <3>3 DEF Keeps
    <3> HIDE DEF g, less, parts, e
    <3>5. QED
      BY <2>3, <3>2, <3>3, <3>4
  <2>4. QED
    BY <2>1, <2>2, <2>3
<1>7. DOMAIN g = DOMAIN h /\ IsSequence(g)
  <2>1. Len(h) \in Nat /\ DOMAIN h = 1 .. Len(h)
    BY HeapFacts
  <2>2. g = [i \in 1 .. Len(h) |-> g[i]]
    BY <1>1, <2>1
  <2> HIDE DEF g
  <2>3. QED
    BY <2>1, <2>2, MadeSequence
<1>8. \A i \in DOMAIN h : h[i].kind = "FRAME" => h[i].given = 0
  BY HeapFacts DEF PartsOK
<1> HIDE DEF g, less, parts, lowered, emptied
<1>9. Trimmed(h, g, S)
  BY <1>6, <1>7, <1>8 DEF Trimmed
<1>10. QED
  BY <1>6, <1>9 DEF g, less

LEMMA FreeCellsBacked ==
  ASSUME NEW h, NEW w, Backed(h, w), NEW S, S \subseteq DOMAIN h
  PROVE  Backed(FreeCells(h, S), w)
<1> DEFINE g == FreeCells(h, S)
<1>1. HeapOK(h) /\ w \in Ledger /\ DOMAIN h \subseteq Nat
  BY HeapFacts DEF Backed
<1>2. /\ Trimmed(h, g, S)
      /\ \A i \in DOMAIN h :
           /\ g[i].given = h[i].given
           /\ i \in S => g[i].count = h[i].count
           /\ i \notin S => g[i].count = Less(h[i].count, Cardinality(Places(h, S, i)))
  BY <1>1, FreeCellsFacts
<1> HIDE DEF g
<1>3. /\ HeapOK(g) /\ DOMAIN g = DOMAIN h
      /\ \A i : Places(g, DOMAIN g, i) = Places(h, DOMAIN h, i) \ Places(h, S, i)
  <2>1. DOMAIN g = DOMAIN h
    BY <1>2 DEF Trimmed
  <2>2. QED
    BY <1>1, <1>2, <2>1, TrimmedOK
<1>4. ASSUME NEW i \in DOMAIN h
      PROVE  Cardinality(Places(g, DOMAIN g, i)) + w[i] <= g[i].count + g[i].given
  <2> DEFINE n == Cardinality(Places(h, DOMAIN h, i))
             d == Cardinality(Places(h, S, i))
             c == h[i].count
             m == Cardinality(Places(g, DOMAIN g, i))
  <2>1. n + w[i] <= c + h[i].given
    BY DEF Backed, Covered
  <2>2. n \in Nat /\ d \in Nat /\ IsFiniteSet(Places(h, DOMAIN h, i)) /\ Places(h, S, i) \subseteq Places(h, DOMAIN h, i)
    BY <1>1, PlacesFacts
  <2>3. w[i] \in Int /\ c \in Nat /\ h[i].given \in Nat
    BY <1>1, HeapFacts DEF Ledger
  <2>4. m = n - d
    <3>1. Places(h, DOMAIN h, i) \cap Places(h, S, i) = Places(h, S, i)
      BY <2>2
    <3>2. Cardinality(Places(h, DOMAIN h, i) \ Places(h, S, i)) = n - Cardinality(Places(h, DOMAIN h, i) \cap Places(h, S, i))
      BY <2>2, FS_Difference
    <3>3. QED
      BY <1>3, <3>1, <3>2
  <2>5. g[i].given = h[i].given /\ (g[i].count = c \/ g[i].count = Less(c, d))
    BY <1>2
  <2>6. g[i].count \in Nat /\ g[i].count >= c - d
    <3>1. c \in Nat /\ d \in Nat
      BY <2>2, <2>3
    <3> HIDE DEF c, d
    <3>2. Less(c, d) \in Nat /\ Less(c, d) >= c - d
      BY <3>1, LessFacts
    <3>3. QED
      BY <2>5, <3>1, <3>2
  <2> HIDE DEF n, c, d, m
  <2>7. m + w[i] <= g[i].count + g[i].given
    BY <2>1, <2>2, <2>3, <2>4, <2>5, <2>6
  <2>8. QED
    BY <2>7 DEF m
<1>5. \A i \in Nat : i \notin DOMAIN g => w[i] = 0
  BY <1>3 DEF Backed
<1>6. Backed(g, w)
  BY <1>1, <1>3, <1>4, <1>5 DEF Backed, Covered
<1>7. QED
  BY <1>6 DEF g

Cascade(s) == IF s.dead = {} THEN s ELSE Lowered(s.heap, FreeCells(s.heap, s.dead))
Falls(h, g, N) ==
  CHOOSE down : down = [n \in 0 .. N |-> IF n = 0 THEN Lowered(h, g) ELSE Cascade(down[n - 1])]

LEMMA FallsFacts ==
  ASSUME NEW h, NEW g, NEW N \in Nat
  PROVE  /\ Falls(h, g, N)[0] = Lowered(h, g)
         /\ \A n \in 1 .. N : Falls(h, g, N)[n] = Cascade(Falls(h, g, N)[n - 1])
<1> DEFINE start == Lowered(h, g)
           stage(f, n) == IF n = 0 THEN start ELSE Cascade(f[n - 1])
           P == {m \in 0 .. N : \E f : f = [n \in 0 .. m |-> stage(f, n)]}
<1>1. 0 \in P
  <2> DEFINE f == [n \in 0 .. 0 |-> start]
  <2>1. f = [n \in 0 .. 0 |-> stage(f, n)]
    OBVIOUS
  <2> HIDE DEF f, stage
  <2>2. QED
    BY <2>1
<1>2. ASSUME NEW m \in 1 .. N, m - 1 \in P
      PROVE  m \in P
  <2>1. PICK f : f = [n \in 0 .. m - 1 |-> stage(f, n)]
    BY <1>2
  <2> DEFINE e == [n \in 0 .. m |-> IF n = m THEN Cascade(f[m - 1]) ELSE f[n]]
  <2>2. ASSUME NEW n \in 0 .. m
        PROVE  e[n] = stage(e, n)
    <3>1. CASE n = m
      <4>1. n # 0 /\ n - 1 \in 0 .. m /\ n - 1 # m
        BY <3>1
      <4>2. e[n - 1] = f[n - 1] /\ e[n] = Cascade(f[m - 1])
        BY <3>1, <4>1
      <4> HIDE DEF e
      <4>3. QED
        BY <3>1, <4>1, <4>2
    <3>2. CASE n # m
      <4>1. n \in 0 .. m - 1 /\ (n # 0 => n - 1 \in 0 .. m - 1 /\ n - 1 \in 0 .. m /\ n - 1 # m)
        BY <3>2
      <4>2. e[n] = f[n] /\ (n # 0 => e[n - 1] = f[n - 1])
        BY <3>2, <4>1
      <4>3. f[n] = stage(f, n)
        <5> HIDE DEF stage
        <5>1. QED
          BY <2>1, <4>1
      <4> HIDE DEF e
      <4>4. QED
        BY <4>2, <4>3
    <3>3. QED
      BY <3>1, <3>2
  <2>3. e = [n \in 0 .. m |-> e[n]]
    OBVIOUS
  <2> HIDE DEF e, stage
  <2>4. e = [n \in 0 .. m |-> stage(e, n)]
    BY <2>2, <2>3
  <2>5. QED
    BY <2>4
<1> HIDE DEF P
<1>3. N \in P
  <2>1. \A m \in 0 .. N : m \in P
    BY <1>1, <1>2, UpTo
  <2>2. QED
    BY <2>1
<1>4. \E f : f = [n \in 0 .. N |-> stage(f, n)]
  BY <1>3 DEF P
<1> DEFINE F == Falls(h, g, N)
<1>5. F = [n \in 0 .. N |-> stage(F, n)]
  BY <1>4 DEF Falls
<1> HIDE DEF F
<1>6. F[0] = start /\ \A n \in 1 .. N : F[n] = Cascade(F[n - 1])
  BY <1>5
<1>7. QED
  BY <1>6 DEF F

(* dec_ref gives up a claim; the frames that somebody has stay as they are. *)
LEMMA DecRefBacked ==
  ASSUME NEW h, NEW w, Backed(h, w), NEW p, Points(h, p),
         NEW F, Held(h, Minus(w, p), F)
  PROVE  /\ Backed(DecRef(h, p), Minus(w, p)) /\ Leaves(h, DecRef(h, p), F)
         /\ DOMAIN DecRef(h, p) = DOMAIN h /\ Len(DecRef(h, p)) = Len(h)
<1>1. HeapOK(h) /\ w \in Ledger /\ DOMAIN h \subseteq Nat
  BY HeapFacts DEF Backed
<1>2. F \subseteq DOMAIN h
  BY DEF Held
<1>3. CASE ~IsObj(p)
  BY <1>1, <1>2, <1>3, AtomFacts, AtomLedger, LeavesFacts
<1>4. CASE IsObj(p)
  <2> DEFINE j == p[2]
             c == Less(h[j].count, 1)
             d == h[j].given
             v == Minus(w, p)
             g == [h EXCEPT ![j].count = Less(@, 1)]
             N == Cardinality(Live(h))
             R == Falls(h, g, N)
             Fine(k) == Backed(k, v) /\ Leaves(h, k, F) /\ DOMAIN k = DOMAIN h
  <2>1. p = Obj(j) /\ j \in DOMAIN h
    BY <1>4 DEF Points
  <2>2. h[j].count \in Nat /\ d \in Nat /\ (h[j].kind = "FRAME" => d = 0) /\ CellOK(h[j])
    BY <1>1, <2>1, HeapFacts DEF PartsOK
  <2>3. c \in Nat /\ c >= h[j].count - 1
    BY <2>2, LessFacts
  <2>4. Recounted(h, g, j, c, d)
    <3>1. Renewed(h[j], c, d) = [h[j] EXCEPT !.count = c]
      BY <2>2, RenewedFacts
    <3>2. g = [h EXCEPT ![j] = [h[j] EXCEPT !.count = c]]
      OBVIOUS
    <3>3. QED
      BY <3>1, <3>2 DEF Recounted
  <2>5. /\ v \in Ledger /\ \A i \in Nat : i # j => v[i] = w[i]
        /\ v[j] = w[j] - 1 /\ w[j] \in Int
    BY <1>1, <2>1, LedgerFacts, ObjFacts DEF Is, Ledger
  <2>6. DecRef(h, p) = IF h[j].count = 1 THEN R[N].heap ELSE g
    BY <1>4 DEF DecRef, Falls, Cascade
  <2>7. Held(h, v, F)
    OBVIOUS
  <2> HIDE DEF g, v, R
  <2>8. v[j] <= w[j] + (c + d) - (h[j].count + h[j].given)
    BY <2>2, <2>3, <2>5
  <2>9. Fine(g)
    <3>1. /\ HeapOK(h) /\ j \in DOMAIN h /\ c \in Nat /\ d \in Nat
          /\ (h[j].kind = "FRAME" => d = 0) /\ Recounted(h, g, j, c, d)
      BY <1>1, <2>1, <2>2, <2>3, <2>4
    <3> HIDE DEF c, d, j
    <3>2. Backed(g, v)
      BY <1>1, <3>1, <2>5, <2>8, RecountedBacked
    <3>3. Leaves(h, g, DOMAIN h) /\ DOMAIN g = DOMAIN h
      BY <3>1, RecountedFacts
    <3>4. QED
      BY <1>2, <3>2, <3>3, LeavesFacts
  <2> HIDE DEF c, d, j
  <2>10. N \in Nat
    <3>1. Live(h) \subseteq DOMAIN h /\ IsFiniteSet(DOMAIN h)
      BY <1>1, HeapFacts DEF Live
    <3>2. QED
      BY <3>1, FS_Subset, FS_CardinalityType
  <2> HIDE DEF N
  <2>11. R[0] = Lowered(h, g) /\ \A n \in 1 .. N : R[n] = Cascade(R[n - 1])
    BY <2>10, FallsFacts DEF R
  <2> DEFINE Good(s) == Fine(s.heap) /\ s.dead \subseteq {i \in DOMAIN h : s.heap[i].count = 0}
             P == {n \in 0 .. N : Good(R[n])}
  <2>12. ASSUME NEW a, NEW b, Fine(b), DOMAIN a = DOMAIN h
         PROVE  Good(Lowered(a, b))
    BY <2>12 DEF Lowered, Dead, Live
  <2>13. 0 \in P
    <3>1. Good(R[0])
      <4> HIDE DEF Good, Fine
      <4>1. QED
        BY <2>9, <2>11, <2>12
    <3>2. QED
      BY <2>10, <3>1
  <2>14. ASSUME NEW s, Good(s)
         PROVE  Good(Cascade(s))
    <3>1. CASE s.dead = {}
      BY <2>14, <3>1 DEF Cascade
    <3>2. CASE s.dead # {}
      <4> DEFINE k == s.heap
                 S == s.dead
                 e == FreeCells(k, S)
      <4>1. Backed(k, v) /\ Leaves(h, k, F) /\ DOMAIN k = DOMAIN h /\ S \subseteq DOMAIN k /\ HeapOK(k)
        BY <2>14 DEF Backed
      <4>2. \A i \in S : k[i].count = 0
        BY <2>14
      <4> HIDE DEF k, S
      <4>3. Backed(e, v)
        BY <4>1, FreeCellsBacked
      <4>4. Trimmed(k, e, S)
        BY <4>1, FreeCellsFacts
      <4>5. ASSUME NEW i \in F
            PROVE  i \notin S
        <5>1. i \in DOMAIN h /\ h[i].kind = "FRAME" /\ v[i] > 0 /\ k[i].kind = "FRAME" /\ v[i] \in Int
          BY <1>1, <2>5, <2>7, <4>1 DEF Held, Leaves, Keeps, Ledger
        <5>2. k[i].given = 0 /\ k[i].count \in Nat
          BY <4>1, <5>1, HeapFacts DEF PartsOK
        <5>3. Cardinality(Places(k, DOMAIN k, i)) + v[i] <= k[i].count + k[i].given
          BY <4>1, <5>1 DEF Backed, Covered
        <5>4. Cardinality(Places(k, DOMAIN k, i)) \in Nat
          BY <4>1, PlacesFacts
        <5>5. k[i].count # 0
          BY <5>1, <5>2, <5>3, <5>4
        <5>6. QED
          BY <4>2, <5>5
      <4>6. Leaves(k, e, F) /\ DOMAIN e = DOMAIN h
        BY <1>2, <4>1, <4>4, <4>5 DEF Trimmed, Leaves, Grows
      <4>7. Leaves(h, e, F)
        BY <4>1, <4>6, LeavesFacts
      <4> HIDE DEF e
      <4>8. Good(Lowered(k, e))
        BY <2>12, <4>1, <4>3, <4>6, <4>7
      <4>9. QED
        BY <3>2, <4>8 DEF Cascade, e, k, S
    <3>3. QED
      BY <3>1, <3>2
  <2> HIDE DEF Good
  <2>15. \A n \in 0 .. N : n \in P
    <3>1. ASSUME NEW n \in 1 .. N, n - 1 \in P
          PROVE  n \in P
      <4>1. Good(R[n - 1]) /\ R[n] = Cascade(R[n - 1]) /\ n \in 0 .. N
        BY <2>11, <3>1
      <4>2. QED
        BY <2>14, <4>1
    <3> HIDE DEF P
    <3>2. QED
      BY <2>10, <2>13, <3>1, UpTo
  <2>16. Fine(R[N].heap)
    BY <2>10, <2>15 DEF Good
  <2>17. Fine(DecRef(h, p))
    BY <2>6, <2>9, <2>16
  <2>18. Len(DecRef(h, p)) = Len(h)
    BY <1>1, <2>17, SameLength DEF Backed
  <2>19. QED
    BY <2>17, <2>18 DEF v
<1>5. QED
  BY <1>3, <1>4

(* Who gives up a claim to a frame has one. *)
Owed(h, w, p) == Value(h, p) \/ (IsObj(p) /\ w[p[2]] > 0)

(* In the cascade, too, a frame has what is claimed of it, and is freed, or to be
   freed next, when that is nothing: no other cell can refer to it.           *)
ToldOrDead(c, n, dead) ==
  c.count = n /\ (n = 0 => c.free \/ dead) /\ (n # 0 => ~c.free /\ ~dead)
Falling(h, v, s) ==
  /\ HeapOK(s.heap) /\ Grows(h, s.heap) /\ DOMAIN s.heap = DOMAIN h /\ s.dead \subseteq DOMAIN h
  /\ \A i \in DOMAIN h : h[i].kind = "FRAME" => ToldOrDead(s.heap[i], v[i], i \in s.dead)
Clear(h, s) == \A i \in s.dead : h[i].kind # "FRAME"

LEMMA CascadeTold ==
  ASSUME NEW h, NoException(h), NEW v, NEW s, Falling(h, v, s)
  PROVE  Falling(h, v, Cascade(s)) /\ Clear(h, Cascade(s))
<1>1. CASE s.dead = {}
  BY <1>1 DEF Cascade, Clear
<1>2. CASE s.dead # {}
  <2> DEFINE k == s.heap
             S == s.dead
             e == FreeCells(k, S)
             D == Dead(k, e)
  <2>1. /\ HeapOK(k) /\ Grows(h, k) /\ DOMAIN k = DOMAIN h /\ S \subseteq DOMAIN k
        /\ \A i \in DOMAIN h : h[i].kind = "FRAME" => ToldOrDead(k[i], v[i], i \in S)
    BY DEF Falling
  <2>2. Cascade(s) = [heap |-> e, dead |-> D]
    BY <1>2 DEF Cascade, Lowered
  <2> HIDE DEF k, S
  <2>3. /\ Trimmed(k, e, S)
        /\ \A i \in DOMAIN k :
             /\ i \in S => e[i].count = k[i].count
             /\ i \notin S => e[i].count = Less(k[i].count, Cardinality(Places(k, S, i)))
    BY <2>1, FreeCellsFacts
  <2> HIDE DEF e
  <2>4. HeapOK(e) /\ Grows(k, e) /\ DOMAIN e = DOMAIN h
    BY <2>1, <2>3, TrimmedOK DEF Trimmed
  <2>5. Grows(h, e)
    BY <2>1, <2>4 DEF Grows
  <2>6. ASSUME NEW i \in DOMAIN h, h[i].kind = "FRAME"
        PROVE  Places(k, S, i) = {}
    <3>1. SUFFICES ASSUME NEW x \in Places(k, S, i) PROVE FALSE
      OBVIOUS
    <3>2. x[1] \in DOMAIN k /\ x[2] \in DOMAIN k[x[1]].part /\ k[x[1]].part[x[2]] = Obj(i)
      BY <2>1 DEF Places
    <3>3. k[x[1]].kind # "EXEP" /\ k[i].kind = "FRAME"
      BY <2>1, <2>6, <3>2 DEF NoException, Grows
    <3>4. PartsOK(k, k[x[1]])
      BY <2>1, <3>2, HeapFacts
    <3>5. Value(k, Obj(i))
      BY <3>2, <3>3, <3>4 DEF PartsOK
    <3>6. QED
      BY <3>3, <3>5, ObjFacts DEF Value
  <2>7. ASSUME NEW i \in DOMAIN h, h[i].kind = "FRAME"
        PROVE  e[i].count = k[i].count /\ i \notin D
    <3>1. k[i].count \in Nat
      BY <2>1, HeapFacts
    <3>2. Cardinality(Places(k, S, i)) = 0
      BY <2>6, <2>7, FS_EmptySet
    <3>3. e[i].count = k[i].count
      BY <2>1, <2>3, <3>1, <3>2, LessFacts
    <3>4. QED
      BY <3>1, <3>3 DEF Dead
  <2>8. \A i \in DOMAIN h : (i \in S => e[i].free) /\ (i \notin S => (e[i].free <=> k[i].free))
    BY <2>1, <2>3 DEF Trimmed, Keeps
  <2>9. ASSUME NEW i \in DOMAIN h, h[i].kind = "FRAME"
        PROVE  ToldOrDead(e[i], v[i], i \in D)
    <3>1. /\ k[i].count = v[i]
          /\ v[i] = 0 => k[i].free \/ i \in S
          /\ v[i] # 0 => ~k[i].free /\ i \notin S
      BY <2>1, <2>9 DEF ToldOrDead
    <3>2. e[i].count = k[i].count /\ i \notin D
      BY <2>7, <2>9
    <3>3. v[i] = 0 => e[i].free
      <4>1. CASE i \in S
        BY <2>8, <4>1
      <4>2. CASE i \notin S
        <5>1. e[i].free <=> k[i].free
          BY <2>8, <4>2
        <5>2. QED
          BY <3>1, <4>2, <5>1
      <4>3. QED
        BY <4>1, <4>2
    <3>4. v[i] # 0 => ~e[i].free
      BY <2>8, <3>1
    <3> HIDE DEF D
    <3>5. QED
      BY <3>1, <3>2, <3>3, <3>4 DEF ToldOrDead
  <2>10. D \subseteq DOMAIN h
    BY <2>1 DEF Dead, Live
  <2> HIDE DEF D
  <2>11. Falling(h, v, Cascade(s))
    BY <2>2, <2>4, <2>5, <2>9, <2>10 DEF Falling
  <2>12. Clear(h, Cascade(s))
    BY <2>2, <2>7, <2>10 DEF Clear
  <2>13. QED
    BY <2>11, <2>12
<1>3. Falling(h, v, Cascade(s))
  BY <1>1, <1>2 DEF Cascade
<1>4. QED
  BY <1>1, <1>2, <1>3

LEMMA DecRefTallied ==
  ASSUME NEW h, NEW w, Sound(h, w), NEW p, Points(h, p), Owed(h, w, p)
  PROVE  Tallied(DecRef(h, p), Minus(w, p))
<1>1. HeapOK(h) /\ w \in Ledger /\ DOMAIN h \subseteq Nat /\ Tallied(h, w)
  BY HeapFacts DEF Sound, Backed
<1>2. CASE ~IsObj(p)
  BY <1>1, <1>2, AtomFacts, AtomLedger
<1>3. CASE IsObj(p)
  <2> DEFINE j == p[2]
             c == Less(h[j].count, 1)
             d == h[j].given
             v == Minus(w, p)
             g == [h EXCEPT ![j].count = Less(@, 1)]
             N == Cardinality(Live(h))
             R == Falls(h, g, N)
  <2>1. p = Obj(j) /\ j \in DOMAIN h
    BY <1>3 DEF Points
  <2>2. h[j].count \in Nat /\ d \in Nat /\ (h[j].kind = "FRAME" => d = 0) /\ CellOK(h[j])
    BY <1>1, <2>1, HeapFacts DEF PartsOK
  <2>3. c \in Nat /\ (h[j].count > 0 => c = h[j].count - 1)
    BY <2>2 DEF Less
  <2>4. Recounted(h, g, j, c, d)
    <3>1. Renewed(h[j], c, d) = [h[j] EXCEPT !.count = c]
      BY <2>2, RenewedFacts
    <3>2. g = [h EXCEPT ![j] = [h[j] EXCEPT !.count = c]]
      OBVIOUS
    <3>3. QED
      BY <3>1, <3>2 DEF Recounted
  <2>5. /\ v \in Ledger /\ \A i \in Nat : i # j => v[i] = w[i]
        /\ v[j] = w[j] - 1 /\ w[j] \in Int
    BY <1>1, <2>1, LedgerFacts, ObjFacts DEF Is, Ledger
  <2>6. DecRef(h, p) = IF h[j].count = 1 THEN R[N].heap ELSE g
    BY <1>3 DEF DecRef, Falls, Cascade
  <2>7. h[j].kind = "FRAME" => w[j] > 0
    BY <1>3 DEF Owed, Value
  <2>8. IsFiniteSet(Live(h)) /\ N \in Nat /\ (Live(h) # {} => N # 0)
    <3>1. Live(h) \subseteq DOMAIN h /\ IsFiniteSet(DOMAIN h)
      BY <1>1, HeapFacts DEF Live
    <3>2. IsFiniteSet(Live(h))
      BY <3>1, FS_Subset
    <3>3. QED
      BY <3>2, FS_EmptySet, FS_CardinalityType
  <2> HIDE DEF g, v, R, N
  <2>9. /\ HeapOK(g) /\ DOMAIN g = DOMAIN h /\ Grows(h, g) /\ g[j].count = c
        /\ g[j].free = h[j].free /\ \A i \in DOMAIN h : i # j => g[i] = h[i]
    <3>1. /\ HeapOK(h) /\ j \in DOMAIN h /\ c \in Nat /\ d \in Nat
          /\ (h[j].kind = "FRAME" => d = 0) /\ Recounted(h, g, j, c, d)
      BY <1>1, <2>1, <2>2, <2>3, <2>4
    <3> HIDE DEF c, d, j
    <3>2. HeapOK(g) /\ DOMAIN g = DOMAIN h /\ g[j].count = c
      BY <3>1, RecountedFacts
    <3>3. Leaves(h, g, DOMAIN h) /\ \A i \in DOMAIN h : i # j => g[i] = h[i]
      BY <3>1, RecountedFacts
    <3>4. QED
      BY <3>1, <3>2, <3>3 DEF Leaves, Keeps
  <2> HIDE DEF c, d
  <2>10. SUFFICES ASSUME NoException(h)
                  PROVE  Tallied(DecRef(h, p), v)
    <3>1. ASSUME NoException(DecRef(h, p)) PROVE NoException(h)
      <4>1. Held(h, Minus(w, p), {}) /\ Backed(h, w)
        BY DEF Held, Sound
      <4>2. Leaves(h, DecRef(h, p), {})
        BY <4>1, DecRefBacked
      <4>3. QED
        BY <3>1, <4>2 DEF Leaves, Grows, NoException
    <3>2. QED
      BY <3>1 DEF Tallied, v
  <2>11. \A i \in DOMAIN h : Told(h[i], w[i])
    BY <1>1, <2>10 DEF Tallied
  <2>12. h[j].kind = "FRAME" => ~h[j].free /\ h[j].count = w[j] /\ c = v[j]
    BY <2>1, <2>3, <2>5, <2>7, <2>11 DEF Told
  <2>13. CASE h[j].count # 1
    <3>1. \A i \in DOMAIN h : i # j => Told(g[i], v[i])
      BY <1>1, <2>5, <2>9, <2>11
    <3>2. Told(g[j], v[j])
      BY <2>1, <2>2, <2>3, <2>5, <2>7, <2>9, <2>12, <2>13 DEF Told, Grows
    <3>3. \A i \in DOMAIN g : Told(g[i], v[i])
      BY <2>9, <3>1, <3>2
    <3>4. QED
      BY <2>6, <2>13, <3>3 DEF Tallied
  <2>14. CASE h[j].count = 1
    <3>1. R[0] = Lowered(h, g) /\ \A n \in 1 .. N : R[n] = Cascade(R[n - 1])
      BY <2>8, FallsFacts DEF R
    <3> DEFINE D == Dead(h, g)
    <3>2. D \subseteq DOMAIN h /\ \A i \in D : i = j
      BY <2>9 DEF Dead, Live
    <3>3. h[j].kind = "FRAME" => (j \in D <=> v[j] = 0)
      BY <2>1, <2>9, <2>12, <2>14 DEF Dead, Live
    <3>4. ASSUME NEW i \in DOMAIN h, h[i].kind = "FRAME"
          PROVE  ToldOrDead(g[i], v[i], i \in D)
      <4> HIDE DEF D
      <4>1. CASE i = j
        BY <2>9, <2>12, <3>3, <3>4, <4>1 DEF ToldOrDead
      <4>2. CASE i # j
        <5>1. Told(g[i], v[i]) /\ g[i].kind = "FRAME"
          BY <1>1, <2>5, <2>9, <2>11, <3>4, <4>2
        <5>2. i \notin D
          BY <3>2, <4>2
        <5>3. QED
          BY <5>1, <5>2 DEF Told, ToldOrDead
      <4>3. QED
        BY <4>1, <4>2
    <3>5. Lowered(h, g) = [heap |-> g, dead |-> D]
      BY DEF Lowered
    <3> HIDE DEF D
    <3>6. Falling(h, v, R[0])
      BY <2>9, <3>1, <3>2, <3>4, <3>5 DEF Falling
    <3>7. h[j].kind # "FRAME" => Clear(h, R[0])
      BY <3>1, <3>2, <3>5 DEF Clear
    <3>8. h[j].kind = "FRAME" => N # 0
      BY <2>1, <2>8, <2>12 DEF Live
    <3> DEFINE P == {n \in 0 .. N : Falling(h, v, R[n]) /\ (n # 0 => Clear(h, R[n]))}
    <3>9. \A n \in 0 .. N : n \in P
      <4>1. 0 \in P
        BY <2>8, <3>6
      <4>2. ASSUME NEW n \in 1 .. N, n - 1 \in P
            PROVE  n \in P
        <5>1. Falling(h, v, R[n - 1]) /\ R[n] = Cascade(R[n - 1]) /\ n \in 0 .. N
          BY <3>1, <4>2
        <5>2. Falling(h, v, R[n]) /\ Clear(h, R[n])
          BY <2>10, <5>1, CascadeTold
        <5>3. QED
          BY <5>1, <5>2
      <4> HIDE DEF P
      <4>3. QED
        BY <2>8, <4>1, <4>2, UpTo
    <3>10. Falling(h, v, R[N]) /\ Clear(h, R[N])
      BY <2>8, <3>7, <3>8, <3>9
    <3> DEFINE k == R[N].heap
    <3>11. /\ DOMAIN k = DOMAIN h /\ Grows(h, k)
           /\ \A i \in DOMAIN h : h[i].kind = "FRAME" => ToldOrDead(k[i], v[i], FALSE)
      BY <3>10 DEF Falling, Clear, ToldOrDead
    <3> HIDE DEF k
    <3>12. ASSUME NEW i \in DOMAIN k PROVE Told(k[i], v[i])
      <4>1. i \in DOMAIN h /\ k[i].kind = h[i].kind
        BY <3>11 DEF Grows
      <4>2. k[i].kind = "FRAME" => ToldOrDead(k[i], v[i], FALSE)
        BY <3>11, <4>1
      <4>3. QED
        BY <4>2 DEF ToldOrDead, Told
    <3>13. DecRef(h, p) = k
      BY <2>6, <2>14 DEF k
    <3>14. QED
      BY <3>12, <3>13 DEF Tallied
  <2>15. QED
    BY <2>13, <2>14
<1>4. QED
  BY <1>2, <1>3

LEMMA DecRefSound ==
  ASSUME NEW h, NEW w, Sound(h, w), NEW p, Points(h, p), Owed(h, w, p),
         NEW F, Held(h, Minus(w, p), F)
  PROVE  /\ Sound(DecRef(h, p), Minus(w, p)) /\ Leaves(h, DecRef(h, p), F)
         /\ DOMAIN DecRef(h, p) = DOMAIN h /\ Len(DecRef(h, p)) = Len(h)
<1>1. Backed(h, w)
  BY DEF Sound
<1>2. /\ Backed(DecRef(h, p), Minus(w, p)) /\ Leaves(h, DecRef(h, p), F)
      /\ DOMAIN DecRef(h, p) = DOMAIN h /\ Len(DecRef(h, p)) = Len(h)
  BY <1>1, DecRefBacked
<1>3. Tallied(DecRef(h, p), Minus(w, p))
  BY DecRefTallied
<1>4. QED
  BY <1>2, <1>3 DEF Sound

(* A count that may be another's. *)
LEMMA LendBacked ==
  ASSUME NEW h, NEW w, Backed(h, w), NEW p, Value(h, p)
  PROVE  /\ Backed(Lend(h, p), Plus(w, p)) /\ Leaves(h, Lend(h, p), DOMAIN h)
         /\ DOMAIN Lend(h, p) = DOMAIN h
<1>1. HeapOK(h) /\ w \in Ledger /\ DOMAIN h \subseteq Nat
  BY HeapFacts DEF Backed
<1>2. CASE ~IsObj(p)
  BY <1>1, <1>2, AtomFacts, AtomLedger, LeavesFacts
<1>3. CASE IsObj(p)
  <2> DEFINE j == p[2]
             c == h[j].count
             d == h[j].given + 1
             g == [h EXCEPT ![j].given = @ + 1]
  <2>1. p = Obj(j) /\ j \in DOMAIN h /\ h[j].kind # "FRAME"
    BY <1>3 DEF Value, Points
  <2>2. c \in Nat /\ h[j].given \in Nat /\ d \in Nat /\ CellOK(h[j])
    BY <1>1, <2>1, HeapFacts
  <2>3. Recounted(h, g, j, c, d)
    <3>1. Renewed(h[j], c, d) = [h[j] EXCEPT !.given = d]
      BY <2>2, RenewedFacts
    <3>2. g = [h EXCEPT ![j] = [h[j] EXCEPT !.given = d]]
      OBVIOUS
    <3>3. QED
      BY <3>1, <3>2 DEF Recounted
  <2>4. /\ Plus(w, p) \in Ledger /\ \A i \in Nat : i # j => Plus(w, p)[i] = w[i]
        /\ Plus(w, p)[j] = w[j] + 1 /\ w[j] \in Int
    BY <1>1, <2>1, LedgerFacts, ObjFacts DEF Is, Ledger
  <2>5. Lend(h, p) = g
    BY <1>3 DEF Lend
  <2> HIDE DEF g
  <2>6. Plus(w, p)[j] <= w[j] + (c + d) - (h[j].count + h[j].given)
    BY <2>2, <2>4
  <2> HIDE DEF c, d, j
  <2>7. Backed(g, Plus(w, p))
    BY <1>1, <2>1, <2>2, <2>3, <2>4, <2>6, RecountedBacked
  <2>8. Leaves(h, g, DOMAIN h) /\ DOMAIN g = DOMAIN h
    <3>1. /\ HeapOK(h) /\ j \in DOMAIN h /\ c \in Nat /\ d \in Nat
          /\ (h[j].kind = "FRAME" => d = 0) /\ Recounted(h, g, j, c, d)
      BY <1>1, <2>1, <2>2, <2>3
    <3>2. HeapOK(g) /\ DOMAIN g = DOMAIN h
      BY <3>1, RecountedFacts
    <3>3. Leaves(h, g, DOMAIN h)
      BY <3>1, RecountedFacts
    <3>4. QED
      BY <3>2, <3>3
  <2>9. QED
    BY <2>5, <2>7, <2>8
<1>4. QED
  BY <1>2, <1>3

LEMMA LendSound ==
  ASSUME NEW h, NEW w, Sound(h, w), NEW p, Value(h, p)
  PROVE  /\ Sound(Lend(h, p), Plus(w, p)) /\ Leaves(h, Lend(h, p), DOMAIN h)
         /\ DOMAIN Lend(h, p) = DOMAIN h
<1> DEFINE g == Lend(h, p)
           v == Plus(w, p)
<1>1. Backed(h, w) /\ Tallied(h, w) /\ w \in Ledger /\ DOMAIN h \subseteq Nat
  BY HeapFacts DEF Sound, Backed
<1>2. Backed(g, v) /\ Leaves(h, g, DOMAIN h) /\ DOMAIN g = DOMAIN h
  BY <1>1, LendBacked
<1>3. \A i \in DOMAIN h : p # Obj(i) => g[i] = h[i]
  BY <1>1 DEF Lend, Value, Points
<1>4. \A i \in DOMAIN h : h[i].kind = "FRAME" => p # Obj(i) /\ v[i] = w[i]
  BY <1>1, NoFrame
<1> HIDE DEF g, v
<1>5. SameFrames(h, g, v, w)
  BY <1>2, <1>3, <1>4 DEF SameFrames, Leaves, Grows
<1>6. Sound(g, v)
  BY <1>1, <1>2, <1>5, SameTallied DEF Sound
<1>7. QED
  BY <1>2, <1>6 DEF g, v

LEMMA HeldOn ==
  ASSUME NEW h, NEW w, NEW F, Held(h, w, F), NEW g, Leaves(h, g, F)
  PROVE  Held(g, w, F)
BY DEF Held, Leaves, Grows, Keeps

LEMMA GiveUpSound ==
  ASSUME NEW h, NEW w, Sound(h, w), NEW p, Value(h, p), NEW F, Held(h, w, F)
  PROVE  /\ Sound(GiveUp(h, p), w) /\ Leaves(h, GiveUp(h, p), F)
         /\ DOMAIN GiveUp(h, p) = DOMAIN h
<1> DEFINE g == Lend(h, p)
<1>1. w \in Ledger
  BY DEF Sound, Backed
<1>2. Sound(g, Plus(w, p)) /\ Leaves(h, g, DOMAIN h) /\ DOMAIN g = DOMAIN h
  BY LendSound
<1>3. Leaves(h, g, F)
  BY <1>2, LeavesFacts DEF Held
<1>4. Minus(Plus(w, p), p) = w
  BY <1>1, LedgerFacts
<1>5. Held(g, Minus(Plus(w, p), p), F)
  BY <1>3, <1>4, HeldOn
<1>6. Points(g, p) /\ Owed(g, Plus(w, p), p)
  BY <1>2, GrowsValue DEF Leaves, Value, Owed
<1> HIDE DEF g
<1>7. Sound(DecRef(g, p), w) /\ Leaves(g, DecRef(g, p), F) /\ DOMAIN DecRef(g, p) = DOMAIN g
  BY <1>2, <1>4, <1>5, <1>6, DecRefSound
<1>8. GiveUp(h, p) = DecRef(g, p)
  BY DEF GiveUp, g
<1>9. QED
  BY <1>2, <1>3, <1>7, <1>8, LeavesFacts

-----------------------------------------------------------------------------
(* New cells: the claims of their parts become theirs, and there is one more,
   to the new cell.                                                        *)
LEMMA PartPoints ==
  ASSUME NEW h, NEW c, PartsOK(h, c), NEW n \in DOMAIN c.part, NEW i, c.part[n] = Obj(i)
  PROVE  i \in DOMAIN h
<1>1. CASE c.kind = "EXEP" /\ n = 2
  BY <1>1, ObjFacts DEF PartsOK
<1>2. CASE ~(c.kind = "EXEP" /\ n = 2)
  BY <1>2, ObjFacts DEF PartsOK, Value, Points
<1>3. QED
  BY <1>1, <1>2

LEMMA PartsGrow ==
  ASSUME NEW h, NEW g, Grows(h, g), NEW c, PartsOK(h, c)
  PROVE  PartsOK(g, c)
<1>1. ASSUME NEW n \in DOMAIN c.part
      PROVE  IF c.kind = "EXEP" /\ n = 2
             THEN \E f \in DOMAIN g : c.part[n] = Obj(f) /\ g[f].kind = "FRAME"
             ELSE Value(g, c.part[n])
  <2>1. CASE c.kind = "EXEP" /\ n = 2
    BY <2>1 DEF PartsOK, Grows
  <2>2. CASE ~(c.kind = "EXEP" /\ n = 2)
    BY <2>2, GrowsValue DEF PartsOK
  <2>3. QED
    BY <2>1, <2>2
<1>2. QED
  BY <1>1 DEF PartsOK

(* How often an object is a part of a cell. *)
PartsAt(c, i) == {n \in DOMAIN c.part : c.part[n] = Obj(i)}

LEMMA NewBacked ==
  ASSUME NEW h, NEW w, Backed(h, w),
         NEW c, CellOK(c), PartsOK(h, c), ~c.free, c.count = 1, c.given = 0,
         NEW v \in Ledger, \A i \in Nat : v[i] + Cardinality(PartsAt(c, i)) = w[i]
  PROVE  /\ Backed(Append(h, c), Plus(v, Obj(Len(h) + 1)))
         /\ Leaves(h, Append(h, c), DOMAIN h)
         /\ DOMAIN Append(h, c) = (DOMAIN h) \cup {Len(h) + 1} /\ Len(h) + 1 \notin DOMAIN h
         /\ Append(h, c)[Len(h) + 1] = c
<1> DEFINE g == Append(h, c)
           L == Len(h) + 1
           u == Plus(v, Obj(L))
<1>1. /\ HeapOK(h) /\ w \in Ledger /\ DOMAIN h \subseteq Nat /\ IsSequence(h) /\ L \in Nat
      /\ IsFiniteSet(DOMAIN h)
  BY HeapFacts DEF Backed
<1>2. /\ IsSequence(g) /\ DOMAIN g = (DOMAIN h) \cup {L} /\ L \notin DOMAIN h
      /\ \A i \in DOMAIN h : g[i] = h[i]
      /\ g[L] = c
  BY <1>1, AppendFacts
<1>3. u \in Ledger /\ \A i \in Nat : u[i] = v[i] + IF i = L THEN 1 ELSE 0
  BY LedgerFacts, ObjFacts DEF Is
<1> HIDE DEF g, u, L
<1>4. Grows(h, g) /\ Leaves(h, g, DOMAIN h)
  BY <1>2 DEF Leaves, Grows, Keeps
<1>5. HeapOK(g)
  <2>1. \A i \in DOMAIN h : CellOK(h[i]) /\ PartsOK(h, h[i])
    BY <1>1, HeapFacts
  <2>2. \A i \in DOMAIN g : CellOK(g[i]) /\ PartsOK(g, g[i])
    BY <1>2, <1>4, <2>1, PartsGrow
  <2>3. QED
    BY <1>2, <2>2 DEF HeapOK
<1>6. ASSUME NEW i \in Nat
      PROVE  /\ Cardinality(Places(g, DOMAIN g, i)) =
                  Cardinality(Places(h, DOMAIN h, i)) + Cardinality(PartsAt(c, i))
             /\ Cardinality(PartsAt(c, i)) \in Nat
  <2> DEFINE A == Places(h, DOMAIN h, i)
             B == PartsAt(c, i)
             C == {L} \X B
  <2>1. DOMAIN c.part \subseteq 1 .. ArgsInFrame + 1
    BY WidthFacts DEF CellOK
  <2>2. IsFiniteSet(B) /\ Cardinality(B) \in Nat
    <3>1. IsFiniteSet(1 .. ArgsInFrame + 1)
      BY WidthFacts, FS_Interval
    <3>2. B \subseteq 1 .. ArgsInFrame + 1
      BY <2>1 DEF PartsAt
    <3>3. QED
      BY <3>1, <3>2, FS_Subset, FS_CardinalityType
  <2>3. IsFiniteSet(A) /\ Cardinality(A) \in Nat
    BY <1>1, PlacesFacts
  <2>4. Places(g, DOMAIN g, i) = A \cup C
    <3> DEFINE W == 1 .. ArgsInFrame + 1
               In(k, x) == x[2] \in DOMAIN k[x[1]].part /\ k[x[1]].part[x[2]] = Obj(i)
    <3>1. /\ Places(g, DOMAIN g, i) = {x \in ((DOMAIN h) \cup {L}) \X W : In(g, x)}
          /\ A = {x \in (DOMAIN h) \X W : In(h, x)}
      BY <1>2 DEF Places
    <3>2. \A x \in (DOMAIN h) \X W : In(g, x) <=> In(h, x)
      BY <1>2
    <3>3. \A x \in {L} \X W : In(g, x) <=> x[2] \in B
      BY <1>2 DEF PartsAt
    <3>4. B \subseteq W
      BY <2>1 DEF PartsAt
    <3>5. C = {x \in {L} \X W : x[2] \in B}
      <4> HIDE DEF B, W
      <4>1. QED
        BY <3>4
    <3>6. ((DOMAIN h) \cup {L}) \X W = ((DOMAIN h) \X W) \cup ({L} \X W)
      <4> HIDE DEF W
      <4>1. QED
        OBVIOUS
    <3> HIDE DEF W, In, A, B, C
    <3>7. QED
      BY <3>1, <3>2, <3>3, <3>5, <3>6
  <2>5. A \cap C = {}
    BY <1>2 DEF Places
  <2>6. IsFiniteSet({L}) /\ Cardinality({L}) = 1
    BY FS_Singleton
  <2> HIDE DEF A, B
  <2>7. IsFiniteSet(C) /\ Cardinality(C) = Cardinality(B)
    <3>1. IsFiniteSet(C) /\ Cardinality(C) = Cardinality({L}) * Cardinality(B)
      BY <2>2, <2>6, FS_Product
    <3>2. QED
      BY <2>2, <2>6, <3>1
  <2> HIDE DEF C
  <2>8. Cardinality(A \cup C) = Cardinality(A) + Cardinality(C)
    <3>1. Cardinality(A \cup C) = Cardinality(A) + Cardinality(C) - Cardinality(A \cap C)
      BY <2>3, <2>7, FS_Union
    <3>2. Cardinality(A \cap C) = 0
      BY <2>5, FS_EmptySet
    <3>3. QED
      BY <2>2, <2>3, <2>7, <3>1, <3>2
  <2>9. QED
    BY <2>2, <2>4, <2>7, <2>8 DEF A, B
<1>7. Cardinality(Places(h, DOMAIN h, L)) = 0 /\ Cardinality(PartsAt(c, L)) = 0
  <2>1. \A i \in DOMAIN h : PartsOK(h, h[i])
    BY <1>1, HeapFacts
  <2>2. Places(h, DOMAIN h, L) = {}
    <3>1. SUFFICES ASSUME NEW x \in Places(h, DOMAIN h, L) PROVE FALSE
      OBVIOUS
    <3>2. x[1] \in DOMAIN h /\ x[2] \in DOMAIN h[x[1]].part /\ h[x[1]].part[x[2]] = Obj(L)
      BY DEF Places
    <3>3. QED
      BY <1>2, <2>1, <3>2, PartPoints
  <2>3. PartsAt(c, L) = {}
    BY <1>2, PartPoints DEF PartsAt
  <2>4. QED
    BY <2>2, <2>3, FS_EmptySet
<1>8. ASSUME NEW i \in DOMAIN g
      PROVE  Cardinality(Places(g, DOMAIN g, i)) + u[i] <= g[i].count + g[i].given
  <2> DEFINE a == Cardinality(Places(h, DOMAIN h, i))
             b == Cardinality(PartsAt(c, i))
             m == Cardinality(Places(g, DOMAIN g, i))
  <2>1. i \in Nat
    BY <1>1, <1>2
  <2>2. m = a + b /\ b \in Nat /\ a \in Nat /\ v[i] + b = w[i] /\ v[i] \in Int /\ w[i] \in Int
    BY <1>1, <1>6, <2>1, PlacesFacts DEF Ledger
  <2>3. CASE i \in DOMAIN h
    <3>1. a + w[i] <= h[i].count + h[i].given
      BY <2>3 DEF Backed, Covered
    <3>2. h[i].count \in Nat /\ h[i].given \in Nat /\ g[i] = h[i] /\ u[i] = v[i]
      BY <1>1, <1>2, <1>3, <2>1, <2>2, <2>3, HeapFacts
    <3> HIDE DEF a, b, m
    <3>3. m + u[i] <= h[i].count + h[i].given
      BY <2>2, <3>1, <3>2
    <3>4. QED
      BY <3>2, <3>3 DEF m
  <2>4. CASE i = L
    <3>1. a = 0 /\ b = 0 /\ w[i] <= 0 /\ u[i] = v[i] + 1 /\ g[i].count = 1 /\ g[i].given = 0
      BY <1>2, <1>3, <1>7, <2>1, <2>4 DEF Backed
    <3> HIDE DEF a, b, m
    <3>2. m + u[i] <= 1
      BY <2>2, <3>1
    <3>3. QED
      BY <3>1, <3>2 DEF m
  <2>5. QED
    BY <1>2, <2>3, <2>4
<1>9. \A i \in Nat : i \notin DOMAIN g => u[i] = 0
  <2>1. SUFFICES ASSUME NEW i \in Nat, i \notin DOMAIN g PROVE u[i] = 0
    OBVIOUS
  <2>2. i # L /\ i \notin DOMAIN h
    BY <1>2, <2>1
  <2>3. u[i] = v[i] /\ w[i] = 0 /\ v[i] \in Int /\ w[i] \in Int
    BY <1>1, <1>3, <2>2 DEF Backed, Ledger
  <2>4. PartsAt(c, i) = {}
    BY <2>2, PartPoints DEF PartsAt
  <2>5. Cardinality(PartsAt(c, i)) = 0 /\ v[i] + Cardinality(PartsAt(c, i)) = w[i]
    BY <2>4, FS_EmptySet
  <2>6. QED
    BY <2>3, <2>5
<1>10. Backed(g, u)
  BY <1>3, <1>5, <1>8, <1>9 DEF Backed, Covered
<1>11. QED
  BY <1>2, <1>4, <1>10 DEF g, L, u

(* For an exception, which refers to a frame, the frames need not be told. *)
Provided(h, w, kind) == Backed(h, w) /\ (kind # "EXEP" => Tallied(h, w))

LEMMA NewSound ==
  ASSUME NEW h, NEW w, NEW c, Provided(h, w, c.kind),
         CellOK(c), PartsOK(h, c), ~c.free, c.count = 1, c.given = 0,
         NEW v \in Ledger, \A i \in Nat : v[i] + Cardinality(PartsAt(c, i)) = w[i]
  PROVE  /\ Sound(Append(h, c), Plus(v, Obj(Len(h) + 1)))
         /\ Leaves(h, Append(h, c), DOMAIN h)
         /\ DOMAIN Append(h, c) = (DOMAIN h) \cup {Len(h) + 1} /\ Len(h) + 1 \notin DOMAIN h
         /\ Append(h, c)[Len(h) + 1] = c
<1> DEFINE g == Append(h, c)
           L == Len(h) + 1
           u == Plus(v, Obj(L))
<1>1. /\ HeapOK(h) /\ w \in Ledger /\ DOMAIN h \subseteq Nat /\ IsSequence(h) /\ L \in Nat
      /\ Backed(h, w) /\ \A i \in Nat : i \notin DOMAIN h => w[i] = 0
  BY HeapFacts DEF Provided, Backed
<1>2. /\ Backed(g, u) /\ Leaves(h, g, DOMAIN h)
      /\ DOMAIN g = (DOMAIN h) \cup {L} /\ L \notin DOMAIN h /\ g[L] = c
  BY <1>1, NewBacked
<1>3. \A i \in DOMAIN h : g[i] = h[i]
  BY <1>1, AppendFacts
<1>4. \A i \in Nat : u[i] = v[i] + (IF i = L THEN 1 ELSE 0) /\ v[i] \in Int
  <2>1. \A i \in Nat : u[i] = v[i] + (IF i = L THEN 1 ELSE 0)
    BY LedgerFacts, ObjFacts DEF Is
  <2>2. \A i \in Nat : v[i] \in Int
    BY DEF Ledger
  <2>3. QED
    BY <2>1, <2>2
<1> HIDE DEF g, u, L
<1>5. ASSUME NoException(g), NEW i \in DOMAIN g
      PROVE  Told(g[i], u[i])
  <2>1. c.kind # "EXEP" /\ NoException(h)
    BY <1>2, <1>3, <1>5 DEF NoException
  <2>2. ASSUME NEW n \in DOMAIN c.part, c.part[n] = Obj(i)
        PROVE  i \in DOMAIN h /\ h[i].kind # "FRAME"
    BY <2>1, <2>2, ObjFacts DEF PartsOK, Value, Points
  <2>3. i \notin DOMAIN h \/ h[i].kind = "FRAME" => PartsAt(c, i) = {}
    BY <2>2 DEF PartsAt
  <2>4. i \notin DOMAIN h \/ h[i].kind = "FRAME" => v[i] = w[i]
    <3>1. PartsAt(c, i) = {} => Cardinality(PartsAt(c, i)) = 0
      BY FS_EmptySet
    <3>2. i \in Nat /\ v[i] + Cardinality(PartsAt(c, i)) = w[i] /\ v[i] \in Int
      BY <1>1, <1>2, <1>4
    <3>3. QED
      BY <2>3, <3>1, <3>2
  <2>5. CASE i \in DOMAIN h
    <3>1. Told(h[i], w[i])
      BY <2>1, <2>5 DEF Provided, Tallied
    <3>2. i # L /\ i \in Nat
      BY <1>1, <1>2, <2>5
    <3>3. u[i] = v[i]
      BY <1>4, <3>2
    <3>4. QED
      BY <1>3, <2>4, <2>5, <3>1, <3>3 DEF Told
  <2>6. CASE i = L
    <3>1. v[i] = 0
      BY <1>1, <1>2, <2>4, <2>6
    <3>2. u[i] = 1
      BY <1>1, <1>4, <2>6, <3>1
    <3>3. QED
      BY <1>2, <2>6, <3>2 DEF Told
  <2>7. QED
    BY <1>2, <2>5, <2>6
<1>6. Sound(g, u)
  BY <1>2, <1>5 DEF Sound, Tallied
<1>7. QED
  BY <1>2, <1>6 DEF g, L, u

(* A constructor has done its work: there is a new object, and a claim to it. *)
Made(h, w, r, F) ==
  /\ Sound(r.heap, Plus(w, r.ptr)) /\ Leaves(h, r.heap, F) /\ Value(r.heap, r.ptr)
(* The same, when nobody relies on the claim. *)
Got(h, w, r, F) ==
  /\ Sound(r.heap, w) /\ Leaves(h, r.heap, F) /\ Value(r.heap, r.ptr)

LEMMA MadeGot ==
  ASSUME NEW h, NEW w \in Ledger, NEW r, NEW F, Made(h, w, r, F)
  PROVE  Got(h, w, r, F)
BY NoMore DEF Made, Got

LEMMA NewCellFacts ==
  ASSUME NEW kind, NEW parts
  PROVE  LET c == NewCell(kind, parts)
         IN  /\ c.kind = kind /\ ~c.free /\ c.free \in BOOLEAN /\ c.count = 1 /\ c.given = 0 /\ c.part = parts
             /\ c.prev = 0 /\ c.depth = 0 /\ c.args = 0
BY DEF NewCell

Fits(parts, n) == parts = [i \in 1 .. n |-> parts[i]]

LEMMA NewCellOK ==
  ASSUME NEW kind, NEW parts, Fits(parts, Arity(kind))
  PROVE  CellOK(NewCell(kind, parts))
<1> DEFINE c == NewCell(kind, parts)
<1>1. /\ c.kind = kind /\ ~c.free /\ c.free \in BOOLEAN /\ c.count = 1 /\ c.given = 0 /\ c.part = parts
      /\ c.prev = 0 /\ c.depth = 0 /\ c.args = 0
  BY NewCellFacts
<1>2. c = [kind |-> c.kind, free |-> c.free, count |-> c.count, given |-> c.given,
           part |-> c.part, prev |-> c.prev, depth |-> c.depth, args |-> c.args]
  BY DEF NewCell
<1> HIDE DEF c
<1>3. c.part = [n \in 1 .. Arity(c.kind) |-> c.part[n]]
  BY <1>1 DEF Fits
<1>4. CellOK(c)
  BY <1>1, <1>2, <1>3 DEF CellOK
<1>5. QED
  BY <1>4 DEF c

(* Objects of two parts. *)
Pairs(kind) == kind \notin {"FRAME", "INTR", "REAL"}

LEMMA PairParts ==
  ASSUME NEW kind, Pairs(kind), NEW a, NEW b, NEW i
  PROVE  Cardinality(PartsAt(NewCell(kind, <<a, b>>), i)) = Is(a, i) + Is(b, i)
<1> DEFINE c == NewCell(kind, <<a, b>>)
<1>1. c.part = <<a, b>>
  BY NewCellFacts
<1> HIDE DEF c
<1>2. PartsAt(c, i) = {n \in {1, 2} : (n = 1 /\ a = Obj(i)) \/ (n = 2 /\ b = Obj(i))}
  BY <1>1 DEF PartsAt
<1>3. CASE a = Obj(i) /\ b = Obj(i)
  <2>1. PartsAt(c, i) = {1} \cup {2} /\ 2 \notin {1}
    BY <1>2, <1>3
  <2>2. IsFiniteSet({1}) /\ Cardinality({1}) = 1
    BY FS_Singleton
  <2>3. Cardinality({1} \cup {2}) = Cardinality({1}) + 1
    BY <2>1, <2>2, FS_AddElement
  <2>4. QED
    BY <1>3, <2>1, <2>2, <2>3 DEF Is, c
<1>4. CASE a = Obj(i) /\ b # Obj(i)
  <2>1. PartsAt(c, i) = {1}
    BY <1>2, <1>4
  <2>2. QED
    BY <1>4, <2>1, FS_Singleton DEF Is, c
<1>5. CASE a # Obj(i) /\ b = Obj(i)
  <2>1. PartsAt(c, i) = {2}
    BY <1>2, <1>5
  <2>2. Cardinality(PartsAt(c, i)) = 1
    BY <2>1, FS_Singleton
  <2>3. QED
    BY <1>5, <2>2 DEF Is, c
<1>6. CASE a # Obj(i) /\ b # Obj(i)
  <2>1. PartsAt(c, i) = {}
    BY <1>2, <1>6
  <2>2. QED
    BY <1>6, <2>1, FS_EmptySet DEF Is, c
<1>7. QED
  BY <1>3, <1>4, <1>5, <1>6 DEF c

LEMMA PairMade ==
  ASSUME NEW h, NEW w \in Ledger, NEW a, NEW b, NEW kind,
         Provided(h, Plus(Plus(w, a), b), kind), Pairs(kind), PartsOK(h, NewCell(kind, <<a, b>>))
  PROVE  /\ Made(h, w, New(h, NewCell(kind, <<a, b>>)), DOMAIN h)
         /\ DOMAIN New(h, NewCell(kind, <<a, b>>)).heap = (DOMAIN h) \cup {Len(h) + 1}
         /\ New(h, NewCell(kind, <<a, b>>)).ptr = Obj(Len(h) + 1)
         /\ Tag(New(h, NewCell(kind, <<a, b>>)).heap, Obj(Len(h) + 1)) = kind
<1> DEFINE c == NewCell(kind, <<a, b>>)
           g == Append(h, c)
           p == Obj(Len(h) + 1)
           W == Plus(Plus(w, a), b)
<1>1. CellOK(c) /\ ~c.free /\ c.free \in BOOLEAN /\ c.count = 1 /\ c.given = 0 /\ c.kind = kind
  <2>1. Arity(kind) = 2
    BY DEF Pairs, Arity
  <2>2. <<a, b>> = [n \in 1 .. 2 |-> <<a, b>>[n]]
    OBVIOUS
  <2>3. Fits(<<a, b>>, Arity(kind))
    BY <2>1, <2>2 DEF Fits
  <2>4. QED
    BY <2>3, NewCellFacts, NewCellOK
<1>2. \A i \in Nat : w[i] + Cardinality(PartsAt(c, i)) = W[i]
  <2>1. SUFFICES ASSUME NEW i \in Nat PROVE w[i] + Cardinality(PartsAt(c, i)) = W[i]
    OBVIOUS
  <2>2. Cardinality(PartsAt(c, i)) = Is(a, i) + Is(b, i)
    BY PairParts
  <2>3. W[i] = (w[i] + Is(a, i)) + Is(b, i)
    BY LedgerFacts
  <2>4. w[i] \in Int /\ Is(a, i) \in Int /\ Is(b, i) \in Int
    BY DEF Ledger, Is
  <2> HIDE DEF c, W
  <2>5. QED
    BY <2>2, <2>3, <2>4
<1> HIDE DEF W
<1>3. Provided(h, W, c.kind) /\ PartsOK(h, c)
  BY <1>1 DEF W
<1> HIDE DEF c
<1>4. /\ Sound(g, Plus(w, p)) /\ Leaves(h, g, DOMAIN h)
      /\ DOMAIN g = (DOMAIN h) \cup {Len(h) + 1}
      /\ g[Len(h) + 1] = c
  BY <1>1, <1>2, <1>3, NewSound
<1>5. New(h, c) = [heap |-> g, ptr |-> p]
  BY DEF New
<1>6. Value(g, p) /\ Tag(g, p) = kind
  <2>1. IsObj(p) /\ p[2] = Len(h) + 1
    BY ObjFacts
  <2> HIDE DEF g
  <2>2. QED
    BY <1>1, <1>4, <2>1 DEF Value, Points, Tag, Pairs
<1> HIDE DEF g, p
<1>7. Made(h, w, New(h, c), DOMAIN h)
  BY <1>4, <1>5, <1>6 DEF Made
<1>8. QED
  BY <1>4, <1>5, <1>6, <1>7 DEF c, p

(* Two values are the parts of anything that is no exception and no string. *)
LEMMA PairPartsOK ==
  ASSUME NEW h, NEW kind, Pairs(kind), NEW a, Value(h, a), NEW b,
         kind = "STRG" => ~IsObj(a), kind # "EXEP" => Value(h, b),
         kind = "EXEP" => \E f : b = Obj(f) /\ IsFrame(h, f)
  PROVE  PartsOK(h, NewCell(kind, <<a, b>>))
<1> DEFINE c == NewCell(kind, <<a, b>>)
<1>1. c.kind = kind /\ c.part = <<a, b>> /\ c.given = 0
  BY NewCellFacts
<1> HIDE DEF c
<1>2. DOMAIN c.part = {1, 2} /\ c.part[1] = a /\ c.part[2] = b
  BY <1>1
<1>3. PartsOK(h, c)
  BY <1>1, <1>2 DEF PartsOK, Pairs, IsFrame
<1>4. QED
  BY <1>3 DEF c

-----------------------------------------------------------------------------
(* Lists and strings. *)
LEMMA PartValue ==
  ASSUME NEW h, HeapOK(h), NEW p, Value(h, p), Tag(h, p) \in {"CONS", "STRG", "LAMBDA", "NLAMBDA"},
         NEW n \in {1, 2}
  PROVE  /\ Value(h, h[p[2]].part[n]) /\ p = Obj(p[2]) /\ p[2] \in DOMAIN h /\ ~h[p[2]].free
         /\ h[p[2]].kind = Tag(h, p)
         /\ Tag(h, p) = "STRG" => ~IsObj(h[p[2]].part[1])
<1> DEFINE c == h[p[2]]
<1>1. IsObj(p)
  BY DEF Tag, Value, Points, Atoms
<1>2. p = Obj(p[2]) /\ p[2] \in DOMAIN h /\ ~c.free /\ c.kind = Tag(h, p)
  BY <1>1 DEF Value, Points, Tag
<1>3. PartsOK(h, c) /\ DOMAIN c.part = 1 .. Arity(c.kind)
  BY <1>2, HeapFacts
<1> HIDE DEF c
<1>4. n \in DOMAIN c.part /\ ~(c.kind = "EXEP" /\ n = 2)
  BY <1>2, <1>3 DEF Arity
<1>5. Value(h, c.part[n])
  BY <1>3, <1>4 DEF PartsOK
<1>6. c.kind = "STRG" => ~IsObj(c.part[1])
  BY <1>2, <1>3 DEF PartsOK
<1>7. QED
  BY <1>2, <1>5, <1>6 DEF c

LEMMA CarCdrValue ==
  ASSUME NEW h, HeapOK(h), NEW p, Value(h, p)
  PROVE  Value(h, Car(h, p)) /\ Value(h, Cdr(h, p))
<1>1. Value(h, Nil)
  BY AtomValue, AtomsAre
<1>2. Value(h, Car(h, p))
  BY <1>1, PartValue DEF Car, IsCons
<1>3. Value(h, Cdr(h, p))
  BY <1>1, PartValue DEF Cdr
<1>4. QED
  BY <1>2, <1>3

Walk(h, p, kinds, N) ==
  CHOOSE walk : walk = [n \in 0 .. N |->
    IF n = 0 THEN [at |-> p, seen |-> <<>>]
    ELSE LET w == walk[n - 1]
         IN  IF Tag(h, w.at) \notin kinds THEN w
             ELSE [at |-> Cdr(h, w.at), seen |-> Append(w.seen, w.at)]]

LEMMA WalkFacts ==
  ASSUME NEW h, NEW p, NEW kinds, NEW N \in Nat
  PROVE  LET F == Walk(h, p, kinds, N)
         IN  F[0] = [at |-> p, seen |-> <<>>] /\ \A n \in 1 .. N : F[n] = IF Tag(h, F[n - 1].at) \notin kinds THEN F[n - 1]
              ELSE [at |-> Cdr(h, F[n - 1].at), seen |-> Append(F[n - 1].seen, F[n - 1].at)]
<1> DEFINE start == [at |-> p, seen |-> <<>>]
           step(s, n) == IF Tag(h, s.at) \notin kinds THEN s
              ELSE [at |-> Cdr(h, s.at), seen |-> Append(s.seen, s.at)]
           stage(f, n) == IF n = 0 THEN start ELSE step(f[n - 1], n)
           P == {m \in 0 .. N : \E f : f = [n \in 0 .. m |-> stage(f, n)]}
           F == Walk(h, p, kinds, N)
<1>1. (\E f : f = [n \in 0 .. N |-> stage(f, n)]) => F = [n \in 0 .. N |-> stage(F, n)]
  BY DEF Walk
<1> HIDE DEF step, F
<1>2. 0 \in P
  <2> DEFINE f == [n \in 0 .. 0 |-> start]
  <2>1. f = [n \in 0 .. 0 |-> stage(f, n)]
    OBVIOUS
  <2> HIDE DEF f, stage
  <2>2. QED
    BY <2>1
<1>3. ASSUME NEW m \in 1 .. N, m - 1 \in P
      PROVE  m \in P
  <2>1. PICK f : f = [n \in 0 .. m - 1 |-> stage(f, n)]
    BY <1>3
  <2> DEFINE e == [n \in 0 .. m |-> IF n = m THEN step(f[m - 1], m) ELSE f[n]]
  <2>2. ASSUME NEW n \in 0 .. m
        PROVE  e[n] = stage(e, n)
    <3>1. CASE n = m
      <4>1. n # 0 /\ n - 1 \in 0 .. m /\ n - 1 # m
        BY <3>1
      <4>2. e[n - 1] = f[n - 1] /\ e[n] = step(f[m - 1], m)
        BY <3>1, <4>1
      <4> HIDE DEF e
      <4>3. QED
        BY <3>1, <4>1, <4>2
    <3>2. CASE n # m
      <4>1. n \in 0 .. m - 1 /\ (n # 0 => n - 1 \in 0 .. m - 1 /\ n - 1 \in 0 .. m /\ n - 1 # m)
        BY <3>2
      <4>2. e[n] = f[n] /\ (n # 0 => e[n - 1] = f[n - 1])
        BY <3>2, <4>1
      <4>3. f[n] = stage(f, n)
        <5> HIDE DEF stage
        <5>1. QED
          BY <2>1, <4>1
      <4> HIDE DEF e
      <4>4. QED
        BY <4>2, <4>3
    <3>3. QED
      BY <3>1, <3>2
  <2>3. e = [n \in 0 .. m |-> e[n]]
    OBVIOUS
  <2> HIDE DEF e, stage
  <2>4. e = [n \in 0 .. m |-> stage(e, n)]
    BY <2>2, <2>3
  <2>5. QED
    BY <2>4
<1> HIDE DEF P
<1>4. N \in P
  <2>1. \A m \in 0 .. N : m \in P
    BY <1>2, <1>3, UpTo
  <2>2. QED
    BY <2>1
<1>5. F = [n \in 0 .. N |-> stage(F, n)]
  BY <1>1, <1>4 DEF P
<1>6. F[0] = start /\ \A n \in 1 .. N : F[n] = step(F[n - 1], n)
  BY <1>5
<1>7. QED
  BY <1>6 DEF F, step

(* A sequence of cells of these kinds. *)
Linked(h, s, kinds) ==
  IsSequence(s) /\ \A i \in DOMAIN s : Value(h, s[i]) /\ Tag(h, s[i]) \in kinds

LEMMA NoneOf == \A h, kinds : Linked(h, <<>>, kinds)
<1>1. <<>> = [i \in 1 .. 0 |-> <<>>[i]]
  OBVIOUS
<1> DEFINE e == <<>>
<1>2. e = [i \in 1 .. 0 |-> e[i]]
  BY <1>1
<1> HIDE DEF e
<1>3. IsSequence(e) /\ DOMAIN e = 1 .. 0
  BY <1>2, MadeSequence
<1>4. 1 .. 0 = {}
  OBVIOUS
<1>5. QED
  BY <1>3, <1>4 DEF Linked, e

LEMMA ChainFacts ==
  ASSUME NEW h, HeapOK(h), NEW p, Value(h, p), NEW kinds
  PROVE  Linked(h, Chain(h, p, kinds), kinds)
<1> DEFINE N == Len(h)
           W == Walk(h, p, kinds, N)
           Good(s) == Value(h, s.at) /\ Linked(h, s.seen, kinds)
           next(s) == [at |-> Cdr(h, s.at), seen |-> Append(s.seen, s.at)]
           P == {n \in 0 .. N : Good(W[n])}
<1>1. N \in Nat
  BY HeapFacts
<1>2. Chain(h, p, kinds) = W[N].seen
  BY DEF Chain, Walk
<1> HIDE DEF N
<1>3. /\ W[0] = [at |-> p, seen |-> <<>>]
      /\ \A n \in 1 .. N : W[n] = IF Tag(h, W[n - 1].at) \notin kinds THEN W[n - 1] ELSE next(W[n - 1])
  BY <1>1, WalkFacts
<1> HIDE DEF W
<1>4. ASSUME NEW s, Good(s), Tag(h, s.at) \in kinds
      PROVE  Good(next(s))
  <2> DEFINE t == Append(s.seen, s.at)
  <2>1. Value(h, Cdr(h, s.at))
    BY <1>4, CarCdrValue
  <2>2. /\ IsSequence(t) /\ DOMAIN t = (DOMAIN s.seen) \cup {Len(s.seen) + 1}
        /\ \A i \in DOMAIN s.seen : t[i] = s.seen[i]
        /\ t[Len(s.seen) + 1] = s.at
    BY <1>4, AppendFacts DEF Linked
  <2> HIDE DEF t
  <2>3. Linked(h, t, kinds)
    BY <1>4, <2>2 DEF Linked
  <2>4. QED
    BY <2>1, <2>3 DEF t
<1>5. 0 \in P
  <2>1. Good(W[0])
    BY <1>3, NoneOf
  <2>2. QED
    BY <1>1, <2>1
<1>6. ASSUME NEW n \in 1 .. N, n - 1 \in P
      PROVE  n \in P
  <2>1. Good(W[n - 1])
    BY <1>6
  <2>2. W[n] = IF Tag(h, W[n - 1].at) \notin kinds THEN W[n - 1] ELSE next(W[n - 1])
    BY <1>3
  <2> HIDE DEF Good, next
  <2>3. Good(W[n])
    BY <1>4, <2>1, <2>2
  <2>4. QED
    BY <2>3
<1> HIDE DEF P
<1>7. \A n \in 0 .. N : n \in P
  BY <1>1, <1>5, <1>6, UpTo
<1>8. QED
  BY <1>1, <1>2, <1>7 DEF P

(* A sequence of values. *)
ValuesIn(h, s) == IsSequence(s) /\ \A i \in DOMAIN s : Value(h, s[i])

LEMMA ItemsFacts ==
  ASSUME NEW h, HeapOK(h), NEW p, Value(h, p)
  PROVE  ValuesIn(h, Items(h, p))
<1> DEFINE s == Chain(h, p, {"CONS"})
           t == Items(h, p)
<1>1. IsSequence(s) /\ \A i \in DOMAIN s : Value(h, s[i])
  BY ChainFacts DEF Linked
<1>2. Len(s) \in Nat /\ DOMAIN s = 1 .. Len(s)
  BY <1>1, SequenceFacts
<1>3. t = [i \in DOMAIN s |-> Car(h, s[i])]
  BY DEF Items
<1> HIDE DEF s, t
<1>4. t = [i \in 1 .. Len(s) |-> t[i]]
  BY <1>2, <1>3
<1>5. IsSequence(t)
  BY <1>2, <1>4, MadeSequence
<1>6. \A i \in DOMAIN t : Value(h, t[i])
  BY <1>1, <1>3, CarCdrValue
<1>7. ValuesIn(h, t)
  BY <1>5, <1>6 DEF ValuesIn
<1>8. QED
  BY <1>7 DEF t

LEMMA ValuesGrow ==
  ASSUME NEW h, NEW g, Grows(h, g), NEW s, ValuesIn(h, s)
  PROVE  ValuesIn(g, s)
BY GrowsValue DEF ValuesIn

-----------------------------------------------------------------------------
(* The constructors. *)
LEMMA ThenMade ==
  ASSUME NEW h, NEW g, Leaves(h, g, DOMAIN h), NEW w, NEW r
  PROVE  /\ Made(g, w, r, DOMAIN g) => Made(h, w, r, DOMAIN h)
         /\ Got(g, w, r, DOMAIN g) => Got(h, w, r, DOMAIN h)
<1>1. DOMAIN h \subseteq DOMAIN g
  BY DEF Leaves, Grows
<1>2. Leaves(g, r.heap, DOMAIN g) => Leaves(h, r.heap, DOMAIN h)
  BY <1>1, LeavesFacts
<1>3. QED
  BY <1>2 DEF Made, Got

LEMMA SoundFacts ==
  ASSUME NEW h, NEW w, Sound(h, w)
  PROVE  /\ w \in Ledger /\ HeapOK(h) /\ DOMAIN h \subseteq Nat
         /\ \A kind : Provided(h, w, kind)
BY HeapFacts DEF Sound, Backed, Provided

(* Two parts that are counted: make_cons, make_lambda. *)
LEMMA CountedPair ==
  ASSUME NEW h, NEW w, Sound(h, w), NEW a, Value(h, a), NEW b, Value(h, b),
         NEW kind, Pairs(kind), kind \notin {"STRG", "EXEP"}
  PROVE  Made(h, w, New(IncRef(IncRef(h, a), b), NewCell(kind, <<a, b>>)), DOMAIN h)
<1> DEFINE g == IncRef(h, a)
           k == IncRef(g, b)
<1>1. w \in Ledger /\ Points(h, a)
  BY SoundFacts DEF Value
<1>2. Sound(g, Plus(w, a)) /\ Leaves(h, g, DOMAIN h) /\ DOMAIN g = DOMAIN h
  BY <1>1, IncRefSound
<1> HIDE DEF g
<1>3. Value(g, a) /\ Value(g, b) /\ Points(g, b)
  BY <1>2, GrowsValue DEF Leaves, Value
<1>4. Sound(k, Plus(Plus(w, a), b)) /\ Leaves(g, k, DOMAIN g) /\ DOMAIN k = DOMAIN g
  BY <1>2, <1>3, IncRefSound DEF k
<1> HIDE DEF k
<1>5. Value(k, a) /\ Value(k, b) /\ Leaves(h, k, DOMAIN h)
  BY <1>2, <1>3, <1>4, GrowsValue, LeavesFacts DEF Leaves
<1>6. PartsOK(k, NewCell(kind, <<a, b>>))
  BY <1>5, PairPartsOK
<1>7. Made(k, w, New(k, NewCell(kind, <<a, b>>)), DOMAIN k)
  BY <1>1, <1>4, <1>6, SoundFacts, PairMade
<1>8. Made(h, w, New(k, NewCell(kind, <<a, b>>)), DOMAIN h)
  BY <1>5, <1>7, ThenMade
<1>9. QED
  BY <1>8 DEF k, g

LEMMA MakeConsMade ==
  ASSUME NEW h, NEW w, Sound(h, w), NEW a, Value(h, a), NEW d, Value(h, d)
  PROVE  Made(h, w, MakeCons(h, a, d), DOMAIN h)
BY CountedPair DEF MakeCons, Pairs

LEMMA MakeExecutableMade ==
  ASSUME NEW h, NEW w, Sound(h, w), NEW a, Value(h, a), NEW b, Value(h, b),
         NEW kind \in {"LAMBDA", "NLAMBDA"}
  PROVE  Made(h, w, MakeExecutable(h, kind, a, b), DOMAIN h)
BY CountedPair DEF MakeExecutable, Pairs

(* A string takes its tail over. *)
LEMMA MakeStringMade ==
  ASSUME NEW h, NEW w \in Ledger, NEW tail, Sound(h, Plus(w, tail)), Value(h, tail),
         NEW char, Value(h, char), ~IsObj(char)
  PROVE  Made(h, w, MakeString(h, char, tail), DOMAIN h)
<1>1. Pairs("STRG") /\ PartsOK(h, NewCell("STRG", <<char, tail>>))
  BY PairPartsOK DEF Pairs
<1>2. Sound(h, Plus(Plus(w, char), tail))
  BY AtomLedger
<1>3. QED
  BY <1>1, <1>2, SoundFacts, PairMade DEF MakeString

LEMMA MakeExceptionMade ==
  ASSUME NEW h, NEW w \in Ledger, NEW message, Sound(h, Plus(w, message)), Value(h, message),
         NEW f, IsFrame(h, f)
  PROVE  Made(h, w, MakeException(h, message, f), DOMAIN h)
<1> DEFINE g == IncRef(h, Obj(f))
<1>1. Points(h, Obj(f))
  BY ObjFacts DEF Points, IsFrame
<1>2. /\ Provided(g, Plus(Plus(w, message), Obj(f)), "EXEP")
      /\ Leaves(h, g, DOMAIN h) /\ DOMAIN g = DOMAIN h
  BY <1>1, IncRefBacked DEF Sound, Provided
<1> HIDE DEF g
<1>3. Value(g, message) /\ IsFrame(g, f)
  BY <1>2, GrowsValue DEF Leaves, Grows, IsFrame
<1>4. Pairs("EXEP") /\ PartsOK(g, NewCell("EXEP", <<message, Obj(f)>>))
  BY <1>3, PairPartsOK DEF Pairs
<1>5. Made(g, w, New(g, NewCell("EXEP", <<message, Obj(f)>>)), DOMAIN g)
  BY <1>2, <1>4, PairMade
<1>6. QED
  BY <1>2, <1>5, ThenMade DEF MakeException, g

(* Every claim to a value can be given up for nothing. *)
LEMMA MadeFacts ==
  ASSUME NEW h, NEW w \in Ledger, NEW r, Made(h, w, r, DOMAIN h)
  PROVE  /\ Sound(r.heap, w) /\ Value(r.heap, r.ptr) /\ Leaves(h, r.heap, DOMAIN h)
         /\ Sound(r.heap, Plus(w, r.ptr)) /\ Got(h, w, r, DOMAIN h)
         /\ \A p : Value(h, p) => Value(r.heap, p)
BY MadeGot, GrowsValue DEF Made, Got, Leaves

LEMMA BindMade ==
  ASSUME NEW h, NEW w, Sound(h, w), NEW name, Value(h, name), NEW value, Value(h, value),
         NEW env, Value(h, env)
  PROVE  Made(h, w, Bind(h, name, value, env), DOMAIN h)
<1> DEFINE pair == MakeCons(h, name, value)
<1>1. Made(h, w, pair, DOMAIN h) /\ w \in Ledger
  BY MakeConsMade, SoundFacts
<1> HIDE DEF pair
<1>2. Sound(pair.heap, w) /\ Value(pair.heap, pair.ptr) /\ Value(pair.heap, env)
      /\ Leaves(h, pair.heap, DOMAIN h)
  BY <1>1, MadeFacts
<1>3. Made(pair.heap, w, MakeCons(pair.heap, pair.ptr, env), DOMAIN pair.heap)
  BY <1>2, MakeConsMade
<1>4. Made(h, w, MakeCons(pair.heap, pair.ptr, env), DOMAIN h)
  BY <1>2, <1>3, ThenMade
<1>5. QED
  BY <1>4 DEF Bind, pair

-----------------------------------------------------------------------------
(* Lists of many. *)
Conses(h, values, tail, N) ==
  CHOOSE run : run = [n \in 0 .. N |->
    IF n = 0 THEN [heap |-> h, ptr |-> tail]
    ELSE LET l == run[n - 1] IN MakeCons(l.heap, values[n], l.ptr)]

(* The next of the values onto what there is. *)
NextOnto(values, n, g, p) == MakeCons(g, values[n], p)

LEMMA ConsesFacts ==
  ASSUME NEW h, NEW values, NEW tail, NEW N \in Nat
  PROVE  LET F == Conses(h, values, tail, N)
         IN  F[0] = [heap |-> h, ptr |-> tail] /\ \A n \in 1 .. N : F[n] = NextOnto(values, n, F[n - 1].heap, F[n - 1].ptr)
<1> DEFINE start == [heap |-> h, ptr |-> tail]
           step(s, n) == NextOnto(values, n, s.heap, s.ptr)
           stage(f, n) == IF n = 0 THEN start ELSE step(f[n - 1], n)
           P == {m \in 0 .. N : \E f : f = [n \in 0 .. m |-> stage(f, n)]}
           F == Conses(h, values, tail, N)
<1>1. (\E f : f = [n \in 0 .. N |-> stage(f, n)]) => F = [n \in 0 .. N |-> stage(F, n)]
  BY DEF Conses, NextOnto
<1> HIDE DEF step, F
<1>2. 0 \in P
  <2> DEFINE f == [n \in 0 .. 0 |-> start]
  <2>1. f = [n \in 0 .. 0 |-> stage(f, n)]
    OBVIOUS
  <2> HIDE DEF f, stage
  <2>2. QED
    BY <2>1
<1>3. ASSUME NEW m \in 1 .. N, m - 1 \in P
      PROVE  m \in P
  <2>1. PICK f : f = [n \in 0 .. m - 1 |-> stage(f, n)]
    BY <1>3
  <2> DEFINE e == [n \in 0 .. m |-> IF n = m THEN step(f[m - 1], m) ELSE f[n]]
  <2>2. ASSUME NEW n \in 0 .. m
        PROVE  e[n] = stage(e, n)
    <3>1. CASE n = m
      <4>1. n # 0 /\ n - 1 \in 0 .. m /\ n - 1 # m
        BY <3>1
      <4>2. e[n - 1] = f[n - 1] /\ e[n] = step(f[m - 1], m)
        BY <3>1, <4>1
      <4> HIDE DEF e
      <4>3. QED
        BY <3>1, <4>1, <4>2
    <3>2. CASE n # m
      <4>1. n \in 0 .. m - 1 /\ (n # 0 => n - 1 \in 0 .. m - 1 /\ n - 1 \in 0 .. m /\ n - 1 # m)
        BY <3>2
      <4>2. e[n] = f[n] /\ (n # 0 => e[n - 1] = f[n - 1])
        BY <3>2, <4>1
      <4>3. f[n] = stage(f, n)
        <5> HIDE DEF stage
        <5>1. QED
          BY <2>1, <4>1
      <4> HIDE DEF e
      <4>4. QED
        BY <4>2, <4>3
    <3>3. QED
      BY <3>1, <3>2
  <2>3. e = [n \in 0 .. m |-> e[n]]
    OBVIOUS
  <2> HIDE DEF e, stage
  <2>4. e = [n \in 0 .. m |-> stage(e, n)]
    BY <2>2, <2>3
  <2>5. QED
    BY <2>4
<1> HIDE DEF P
<1>4. N \in P
  <2>1. \A m \in 0 .. N : m \in P
    BY <1>2, <1>3, UpTo
  <2>2. QED
    BY <2>1
<1>5. F = [n \in 0 .. N |-> stage(F, n)]
  BY <1>1, <1>4 DEF P
<1>6. F[0] = start /\ \A n \in 1 .. N : F[n] = step(F[n - 1], n)
  BY <1>5
<1>7. QED
  BY <1>6 DEF F, step

LEMMA NothingGot ==
  ASSUME NEW h, NEW w, Sound(h, w), NEW p, Value(h, p)
  PROVE  Got(h, w, [heap |-> h, ptr |-> p], DOMAIN h)
BY LeavesFacts DEF Got

LEMMA ConsAllGot ==
  ASSUME NEW h, NEW w, Sound(h, w), NEW values, ValuesIn(h, values), NEW tail, Value(h, tail)
  PROVE  Got(h, w, ConsAll(h, values, tail), DOMAIN h)
<1> DEFINE N == Len(values)
           R == Conses(h, values, tail, N)
           P == {n \in 0 .. N : Got(h, w, R[n], DOMAIN h)}
<1>1. N \in Nat /\ \A n \in 1 .. N : Value(h, values[n])
  BY SequenceFacts DEF ValuesIn
<1>2. ConsAll(h, values, tail) = R[N]
  BY DEF ConsAll, Conses
<1> HIDE DEF N
<1>3. /\ R[0] = [heap |-> h, ptr |-> tail]
      /\ \A n \in 1 .. N : R[n] = NextOnto(values, n, R[n - 1].heap, R[n - 1].ptr)
  BY <1>1, ConsesFacts
<1> HIDE DEF R
<1>4. 0 \in P
  BY <1>1, <1>3, NothingGot
<1>5. ASSUME NEW n \in 1 .. N, n - 1 \in P
      PROVE  n \in P
  <2> DEFINE l == R[n - 1]
             g == l.heap
  <2>1. Got(h, w, l, DOMAIN h) /\ R[n] = MakeCons(g, values[n], l.ptr)
    BY <1>3, <1>5 DEF NextOnto
  <2> HIDE DEF l
  <2>2. Sound(g, w) /\ Leaves(h, g, DOMAIN h) /\ Value(g, l.ptr) /\ Value(g, values[n])
    BY <1>1, <2>1, GrowsValue DEF Got, Leaves
  <2> HIDE DEF g
  <2>3. Got(g, w, R[n], DOMAIN g)
    BY <2>1, <2>2, MakeConsMade, MadeGot, SoundFacts
  <2>4. QED
    BY <2>2, <2>3, ThenMade
<1> HIDE DEF P
<1>6. \A n \in 0 .. N : n \in P
  BY <1>1, <1>4, <1>5, UpTo
<1>7. QED
  BY <1>1, <1>2, <1>6 DEF P

(* c_reverse: what comes next, onto what there is. *)
Onto(h, c, g, p) == IF IsCons(h, c) THEN MakeCons(g, h[c[2]].part[1], p)
                    ELSE MakeString(g, h[c[2]].part[1], p)
Reversed(h, cells, N) ==
  CHOOSE run : run = [n \in 0 .. N |->
    IF n = 0 THEN [heap |-> h, ptr |-> Nil]
    ELSE LET r    == run[n - 1]
             item == h[cells[n][2]].part[1]
         IN  IF IsCons(h, cells[n]) THEN MakeCons(r.heap, item, r.ptr)
             ELSE MakeString(r.heap, item, r.ptr)]

LEMMA ReversedFacts ==
  ASSUME NEW h, NEW cells, NEW N \in Nat
  PROVE  LET F == Reversed(h, cells, N)
         IN  F[0] = [heap |-> h, ptr |-> Nil] /\ \A n \in 1 .. N : F[n] = Onto(h, cells[n], F[n - 1].heap, F[n - 1].ptr)
<1> DEFINE start == [heap |-> h, ptr |-> Nil]
           step(s, n) == Onto(h, cells[n], s.heap, s.ptr)
           stage(f, n) == IF n = 0 THEN start ELSE step(f[n - 1], n)
           P == {m \in 0 .. N : \E f : f = [n \in 0 .. m |-> stage(f, n)]}
           F == Reversed(h, cells, N)
<1>1. (\E f : f = [n \in 0 .. N |-> stage(f, n)]) => F = [n \in 0 .. N |-> stage(F, n)]
  BY DEF Reversed, Onto
<1> HIDE DEF step, F
<1>2. 0 \in P
  <2> DEFINE f == [n \in 0 .. 0 |-> start]
  <2>1. f = [n \in 0 .. 0 |-> stage(f, n)]
    OBVIOUS
  <2> HIDE DEF f, stage
  <2>2. QED
    BY <2>1
<1>3. ASSUME NEW m \in 1 .. N, m - 1 \in P
      PROVE  m \in P
  <2>1. PICK f : f = [n \in 0 .. m - 1 |-> stage(f, n)]
    BY <1>3
  <2> DEFINE e == [n \in 0 .. m |-> IF n = m THEN step(f[m - 1], m) ELSE f[n]]
  <2>2. ASSUME NEW n \in 0 .. m
        PROVE  e[n] = stage(e, n)
    <3>1. CASE n = m
      <4>1. n # 0 /\ n - 1 \in 0 .. m /\ n - 1 # m
        BY <3>1
      <4>2. e[n - 1] = f[n - 1] /\ e[n] = step(f[m - 1], m)
        BY <3>1, <4>1
      <4> HIDE DEF e
      <4>3. QED
        BY <3>1, <4>1, <4>2
    <3>2. CASE n # m
      <4>1. n \in 0 .. m - 1 /\ (n # 0 => n - 1 \in 0 .. m - 1 /\ n - 1 \in 0 .. m /\ n - 1 # m)
        BY <3>2
      <4>2. e[n] = f[n] /\ (n # 0 => e[n - 1] = f[n - 1])
        BY <3>2, <4>1
      <4>3. f[n] = stage(f, n)
        <5> HIDE DEF stage
        <5>1. QED
          BY <2>1, <4>1
      <4> HIDE DEF e
      <4>4. QED
        BY <4>2, <4>3
    <3>3. QED
      BY <3>1, <3>2
  <2>3. e = [n \in 0 .. m |-> e[n]]
    OBVIOUS
  <2> HIDE DEF e, stage
  <2>4. e = [n \in 0 .. m |-> stage(e, n)]
    BY <2>2, <2>3
  <2>5. QED
    BY <2>4
<1> HIDE DEF P
<1>4. N \in P
  <2>1. \A m \in 0 .. N : m \in P
    BY <1>2, <1>3, UpTo
  <2>2. QED
    BY <2>1
<1>5. F = [n \in 0 .. N |-> stage(F, n)]
  BY <1>1, <1>4 DEF P
<1>6. F[0] = start /\ \A n \in 1 .. N : F[n] = step(F[n - 1], n)
  BY <1>5
<1>7. QED
  BY <1>6 DEF F, step

LEMMA ReverseGot ==
  ASSUME NEW h, NEW w, Sound(h, w), NEW p, Value(h, p)
  PROVE  Got(h, w, Reverse(h, p), DOMAIN h)
<1> DEFINE kinds == {"CONS", "STRG"}
           cells == Chain(h, p, kinds)
           N == Len(cells)
           R == Reversed(h, cells, N)
           P == {n \in 0 .. N : Made(h, w, R[n], DOMAIN h)}
<1>1. w \in Ledger /\ HeapOK(h)
  BY SoundFacts
<1>2. Linked(h, cells, kinds)
  BY <1>1, ChainFacts
<1>3. Reverse(h, p) = IF cells = <<>> THEN [heap |-> h, ptr |-> p] ELSE R[N]
  BY DEF Reverse, Reversed
<1> HIDE DEF cells
<1>4. N \in Nat /\ \A n \in 1 .. N : Value(h, cells[n]) /\ Tag(h, cells[n]) \in kinds
  BY <1>2, SequenceFacts DEF Linked
<1> HIDE DEF N
<1>5. /\ R[0] = [heap |-> h, ptr |-> Nil]
      /\ \A n \in 1 .. N : R[n] = Onto(h, cells[n], R[n - 1].heap, R[n - 1].ptr)
  BY <1>4, ReversedFacts
<1> HIDE DEF R
<1>6. 0 \in P
  <2>1. Plus(w, Nil) = w /\ Value(h, Nil)
    BY <1>1, AtomsAre, AtomValue, AtomLedger DEF IsAtom
  <2>2. Made(h, w, R[0], DOMAIN h)
    BY <1>5, <2>1, LeavesFacts DEF Made
  <2>3. QED
    BY <1>4, <2>2
<1>7. ASSUME NEW n \in 1 .. N, n - 1 \in P
      PROVE  n \in P
  <2> DEFINE l == R[n - 1]
             g == l.heap
             item == h[cells[n][2]].part[1]
  <2>1. Made(h, w, l, DOMAIN h) /\ R[n] = Onto(h, cells[n], g, l.ptr)
    BY <1>5, <1>7
  <2>2. Value(h, item) /\ (Tag(h, cells[n]) = "STRG" => ~IsObj(item))
    BY <1>1, <1>4, PartValue
  <2>3. Tag(h, cells[n]) \in kinds
    BY <1>4
  <2> HIDE DEF l
  <2>4. /\ Sound(g, w) /\ Sound(g, Plus(w, l.ptr)) /\ Leaves(h, g, DOMAIN h)
        /\ Value(g, l.ptr) /\ Value(g, item)
    BY <1>1, <2>1, <2>2, MadeFacts
  <2> HIDE DEF g
  <2>5. CASE IsCons(h, cells[n])
    <3>1. R[n] = MakeCons(g, item, l.ptr)
      BY <2>1, <2>5 DEF Onto
    <3> HIDE DEF item
    <3>2. Made(g, w, R[n], DOMAIN g)
      BY <2>4, <3>1, MakeConsMade
    <3>3. QED
      BY <2>4, <3>2, ThenMade
  <2>6. CASE ~IsCons(h, cells[n])
    <3>1. R[n] = MakeString(g, item, l.ptr) /\ ~IsObj(item)
      BY <2>1, <2>2, <2>3, <2>6 DEF Onto, IsCons
    <3> HIDE DEF item
    <3>2. Made(g, w, R[n], DOMAIN g)
      BY <1>1, <2>4, <3>1, MakeStringMade
    <3>3. QED
      BY <2>4, <3>2, ThenMade
  <2>7. QED
    BY <2>5, <2>6
<1> HIDE DEF P
<1>8. \A n \in 0 .. N : n \in P
  BY <1>4, <1>6, <1>7, UpTo
<1>9. Got(h, w, R[N], DOMAIN h)
  BY <1>1, <1>4, <1>8, MadeGot DEF P
<1>10. QED
  BY <1>3, <1>9, NothingGot

-----------------------------------------------------------------------------
(* Exceptions. *)
LEMMA ThrowWithCauseGot ==
  ASSUME NEW h, NEW w, Sound(h, w), NEW location, Value(h, location), NEW message,
         Value(h, message), NEW cause, Value(h, cause), NEW f, IsFrame(h, f)
  PROVE  Got(h, w, ThrowWithCause(h, location, message, cause, f), DOMAIN h)
<1> DEFINE nothing == [heap |-> h, ptr |-> Nil]
           why   == IF cause = Nil THEN nothing ELSE Bind(h, Key("cause"), cause, Nil)
           what  == Bind(why.heap, Key("payload"), message, why.ptr)
           where == Bind(what.heap, Key("location"), location, what.ptr)
           e     == MakeException(where.heap, where.ptr, f)
<1>1. /\ \A g : Value(g, Nil) /\ Value(g, Key("cause")) /\ Value(g, Key("payload"))
                /\ Value(g, Key("location"))
      /\ w \in Ledger
  BY AtomsAre, AtomValue, SoundFacts
<1>2. ThrowWithCause(h, location, message, cause, f) =
        IF IsException(h, message) THEN [heap |-> h, ptr |-> message] ELSE e
  BY DEF ThrowWithCause
<1>3. Got(h, w, why, DOMAIN h)
  BY <1>1, NothingGot, BindMade, MadeGot
<1> HIDE DEF why
<1>4. /\ Sound(why.heap, w) /\ Value(why.heap, why.ptr) /\ Leaves(h, why.heap, DOMAIN h)
      /\ Value(why.heap, message) /\ Value(why.heap, location)
  BY <1>3, GrowsValue DEF Got, Leaves
<1>5. Made(why.heap, w, what, DOMAIN why.heap)
  BY <1>1, <1>4, BindMade
<1> HIDE DEF what
<1>6. /\ Sound(what.heap, w) /\ Value(what.heap, what.ptr) /\ Leaves(h, what.heap, DOMAIN h)
      /\ Value(what.heap, location)
  BY <1>1, <1>4, <1>5, ThenMade, MadeFacts DEF Made
<1>7. Made(what.heap, w, where, DOMAIN what.heap)
  BY <1>1, <1>6, BindMade
<1> HIDE DEF where
<1>8. /\ Sound(where.heap, Plus(w, where.ptr)) /\ Value(where.heap, where.ptr)
      /\ Leaves(h, where.heap, DOMAIN h)
  BY <1>1, <1>6, <1>7, ThenMade, MadeFacts DEF Made
<1>9. IsFrame(where.heap, f)
  BY <1>8 DEF IsFrame, Leaves, Grows
<1>10. Made(where.heap, w, e, DOMAIN where.heap)
  BY <1>1, <1>8, <1>9, MakeExceptionMade
<1>11. Made(h, w, e, DOMAIN h)
  BY <1>8, <1>10, ThenMade
<1>12. QED
  BY <1>1, <1>2, <1>11, MadeGot, NothingGot

LEMMA ThrowGot ==
  ASSUME NEW h, NEW w, Sound(h, w), NEW location, Value(h, location), NEW message,
         Value(h, message), NEW f, IsFrame(h, f)
  PROVE  Got(h, w, Throw(h, location, message, f), DOMAIN h)
BY AtomsAre, AtomValue, ThrowWithCauseGot DEF Throw

-----------------------------------------------------------------------------
(* A part of an object is set, and the arguments of a frame. *)
Filled(c, r, p, a) ==
  [kind |-> c.kind, free |-> c.free, count |-> c.count, given |-> c.given,
   part |-> [c.part EXCEPT ![r] = p], prev |-> c.prev, depth |-> c.depth, args |-> a]
Written(h, g, f, r, p, a) == g = [h EXCEPT ![f] = Filled(h[f], r, p, a)]
(* Which part may be any value. *)
Writable(h, f, r) ==
  /\ f \in DOMAIN h /\ ~h[f].free /\ r \in DOMAIN h[f].part
  /\ ~(h[f].kind = "EXEP" /\ r = 2) /\ ~(h[f].kind = "STRG" /\ r = 1)

LEMMA FilledCell ==
  ASSUME NEW c, CellOK(c), ~c.free, NEW r \in DOMAIN c.part, NEW p, NEW a \in Nat
  PROVE  LET d == Filled(c, r, p, a)
         IN  /\ CellOK(d) /\ d.kind = c.kind /\ ~d.free /\ d.prev = c.prev /\ d.depth = c.depth
             /\ d.args = a /\ d.count = c.count /\ d.given = c.given
             /\ DOMAIN d.part = DOMAIN c.part /\ d.part[r] = p
             /\ \A n \in DOMAIN c.part : n # r => d.part[n] = c.part[n]
<1> DEFINE d == Filled(c, r, p, a)
           q == [c.part EXCEPT ![r] = p]
           N == Arity(c.kind)
<1>1. /\ c.part = [n \in 1 .. N |-> c.part[n]] /\ c.free \in BOOLEAN
      /\ {c.count, c.given, c.prev, c.depth} \subseteq Nat
  BY DEF CellOK
<1> HIDE DEF N
<1>2. DOMAIN q = 1 .. N /\ DOMAIN c.part = 1 .. N /\ q[r] = p
      /\ \A n \in DOMAIN c.part : n # r => q[n] = c.part[n]
  BY <1>1
<1>3. q = [n \in 1 .. N |-> q[n]]
  BY <1>2
<1>4. /\ d.kind = c.kind /\ d.free = c.free /\ d.prev = c.prev /\ d.depth = c.depth
      /\ d.args = a /\ d.count = c.count /\ d.given = c.given /\ d.part = q
      /\ d = [kind |-> d.kind, free |-> d.free, count |-> d.count, given |-> d.given,
              part |-> d.part, prev |-> d.prev, depth |-> d.depth, args |-> d.args]
  BY DEF Filled
<1> HIDE DEF d, q
<1>5. CellOK(d)
  BY <1>1, <1>3, <1>4 DEF CellOK, N
<1>6. QED
  BY <1>2, <1>4, <1>5 DEF d

LEMMA WrittenFacts ==
  ASSUME NEW h, HeapOK(h), NEW f \in DOMAIN h, NEW r, NEW p, NEW a, NEW g, Written(h, g, f, r, p, a)
  PROVE  /\ DOMAIN g = DOMAIN h /\ g[f] = Filled(h[f], r, p, a)
         /\ \A i \in DOMAIN h : i # f => g[i] = h[i]
<1>1. h = [i \in DOMAIN h |-> h[i]]
  BY HeapFacts DEF IsSequence
<1>2. QED
  BY <1>1 DEF Written

LEMMA WrittenOK ==
  ASSUME NEW h, HeapOK(h), NEW f, NEW r, Writable(h, f, r), NEW p, Value(h, p), NEW a \in Nat,
         NEW g, Written(h, g, f, r, p, a)
  PROVE  HeapOK(g) /\ Leaves(h, g, (DOMAIN h) \ {f})
<1> DEFINE d == Filled(h[f], r, p, a)
           c == h[f]
<1>1. /\ Len(h) \in Nat /\ DOMAIN h = 1 .. Len(h)
      /\ \A i \in DOMAIN h : CellOK(h[i]) /\ PartsOK(h, h[i])
      /\ h = [i \in 1 .. Len(h) |-> h[i]] /\ f \in DOMAIN h
      /\ ~c.free /\ r \in DOMAIN c.part
      /\ ~(c.kind = "EXEP" /\ r = 2) /\ ~(c.kind = "STRG" /\ r = 1)
  BY HeapFacts DEF IsSequence, Writable
<1>2. /\ CellOK(d) /\ d.kind = c.kind /\ ~d.free /\ d.given = c.given
      /\ DOMAIN d.part = DOMAIN c.part /\ d.part[r] = p
      /\ \A n \in DOMAIN c.part : n # r => d.part[n] = c.part[n]
  BY <1>1, FilledCell
<1> HIDE DEF d
<1>3. /\ DOMAIN g = 1 .. Len(h) /\ g[f] = d /\ \A i \in DOMAIN h : i # f => g[i] = h[i]
      /\ g = [i \in 1 .. Len(h) |-> g[i]]
  BY <1>1 DEF Written, d
<1>4. IsSequence(g)
  BY <1>1, <1>3, MadeSequence
<1>5. Grows(h, g)
  BY <1>1, <1>2, <1>3 DEF Grows
<1>6. /\ PartsOK(h, c) /\ ~c.free /\ r \in DOMAIN c.part
      /\ ~(c.kind = "EXEP" /\ r = 2) /\ ~(c.kind = "STRG" /\ r = 1)
  BY <1>1
<1>7. h[f].kind = "STRG" => 1 \in DOMAIN h[f].part
  BY <1>1, HeapFacts DEF Arity
<1>8. c.kind = "STRG" => 1 \in DOMAIN c.part
  BY <1>7
<1> HIDE DEF c
<1>9. PartsOK(h, d)
  <2>1. ASSUME NEW n \in DOMAIN d.part
        PROVE  IF d.kind = "EXEP" /\ n = 2
               THEN \E k \in DOMAIN h : d.part[n] = Obj(k) /\ h[k].kind = "FRAME"
               ELSE Value(h, d.part[n])
    <3>1. CASE n = r
      BY <1>2, <1>6, <3>1
    <3>2. CASE n # r
      BY <1>2, <1>6, <3>2 DEF PartsOK
    <3>3. QED
      BY <3>1, <3>2
  <2>2. (d.kind = "FRAME" => d.given = 0) /\ (d.kind = "STRG" /\ ~d.free => ~IsObj(d.part[1]))
    BY <1>2, <1>6, <1>8 DEF PartsOK
  <2>3. QED
    BY <2>1, <2>2 DEF PartsOK
<1>10. \A i \in DOMAIN g : CellOK(g[i]) /\ PartsOK(g, g[i])
  BY <1>1, <1>2, <1>3, <1>5, <1>9, PartsGrow
<1>11. HeapOK(g)
  BY <1>4, <1>10 DEF HeapOK
<1>12. Leaves(h, g, (DOMAIN h) \ {f})
  BY <1>1, <1>3, <1>5 DEF Leaves, Keeps
<1>13. QED
  BY <1>1, <1>3, <1>11, <1>12 DEF d

(* The claim of the part becomes the writer's, and the other way round. *)
LEMMA WriteBacked ==
  ASSUME NEW h, NEW w, Backed(h, w), NEW f, NEW r, Writable(h, f, r), NEW p, Value(h, p), NEW a \in Nat,
         NEW g, Written(h, g, f, r, p, a)
  PROVE  Backed(g, Minus(Plus(w, h[f].part[r]), p))
<1> DEFINE old == h[f].part[r]
           v == Minus(Plus(w, old), p)
           In(i) == Places(h, DOMAIN h, i)
           Out(i) == Places(g, DOMAIN g, i)
           x == <<f, r>>
<1>1. /\ w \in Ledger /\ HeapOK(h) /\ Covered(h, w)
      /\ \A i \in Nat : i \notin DOMAIN h => w[i] = 0
      /\ \A i \in DOMAIN h : h[i].count \in Nat /\ h[i].given \in Nat
      /\ DOMAIN h \subseteq Nat
      /\ f \in DOMAIN h /\ ~h[f].free /\ r \in DOMAIN h[f].part
  BY HeapFacts DEF Backed, Writable
<1>2. /\ HeapOK(g) /\ DOMAIN g = DOMAIN h /\ g[f] = Filled(h[f], r, p, a)
      /\ \A i \in DOMAIN h : i # f => g[i] = h[i]
  <2>1. HeapOK(g)
    BY <1>1, WrittenOK
  <2>2. HeapOK(h) /\ f \in DOMAIN h
    BY <1>1
  <2>3. DOMAIN g = DOMAIN h /\ g[f] = Filled(h[f], r, p, a)
    BY <2>2, WrittenFacts
  <2>4. \A i \in DOMAIN h : i # f => g[i] = h[i]
    BY <2>2, WrittenFacts
  <2>5. QED
    BY <2>1, <2>3, <2>4
<1>3. /\ g[f].count = h[f].count /\ g[f].given = h[f].given
      /\ DOMAIN g[f].part = DOMAIN h[f].part /\ g[f].part[r] = p
      /\ \A n \in DOMAIN h[f].part : n # r => g[f].part[n] = h[f].part[n]
  BY <1>1, <1>2, FilledCell, HeapFacts
<1>4. r \in 1 .. ArgsInFrame + 1
  BY <1>1, HeapFacts, WidthFacts
<1>5. ASSUME NEW i
      PROVE  /\ Out(i) \subseteq In(i) \cup {x} /\ In(i) \subseteq Out(i) \cup {x}
             /\ (x \in In(i) <=> old = Obj(i)) /\ (x \in Out(i) <=> p = Obj(i))
  <2>1. \A j \in DOMAIN h : j # f => g[j].part = h[j].part
    BY <1>2
  <2>2. \A j \in DOMAIN h : \A n : n \in DOMAIN g[j].part <=> n \in DOMAIN h[j].part
    BY <1>3, <2>1
  <2>3. \A j \in DOMAIN h : \A n \in DOMAIN h[j].part :
          ~(j = f /\ n = r) => g[j].part[n] = h[j].part[n]
    BY <1>3, <2>1
  <2>4. \A y \in (DOMAIN h) \X (1 .. ArgsInFrame + 1) :
          y # x => (y \in Out(i) <=> y \in In(i))
    BY <1>2, <2>2, <2>3 DEF Places
  <2>5. x \in (DOMAIN h) \X (1 .. ArgsInFrame + 1) /\ x[1] = f /\ x[2] = r
    BY <1>1, <1>4
  <2>6. (x \in In(i) <=> old = Obj(i)) /\ (x \in Out(i) <=> p = Obj(i))
    BY <1>1, <1>2, <1>3, <2>5 DEF Places
  <2>7. /\ Out(i) \subseteq (DOMAIN h) \X (1 .. ArgsInFrame + 1)
        /\ In(i) \subseteq (DOMAIN h) \X (1 .. ArgsInFrame + 1)
    BY <1>2 DEF Places
  <2> HIDE DEF In, Out, x
  <2>8. QED
    BY <2>4, <2>6, <2>7
<1>6. \A i : IsFiniteSet(In(i)) /\ IsFiniteSet(Out(i)) /\ Cardinality(In(i)) \in Nat
             /\ Cardinality(Out(i)) \in Nat
  BY <1>1, <1>2, PlacesFacts
<1>7. \A i \in DOMAIN h : Cardinality(In(i)) + w[i] <= h[i].count + h[i].given
  BY <1>1 DEF Covered
<1>8. /\ Plus(w, old) \in Ledger /\ v \in Ledger
      /\ \A i \in Nat : v[i] = w[i] + Is(old, i) - Is(p, i)
  <2> DEFINE u == Plus(w, old)
  <2>1. u \in Ledger /\ \A i \in Nat : u[i] = w[i] + Is(old, i)
    BY <1>1, LedgerFacts
  <2>2. v = Minus(u, p)
    OBVIOUS
  <2> HIDE DEF u, v
  <2>3. v \in Ledger /\ \A i \in Nat : v[i] = u[i] - Is(p, i)
    BY <2>1, <2>2, LedgerFacts
  <2>4. \A i \in Nat : v[i] = w[i] + Is(old, i) - Is(p, i)
    <3>1. \A i \in Nat : Is(old, i) \in {0, 1} /\ Is(p, i) \in {0, 1} /\ w[i] \in Int
      BY <1>1 DEF Is, Ledger
    <3> HIDE DEF old
    <3>2. QED
      BY <2>1, <2>3, <3>1
  <2>5. QED
    BY <2>1, <2>3, <2>4 DEF u
<1>9. \A i \in DOMAIN h : g[i].count = h[i].count /\ g[i].given = h[i].given
  BY <1>2, <1>3
<1>10. \A i \in Nat : i \notin DOMAIN h => old # Obj(i)
  BY <1>1, PartPoints, HeapFacts
<1> HIDE DEF In, Out, v, old, x
<1>11. \A i : Cardinality(Out(i)) + Is(old, i) <= Cardinality(In(i)) + Is(p, i)
  <2> TAKE i
  <2> DEFINE A == Out(i)
             B == In(i)
  <2>1. /\ A \subseteq B \cup {x} /\ B \subseteq A \cup {x}
        /\ (x \in B <=> old = Obj(i)) /\ (x \in A <=> p = Obj(i))
        /\ IsFiniteSet(A) /\ IsFiniteSet(B) /\ Cardinality(A) \in Nat /\ Cardinality(B) \in Nat
    BY <1>5, <1>6
  <2> HIDE DEF A, B
  <2>2. CASE x \in A /\ x \in B
    <3>1. A = B
      BY <2>1, <2>2
    <3>2. QED
      BY <2>1, <2>2, <3>1 DEF Is, A, B
  <2>3. CASE x \in A /\ x \notin B
    <3>1. A = B \cup {x}
      BY <2>1, <2>3
    <3>2. Cardinality(A) = Cardinality(B) + 1
      BY <2>1, <2>3, <3>1, FS_AddElement
    <3>3. QED
      BY <2>1, <2>3, <3>2 DEF Is, A, B
  <2>4. CASE x \notin A /\ x \in B
    <3>1. B = A \cup {x}
      BY <2>1, <2>4
    <3>2. Cardinality(B) = Cardinality(A) + 1
      BY <2>1, <2>4, <3>1, FS_AddElement
    <3>3. QED
      BY <2>1, <2>4, <3>2 DEF Is, A, B
  <2>5. CASE x \notin A /\ x \notin B
    <3>1. A = B
      BY <2>1, <2>5
    <3>2. QED
      BY <2>1, <2>5, <3>1 DEF Is, A, B
  <2>6. QED
    BY <2>2, <2>3, <2>4, <2>5
<1>12. \A i \in Nat : Is(old, i) \in {0, 1} /\ Is(p, i) \in {0, 1} /\ w[i] \in Int
                      /\ (i \notin DOMAIN h => Is(old, i) = 0)
  BY <1>1, <1>10 DEF Is, Ledger
<1>13. \A i \in DOMAIN h : Cardinality(Out(i)) + v[i] <= g[i].count + g[i].given
  <2> TAKE i \in DOMAIN h
  <2> DEFINE o == Cardinality(Out(i))
             n == Cardinality(In(i))
             a1 == Is(old, i)
             b1 == Is(p, i)
             c1 == h[i].count
             d1 == h[i].given
             w1 == w[i]
  <2>1. /\ o + a1 <= n + b1 /\ n + w1 <= c1 + d1 /\ v[i] = w1 + a1 - b1
        /\ o \in Nat /\ n \in Nat /\ a1 \in {0, 1} /\ b1 \in {0, 1} /\ w1 \in Int
        /\ c1 \in Nat /\ d1 \in Nat /\ g[i].count = c1 /\ g[i].given = d1
    BY <1>1, <1>6, <1>7, <1>8, <1>9, <1>11, <1>12
  <2> HIDE DEF o, n, a1, b1, c1, d1, w1
  <2>2. o + (w1 + a1 - b1) <= c1 + d1
    BY <2>1
  <2>3. QED
    BY <2>1, <2>2 DEF o
<1>14. Covered(g, v)
  BY <1>2, <1>13 DEF Covered, Out
<1>15. \A i \in Nat : i \notin DOMAIN h => Is(p, i) = 0
  BY ObjFacts DEF Value, Points, Is
<1>16. \A i \in Nat : i \notin DOMAIN g => v[i] = 0
  BY <1>1, <1>2, <1>8, <1>12, <1>15
<1>17. QED
  BY <1>2, <1>8, <1>14, <1>16 DEF Backed, v, old

LEMMA WriteSound ==
  ASSUME NEW h, NEW w, Sound(h, w), NEW f, NEW r, Writable(h, f, r), NEW p, Value(h, p), NEW a \in Nat,
         NEW g, Written(h, g, f, r, p, a)
  PROVE  Sound(g, Minus(Plus(w, h[f].part[r]), p))
<1> DEFINE old == h[f].part[r]
           u == Plus(w, old)
           v == Minus(u, p)
<1>1. /\ Backed(h, w) /\ Tallied(h, w) /\ w \in Ledger /\ HeapOK(h) /\ DOMAIN h \subseteq Nat
      /\ f \in DOMAIN h /\ ~h[f].free /\ r \in DOMAIN h[f].part
      /\ ~(h[f].kind = "EXEP" /\ r = 2)
  BY HeapFacts DEF Sound, Backed, Writable
<1>2. Backed(g, v)
  BY <1>1, WriteBacked
<1>3. /\ DOMAIN g = DOMAIN h /\ g[f] = Filled(h[f], r, p, a)
      /\ \A i \in DOMAIN h : i # f => g[i] = h[i]
  BY <1>1, WrittenFacts
<1>4. g[f].kind = h[f].kind /\ ~g[f].free /\ g[f].count = h[f].count
  BY <1>1, <1>3, FilledCell, HeapFacts
<1>5. Value(h, old)
  <2>1. PartsOK(h, h[f])
    BY <1>1, HeapFacts
  <2>2. QED
    BY <1>1, <2>1 DEF PartsOK
<1> HIDE DEF old
<1>6. u \in Ledger /\ \A i \in DOMAIN h : h[i].kind = "FRAME" => u[i] = w[i]
  BY <1>1, <1>5, NoFrame, LedgerFacts
<1> HIDE DEF u
<1>7. \A i \in DOMAIN h : h[i].kind = "FRAME" => v[i] = u[i]
  BY <1>1, <1>6, NoFrame
<1> HIDE DEF v
<1>8. SameFrames(h, g, v, w)
  BY <1>1, <1>3, <1>4, <1>6, <1>7 DEF SameFrames
<1>9. Sound(g, v)
  BY <1>1, <1>2, <1>8, SameTallied DEF Sound
<1>10. QED
  BY <1>9 DEF v, u, old

-----------------------------------------------------------------------------
(* How the code writes into frames, and into an exception. *)
RegSet(g, f, r, v) == [g EXCEPT ![f].part[r] = v, ![f].args = IF r - 1 = @ THEN r ELSE @]
MoreSet(g, f, r, v, n) == [g EXCEPT ![f].part[r] = v, ![f].args = @ + n]
PartSet(g, f, r, v) == [g EXCEPT ![f].part[r] = v]

LEMMA RegSetFacts ==
  ASSUME NEW g, NEW f \in DOMAIN g, CellOK(g[f]), NEW r, NEW v
  PROVE  RegSet(g, f, r, v) =
           [g EXCEPT ![f] = Filled(g[f], r, v, IF r - 1 = g[f].args THEN r ELSE g[f].args)]
<1> DEFINE c == g[f]
<1>1. c = [kind |-> c.kind, free |-> c.free, count |-> c.count, given |-> c.given,
          part |-> c.part, prev |-> c.prev, depth |-> c.depth, args |-> c.args]
  BY DEF CellOK
<1> DEFINE e(b) == [c EXCEPT !.part[r] = v, !.args = b]
           a == IF r - 1 = c.args THEN r ELSE c.args
<1> DEFINE filled == [c EXCEPT !.part[r] = v]
<1>2. \A b : e(b) = Filled(c, r, v, b)
  <2>1. filled = Filled(c, r, v, c.args)
    BY <1>1 DEF Filled
  <2>2. \A b : [Filled(c, r, v, c.args) EXCEPT !.args = b] = Filled(c, r, v, b)
    BY DEF Filled
  <2>3. \A b : e(b) = [filled EXCEPT !.args = b]
    OBVIOUS
  <2> HIDE DEF e, filled
  <2>4. QED
    BY <2>1, <2>2, <2>3
<1>3. RegSet(g, f, r, v) = [g EXCEPT ![f] = e(a)]
  BY DEF RegSet
<1>4. e(a) = Filled(c, r, v, a)
  <2> HIDE DEF e, a
  <2>1. QED
    BY <1>2
<1>5. QED
  BY <1>3, <1>4

LEMMA MoreSetFacts ==
  ASSUME NEW g, NEW f \in DOMAIN g, CellOK(g[f]), NEW r, NEW v, NEW n
  PROVE  MoreSet(g, f, r, v, n) = [g EXCEPT ![f] = Filled(g[f], r, v, g[f].args + n)]
<1> DEFINE c == g[f]
<1>1. c = [kind |-> c.kind, free |-> c.free, count |-> c.count, given |-> c.given,
          part |-> c.part, prev |-> c.prev, depth |-> c.depth, args |-> c.args]
  BY DEF CellOK
<1> DEFINE e(b) == [c EXCEPT !.part[r] = v, !.args = b]
           a == c.args + n
<1> DEFINE filled == [c EXCEPT !.part[r] = v]
<1>2. \A b : e(b) = Filled(c, r, v, b)
  <2>1. filled = Filled(c, r, v, c.args)
    BY <1>1 DEF Filled
  <2>2. \A b : [Filled(c, r, v, c.args) EXCEPT !.args = b] = Filled(c, r, v, b)
    BY DEF Filled
  <2>3. \A b : e(b) = [filled EXCEPT !.args = b]
    OBVIOUS
  <2> HIDE DEF e, filled
  <2>4. QED
    BY <2>1, <2>2, <2>3
<1>3. MoreSet(g, f, r, v, n) = [g EXCEPT ![f] = e(a)]
  BY DEF MoreSet
<1>4. e(a) = Filled(c, r, v, a)
  <2> HIDE DEF e, a
  <2>1. QED
    BY <1>2
<1>5. QED
  BY <1>3, <1>4

LEMMA PartSetFacts ==
  ASSUME NEW g, NEW f \in DOMAIN g, CellOK(g[f]), NEW r, NEW v
  PROVE  PartSet(g, f, r, v) = [g EXCEPT ![f] = Filled(g[f], r, v, g[f].args)]
<1> DEFINE c == g[f]
<1>1. c = [kind |-> c.kind, free |-> c.free, count |-> c.count, given |-> c.given,
          part |-> c.part, prev |-> c.prev, depth |-> c.depth, args |-> c.args]
  BY DEF CellOK
<1> DEFINE d == [c EXCEPT !.part[r] = v]
<1>2. d = Filled(c, r, v, c.args)
  BY <1>1 DEF Filled
<1>3. PartSet(g, f, r, v) = [g EXCEPT ![f] = d]
  BY DEF PartSet
<1>4. QED
  BY <1>2, <1>3

(* A value is not a frame that somebody has. *)
LEMMA HeldValue ==
  ASSUME NEW h, NEW w \in Ledger, NEW F, F \subseteq Nat, Held(h, w, F), NEW p, Value(h, p)
  PROVE  Held(h, Minus(w, p), F) /\ Held(h, Plus(w, p), F)
<1>1. \A i \in F : Is(p, i) = 0
  BY ObjFacts DEF Held, Value, Is
<1>2. \A i \in F : w[i] \in Int /\ i \in Nat
  BY DEF Ledger
<1>3. \A i \in F : Minus(w, p)[i] = w[i] /\ Plus(w, p)[i] = w[i]
  BY <1>1, <1>2, LedgerFacts
<1>4. QED
  BY <1>3 DEF Held

LEMMA HeldFacts ==
  ASSUME NEW h, NEW w, Sound(h, w), NEW F, Held(h, w, F)
  PROVE  /\ F \subseteq DOMAIN h /\ F \subseteq Nat
         /\ \A f \in F : /\ f \in DOMAIN h /\ h[f].kind = "FRAME" /\ ~h[f].free /\ IsFrame(h, f)
                         /\ DOMAIN h[f].part = 1 .. ArgsInFrame + 1
                         /\ h[f].args \in Nat /\ h[f].depth \in Nat /\ h[f].prev \in Nat
                         /\ \A r \in 1 .. ArgsInFrame + 1 :
                              Value(h, h[f].part[r]) /\ Writable(h, f, r)
<1>1. F \subseteq DOMAIN h /\ DOMAIN h \subseteq Nat /\ HeapOK(h)
  BY SoundFacts DEF Held
<1>2. ASSUME NEW f \in F
      PROVE  /\ f \in DOMAIN h /\ h[f].kind = "FRAME" /\ ~h[f].free /\ IsFrame(h, f)
             /\ DOMAIN h[f].part = 1 .. ArgsInFrame + 1
             /\ h[f].args \in Nat /\ h[f].depth \in Nat /\ h[f].prev \in Nat
             /\ \A r \in 1 .. ArgsInFrame + 1 : Value(h, h[f].part[r]) /\ Writable(h, f, r)
  <2>1. f \in DOMAIN h /\ h[f].kind = "FRAME" /\ ~h[f].free
    BY <1>2 DEF Held
  <2>2. /\ PartsOK(h, h[f]) /\ DOMAIN h[f].part = 1 .. Arity(h[f].kind)
        /\ h[f].args \in Nat /\ h[f].depth \in Nat /\ h[f].prev \in Nat
    BY <1>1, <2>1, HeapFacts
  <2>3. DOMAIN h[f].part = 1 .. ArgsInFrame + 1
    BY <2>1, <2>2 DEF Arity
  <2>4. ASSUME NEW r \in 1 .. ArgsInFrame + 1
        PROVE  Value(h, h[f].part[r]) /\ Writable(h, f, r)
    BY <2>1, <2>2, <2>3 DEF PartsOK, Writable
  <2>5. QED
    BY <2>1, <2>2, <2>3, <2>4 DEF IsFrame
<1>3. QED
  BY <1>1, <1>2

(* What a write into a frame keeps, but for the frame's arguments. *)
Rewrites(h, k, w, F, f, a) ==
  /\ Sound(k, w) /\ Leaves(h, k, F \ {f}) /\ Held(k, w, F) /\ DOMAIN k = DOMAIN h
  /\ k[f].prev = h[f].prev /\ k[f].depth = h[f].depth /\ k[f].args = a

(* The value that is written has no claim yet; then it gets one. *)
LEMMA RewriteSound ==
  ASSUME NEW h, NEW w, Sound(h, w), NEW F, Held(h, w, F), NEW f \in F,
         NEW r \in 1 .. ArgsInFrame + 1, NEW v, Value(h, v), NEW a \in Nat,
         NEW g, Written(h, g, f, r, v, a)
  PROVE  Rewrites(h, IncRef(g, v), Plus(w, h[f].part[r]), F, f, a)
<1> DEFINE old == h[f].part[r]
           u == Plus(w, old)
           k == IncRef(g, v)
<1>1. /\ w \in Ledger /\ HeapOK(h) /\ F \subseteq DOMAIN h /\ F \subseteq Nat
      /\ f \in DOMAIN h /\ Value(h, old) /\ Writable(h, f, r) /\ h[f].kind = "FRAME"
      /\ ~h[f].free /\ r \in DOMAIN h[f].part
  BY SoundFacts, HeldFacts DEF Writable
<1>2. Sound(g, Minus(u, v))
  BY <1>1, WriteSound
<1>3. /\ Leaves(h, g, (DOMAIN h) \ {f}) /\ DOMAIN g = DOMAIN h /\ g[f] = Filled(h[f], r, v, a)
  BY <1>1, WrittenOK, WrittenFacts
<1>4. /\ g[f].prev = h[f].prev /\ g[f].depth = h[f].depth /\ g[f].args = a
      /\ g[f].kind = "FRAME" /\ ~g[f].free
  BY <1>1, <1>3, FilledCell, HeapFacts
<1>5. Value(g, v) /\ Points(g, v)
  BY <1>3, GrowsValue DEF Leaves, Value
<1>6. u \in Ledger /\ Held(h, u, F)
  BY <1>1, HeldValue, LedgerFacts
<1> HIDE DEF u, old
<1>7. Plus(Minus(u, v), v) = u
  BY <1>6, LedgerFacts
<1>8. Sound(k, u) /\ Leaves(g, k, DOMAIN g) /\ DOMAIN k = DOMAIN g
  BY <1>2, <1>5, <1>7, IncRefSound
<1> HIDE DEF k
<1>9. /\ k[f].prev = h[f].prev /\ k[f].depth = h[f].depth /\ k[f].args = a
      /\ k[f].kind = "FRAME" /\ ~k[f].free
  BY <1>1, <1>3, <1>4, <1>8 DEF Leaves, Keeps
<1>10. Leaves(h, k, F \ {f})
  <2>1. F \ {f} \subseteq (DOMAIN h) \ {f} /\ F \ {f} \subseteq DOMAIN g
    BY <1>1, <1>3
  <2>2. Leaves(h, g, F \ {f}) /\ Leaves(g, k, F \ {f})
    BY <1>3, <1>8, <2>1, LeavesFacts
  <2>3. QED
    BY <2>2, LeavesFacts
<1>11. Held(k, u, F)
  <2>1. \A i \in F : i \in DOMAIN h /\ h[i].kind = "FRAME" /\ ~h[i].free /\ u[i] > 0
    BY <1>6 DEF Held
  <2>2. \A i \in F : i # f => k[i].kind = "FRAME" /\ ~k[i].free
    BY <1>10, <2>1 DEF Leaves, Keeps
  <2>3. QED
    BY <1>3, <1>8, <1>9, <2>1, <2>2 DEF Held
<1>12. QED
  BY <1>3, <1>8, <1>9, <1>10, <1>11 DEF Rewrites, u, old, k

(* set_reg. *)
LEMMA SetRegSound ==
  ASSUME NEW h, NEW w, Sound(h, w), NEW F, Held(h, w, F), NEW f \in F,
         NEW r \in 1 .. ArgsInFrame + 1, NEW v, Value(h, v)
  PROVE  Rewrites(h, SetReg(h, f, r, v), w, F, f, IF r - 1 = h[f].args THEN r ELSE h[f].args)
<1> DEFINE old == h[f].part[r]
           u == Minus(w, old)
           g == DecRef(h, old)
           a == IF r - 1 = h[f].args THEN r ELSE h[f].args
           k == RegSet(g, f, r, v)
<1>1. /\ w \in Ledger /\ HeapOK(h) /\ F \subseteq DOMAIN h /\ F \subseteq Nat
      /\ f \in DOMAIN h /\ Value(h, old) /\ Points(h, old) /\ h[f].args \in Nat
  BY SoundFacts, HeldFacts DEF Value
<1>2. Held(h, u, F) /\ u \in Ledger /\ Plus(u, old) = w
  BY <1>1, HeldValue, LedgerFacts
<1> HIDE DEF u
<1>3. Sound(g, u) /\ Leaves(h, g, F) /\ DOMAIN g = DOMAIN h
  BY <1>1, <1>2, DecRefSound DEF u, Owed
<1> HIDE DEF g
<1>4. Held(g, u, F) /\ Value(g, v) /\ Keeps(h[f], g[f]) /\ f \in DOMAIN g /\ HeapOK(g)
  BY <1>1, <1>2, <1>3, HeldOn, GrowsValue, SoundFacts DEF Leaves
<1>5. /\ g[f].args = h[f].args /\ g[f].part[r] = old /\ g[f].prev = h[f].prev
      /\ g[f].depth = h[f].depth
  BY <1>4 DEF Keeps
<1>6. a \in Nat
  BY <1>1
<1>7. Written(g, k, f, r, v, a)
  BY <1>4, <1>5, RegSetFacts, HeapFacts DEF Written
<1>8. SetReg(h, f, r, v) = IncRef(k, v)
  BY DEF SetReg, Reg, RegSet, g
<1> HIDE DEF a, k, old
<1>9. Rewrites(g, IncRef(k, v), Plus(u, g[f].part[r]), F, f, a)
  BY <1>3, <1>4, <1>6, <1>7, RewriteSound
<1>10. Rewrites(g, IncRef(k, v), w, F, f, a)
  BY <1>2, <1>5, <1>9
<1> DEFINE z == IncRef(k, v)
<1>11. /\ Sound(z, w) /\ Leaves(g, z, F \ {f}) /\ Held(z, w, F) /\ DOMAIN z = DOMAIN g
       /\ z[f].prev = g[f].prev /\ z[f].depth = g[f].depth /\ z[f].args = a
  BY <1>10 DEF Rewrites
<1> HIDE DEF z
<1>12. Leaves(h, z, F \ {f})
  BY <1>3, <1>11, LeavesFacts
<1>13. Rewrites(h, z, w, F, f, a)
  BY <1>3, <1>5, <1>11, <1>12 DEF Rewrites
<1>14. QED
  BY <1>8, <1>13 DEF z, a

(* `more' of a frame that has its registers. *)
LEMMA SetMoreSound ==
  ASSUME NEW h, NEW w, Sound(h, w), NEW F, Held(h, w, F), NEW f \in F,
         NEW v, Value(h, v), NEW n \in Nat
  PROVE  Rewrites(h, IncRef(MoreSet(h, f, ArgsInFrame + 1, v, n), v), w, F, f, h[f].args + n)
<1> DEFINE r == ArgsInFrame + 1
           a == h[f].args + n
           g == MoreSet(h, f, r, v, n)
           k == IncRef(g, v)
           old == h[f].part[r]
<1>1. /\ w \in Ledger /\ HeapOK(h) /\ F \subseteq Nat /\ f \in DOMAIN h /\ h[f].args \in Nat
      /\ CellOK(h[f])
  BY SoundFacts, HeldFacts, HeapFacts
<1>2. r \in 1 .. ArgsInFrame + 1 /\ a \in Nat
  BY <1>1, WidthFacts
<1> HIDE DEF r
<1>3. Written(h, g, f, r, v, a)
  BY <1>1, MoreSetFacts DEF Written
<1> HIDE DEF a, g
<1>4. Rewrites(h, k, Plus(w, old), F, f, a)
  BY <1>2, <1>3, RewriteSound
<1>5. Value(h, old) /\ F \subseteq DOMAIN h
  BY <1>2, HeldFacts
<1> HIDE DEF k, old
<1>6. Value(k, old)
  <2>1. Sound(k, Plus(w, old)) /\ DOMAIN k = DOMAIN h /\ Leaves(h, k, F \ {f})
    BY <1>4 DEF Rewrites
  <2>2. QED
    BY <1>5, <2>1, GrowsValue DEF Leaves
<1>7. Sound(k, w)
  BY <1>1, <1>4, <1>6, NoMore DEF Rewrites
<1>8. Held(k, w, F)
  BY <1>4 DEF Rewrites, Held
<1>9. QED
  BY <1>4, <1>7, <1>8 DEF Rewrites, k, g, r, a

-----------------------------------------------------------------------------
(* Frames, and what is in them. *)
LEMMA FrameCellFacts ==
  ASSUME NEW f \in Nat, NEW depth \in Nat
  PROVE  LET c == FrameCell(f, depth)
         IN  /\ CellOK(c) /\ c.kind = "FRAME" /\ ~c.free /\ c.count = 1 /\ c.given = 0
             /\ c.prev = f /\ c.depth = depth /\ c.args = 0
             /\ DOMAIN c.part = 1 .. ArgsInFrame + 1
             /\ \A n \in 1 .. ArgsInFrame + 1 : c.part[n] = Nil
<1> DEFINE q == [r \in 1 .. ArgsInFrame + 1 |-> Nil]
           c == FrameCell(f, depth)
           k == NewCell("FRAME", q)
<1>1. c = [kind |-> k.kind, free |-> k.free, count |-> k.count, given |-> k.given, part |-> k.part,
           prev |-> f, depth |-> depth, args |-> k.args]
  <2> DEFINE e == [k EXCEPT !.prev = f]
  <2>1. c = [e EXCEPT !.depth = depth]
    BY DEF FrameCell
  <2>2. k = [kind |-> k.kind, free |-> k.free, count |-> k.count, given |-> k.given,
             part |-> k.part, prev |-> k.prev, depth |-> k.depth, args |-> k.args]
    BY DEF NewCell
  <2> HIDE DEF k, c, q
  <2>3. e = [kind |-> k.kind, free |-> k.free, count |-> k.count, given |-> k.given,
             part |-> k.part, prev |-> f, depth |-> k.depth, args |-> k.args]
    BY <2>2
  <2> HIDE DEF e
  <2>4. QED
    BY <2>1, <2>3
<1>2. /\ k.kind = "FRAME" /\ ~k.free /\ k.free \in BOOLEAN /\ k.count = 1 /\ k.given = 0
      /\ k.args = 0 /\ k.part = q
  BY NewCellFacts
<1>3. DOMAIN q = 1 .. ArgsInFrame + 1 /\ q = [n \in 1 .. Arity("FRAME") |-> q[n]]
      /\ \A n \in 1 .. ArgsInFrame + 1 : q[n] = Nil
  BY DEF Arity
<1> HIDE DEF c, q, k
<1>4. /\ c.kind = "FRAME" /\ ~c.free /\ c.free \in BOOLEAN /\ c.count = 1 /\ c.given = 0
      /\ c.prev = f /\ c.depth = depth /\ c.args = 0 /\ c.part = q
      /\ c = [kind |-> c.kind, free |-> c.free, count |-> c.count, given |-> c.given,
              part |-> c.part, prev |-> c.prev, depth |-> c.depth, args |-> c.args]
  BY <1>1, <1>2
<1>5. {c.count, c.given, c.prev, c.depth, c.args} \subseteq Nat
  BY <1>4
<1>6. c.part = [n \in 1 .. Arity(c.kind) |-> c.part[n]]
  BY <1>3, <1>4
<1>7. CellOK(c)
  BY <1>4, <1>5, <1>6 DEF CellOK
<1>8. QED
  BY <1>3, <1>4, <1>7 DEF c

(* make_empty_frame: nothing is in it, and its maker has the claim. *)
IsNew(c, f, depth) ==
  c.kind = "FRAME" /\ ~c.free /\ c.prev = f /\ c.depth = depth /\ c.args = 0
Framed(h, w, g, n, f, depth) ==
  /\ Sound(g, Plus(w, Obj(n))) /\ Leaves(h, g, DOMAIN h)
  /\ DOMAIN g = (DOMAIN h) \cup {n} /\ n \notin DOMAIN h
  /\ IsNew(g[n], f, depth)

LEMMA FrameSound ==
  ASSUME NEW h, NEW w, Sound(h, w), NEW f, f \in Nat, NEW depth, depth \in Nat
  PROVE  Framed(h, w, Append(h, FrameCell(f, depth)), Len(h) + 1, f, depth)
<1> DEFINE c == FrameCell(f, depth)
<1>1. /\ CellOK(c) /\ c.kind = "FRAME" /\ ~c.free /\ c.count = 1 /\ c.given = 0
      /\ c.prev = f /\ c.depth = depth /\ c.args = 0
      /\ DOMAIN c.part = 1 .. ArgsInFrame + 1
      /\ \A n \in 1 .. ArgsInFrame + 1 : c.part[n] = Nil
  BY FrameCellFacts
<1> HIDE DEF c
<1>2. w \in Ledger /\ ~IsObj(Nil) /\ Value(h, Nil)
  BY SoundFacts, AtomsAre, AtomValue DEF IsAtom
<1>3. PartsOK(h, c)
  BY <1>1, <1>2 DEF PartsOK
<1>4. ASSUME NEW i \in Nat
      PROVE  w[i] + Cardinality(PartsAt(c, i)) = w[i]
  <2>1. Nil # Obj(i)
    BY <1>2, ObjFacts
  <2>2. PartsAt(c, i) = {}
    BY <1>1, <2>1 DEF PartsAt
  <2>3. Cardinality(PartsAt(c, i)) = 0 /\ w[i] \in Int
    BY <1>2, <2>2, FS_EmptySet DEF Ledger
  <2> HIDE DEF PartsAt
  <2>4. QED
    BY <2>3
<1>5. /\ Sound(Append(h, c), Plus(w, Obj(Len(h) + 1)))
      /\ Leaves(h, Append(h, c), DOMAIN h)
      /\ DOMAIN Append(h, c) = (DOMAIN h) \cup {Len(h) + 1} /\ Len(h) + 1 \notin DOMAIN h
      /\ Append(h, c)[Len(h) + 1] = c
  BY <1>1, <1>2, <1>3, <1>4, SoundFacts, NewSound
<1> DEFINE g == Append(h, c)
           n == Len(h) + 1
<1>6. Sound(g, Plus(w, Obj(n))) /\ Leaves(h, g, DOMAIN h)
  BY <1>5
<1>7. DOMAIN g = (DOMAIN h) \cup {n} /\ n \notin DOMAIN h /\ g[n] = c
  BY <1>5
<1> HIDE DEF g, n
<1>8. Framed(h, w, g, n, f, depth)
  BY <1>1, <1>6, <1>7 DEF Framed, IsNew
<1>9. QED
  BY <1>8 DEF g, n, c

(* Registers, `more', and arguments are values. *)
LEMMA RegisterValues ==
  ASSUME NEW h, NEW w, Sound(h, w), NEW F, Held(h, w, F), NEW f \in F
  PROVE  /\ \A r \in 1 .. ArgsInFrame : Value(h, Reg(h, f, r)) /\ Value(h, Arg(h, f, r))
         /\ Value(h, More(h, f))
         /\ \A n \in Nat \ {0} : Value(h, Arg(h, f, n))
<1>1. /\ \A r \in 1 .. ArgsInFrame + 1 : Value(h, h[f].part[r])
      /\ HeapOK(h) /\ ArgsInFrame \in Nat
  BY HeldFacts, SoundFacts, WidthFacts
<1>2. Value(h, More(h, f)) /\ \A r \in 1 .. ArgsInFrame : Value(h, Reg(h, f, r))
  BY <1>1 DEF More, Reg
<1>3. ValuesIn(h, Items(h, More(h, f)))
  BY <1>1, <1>2, ItemsFacts
<1>4. Value(h, Nil)
  BY AtomsAre, AtomValue
<1> DEFINE others == Items(h, More(h, f))
<1>5. \A i \in DOMAIN others : Value(h, others[i])
  BY <1>3 DEF ValuesIn
<1>6. ASSUME NEW n \in Nat \ {0}
      PROVE  Value(h, Arg(h, f, n))
  <2>1. Arg(h, f, n) = IF n <= ArgsInFrame THEN Reg(h, f, n)
          ELSE IF n - ArgsInFrame \in DOMAIN others THEN others[n - ArgsInFrame] ELSE Nil
    BY DEF Arg
  <2> HIDE DEF others
  <2>2. n <= ArgsInFrame => n \in 1 .. ArgsInFrame
    BY <1>1
  <2>3. QED
    BY <1>2, <1>4, <1>5, <2>1, <2>2
<1>7. QED
  BY <1>1, <1>2, <1>6
=============================================================================
