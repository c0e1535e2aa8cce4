---------------------------- MODULE NumbersProofs ----------------------------
(* Proofs about the numbers, for every size of a cell and of an int, every set
   of names and of texts, and calls with any number of arguments: whatever is
   added, multiplied or simplified on the way, each number has a count for
   everything that refers to it, except for those counts that are known to
   be given up although they may be another's (`given', in Cells).         *)
EXTENDS Numbers, CellsProofs

USE NumbersAssumption

-----------------------------------------------------------------------------
(* C's remainder is nearer to zero than the divisor, and no further from it
   than the dividend; and a wrapped number is within its width.            *)
LEMMA QuotientFacts ==
  ASSUME NEW a \in Nat, NEW b \in Nat, b > 0
  PROVE  a \div b \in Nat /\ b * (a \div b) \in Int /\ a - b * (a \div b) \in 0 .. b - 1
BY SMT

LEMMA RemainderFacts ==
  ASSUME NEW n \in Int, NEW m \in Int, m # 0
  PROVE  /\ Remainder(n, m) \in Int
         /\ Abs(Remainder(n, m)) < Abs(m) /\ Abs(Remainder(n, m)) <= Abs(n)
<1> DEFINE q == Abs(n) \div Abs(m)
           r == Abs(n) - Abs(m) * q
<1>1. /\ Abs(n) \in Nat /\ Abs(m) \in Nat /\ Abs(m) > 0
      /\ n \in {Abs(n), -Abs(n)} /\ m \in {Abs(m), -Abs(m)}
      /\ n < 0 => n = -Abs(n)
      /\ ~(n < 0) => n = Abs(n)
      /\ m < 0 => m = -Abs(m)
      /\ ~(m < 0) => m = Abs(m)
  BY DEF Abs
<1>2. q \in Nat /\ Abs(m) * q \in Int /\ r \in 0 .. Abs(m) - 1
  BY <1>1, QuotientFacts
<1>3. Abs(m) * q \in 0 .. Abs(n) /\ r <= Abs(n)
  <2>1. Abs(m) * q \in Nat
    BY <1>1, <1>2
  <2>2. QED
    BY <1>1, <1>2, <2>1
<1>4. m * Quotient(n, m) = IF n < 0 THEN -(Abs(m) * q) ELSE Abs(m) * q
  <2> HIDE DEF q
  <2>1. /\ (n < 0) = (m < 0) => Quotient(n, m) = q
        /\ (n < 0) # (m < 0) => Quotient(n, m) = -q
    BY DEF Quotient, q
  <2>2. /\ (-Abs(m)) * q = -(Abs(m) * q)
        /\ (-Abs(m)) * (-q) = Abs(m) * q
        /\ Abs(m) * (-q) = -(Abs(m) * q)
    BY <1>1, <1>2, SMT
  <2>3. QED
    BY <1>1, <2>1, <2>2
<1>5. Remainder(n, m) = IF n < 0 THEN -r ELSE r
  BY <1>1, <1>2, <1>4 DEF Remainder
<1>6. QED
  BY <1>1, <1>2, <1>3, <1>5 DEF Abs

LEMMA WrapFacts ==
  ASSUME NEW n \in Int, NEW limit \in Nat, limit > 0
  PROVE  Wrap(n, limit) \in -limit .. limit - 1
<1>1. (n + limit) % (2 * limit) \in 0 .. 2 * limit - 1
  BY SMT
<1>2. QED
  BY <1>1 DEF Wrap

(* What is known of the loop of greatest_common_divisor after k turns: n is an
   int after the first, and m is smaller with each after the second.       *)
Closing(s, k) ==
  /\ s.m \in Int /\ s.n \in Int
  /\ k = 1 /\ s.m # 0 => Abs(s.n) <= IntLimit
  /\ k >= 2 /\ s.m # 0 => Abs(s.m) <= IntLimit + 2 - k

LEMMA TurnCloses ==
  ASSUME NEW s, NEW k \in Nat, Closing(s, k)
  PROVE  Closing(Turn(s), k + 1)
<1>1. s.m \in Int /\ s.n \in Int /\ IntLimit \in Nat /\ IntLimit > 0
  BY DEF Closing
<1>2. CASE s.m = 0
  BY <1>1, <1>2 DEF Turn, Closing
<1>3. CASE s.m # 0
  <2>1. /\ Turn(s).n = Wrap(s.m, IntLimit) /\ Turn(s).m = Remainder(s.n, s.m)
    BY <1>3 DEF Turn
  <2>2. Turn(s).n \in -IntLimit .. IntLimit - 1
    BY <1>1, <2>1, WrapFacts
  <2>3. Turn(s).n \in Int /\ Abs(Turn(s).n) <= IntLimit
    BY <1>1, <2>2 DEF Abs
  <2>4. /\ Turn(s).m \in Int /\ Abs(Turn(s).m) < Abs(s.m) /\ Abs(Turn(s).m) <= Abs(s.n)
    BY <1>1, <1>3, <2>1, RemainderFacts
  <2>5. /\ Abs(s.m) \in Int /\ Abs(s.n) \in Int /\ Abs(Turn(s).m) \in Int
    BY <1>1, <2>4 DEF Abs
  <2>6. k >= 1 => Abs(Turn(s).m) <= IntLimit + 2 - (k + 1)
    <3>1. CASE k = 1
      BY <1>1, <1>3, <2>4, <2>5, <3>1 DEF Closing
    <3>2. CASE k >= 2
      BY <1>1, <1>3, <2>4, <2>5, <3>2 DEF Closing
    <3>3. QED
      BY <3>1, <3>2
  <2>7. QED
    BY <2>3, <2>4, <2>6 DEF Closing
<1>4. QED
  BY <1>2, <1>3

(* The loop of greatest_common_divisor (ratio.c:32-36) ends within the turns
   that Gcd gives it, whatever numbers it is called with.                  *)
THEOREM GcdEnds ==
  ASSUME NEW m \in Int, NEW n \in Int, NEW unset
  PROVE  Turned(m, n, unset).m = 0
<1> DEFINE N == MaxTurns
           R == [m : Int, n : Int, o : Int \cup {unset}]
           start == [m |-> m, n |-> n, o |-> unset]
           next == [x \in R \X (1 .. N) |-> Turn(x[1])]
<1>1. N \in Nat /\ N = IntLimit + 2 /\ IntLimit \in Nat /\ IntLimit > 0
  BY DEF MaxTurns
<1>2. start \in R
  OBVIOUS
<1>3. \A s \in R : Turn(s) \in R
  <2>1. TAKE s \in R
  <2>2. CASE s.m = 0
    BY <2>2 DEF Turn
  <2>3. CASE s.m # 0
    <3>1. Wrap(s.m, IntLimit) \in Int /\ Remainder(s.n, s.m) \in Int
      BY <1>1, <2>3, WrapFacts, RemainderFacts
    <3>2. QED
      BY <2>3, <3>1 DEF Turn
  <2>4. QED
    BY <2>2, <2>3
<1>4. Advances(R, N, next)
  <2>1. \A x \in R \X (1 .. N) : x[1] \in R
    OBVIOUS
  <2> HIDE DEF R, N
  <2>2. QED
    BY <1>3, <2>1 DEF Advances
<1>5. PICK f \in [0 .. N -> R] :
        f = [i \in 0 .. N |-> IF i = 0 THEN start ELSE next[<<f[i - 1], i>>]]
  <2> HIDE DEF next, R, N, start
  <2>1. \E f : Staged(f, R, N, start, next)
    BY <1>1, <1>2, <1>4, InSteps
  <2>2. QED
    BY <2>1 DEF Staged
<1> HIDE DEF N, R, start
<1>6. ASSUME NEW i \in 1 .. N
      PROVE  f[i] = Turn(f[i - 1])
  <2>1. i - 1 \in 0 .. N /\ i \in 0 .. N /\ i # 0
    BY <1>1
  <2>2. next[<<f[i - 1], i>>] = Turn(f[i - 1])
    BY <2>1
  <2> HIDE DEF next
  <2>3. QED
    BY <1>5, <2>1, <2>2
<1>7. f[0] = start /\ f = [i \in 0 .. N |-> IF i = 0 THEN start ELSE Turn(f[i - 1])]
  <2>1. f[0] = start
    BY <1>1, <1>5
  <2>2. \A i \in 0 .. N : f[i] = IF i = 0 THEN start ELSE Turn(f[i - 1])
    <3>1. \A i \in 0 .. N : i = 0 \/ i \in 1 .. N
      BY <1>1
    <3> HIDE DEF next
    <3>2. QED
      BY <1>6, <2>1, <3>1
  <2>3. QED
    BY <1>5, <2>1, <2>2
<1>8. \A g : g = [i \in 0 .. N |-> IF i = 0 THEN start ELSE Turn(g[i - 1])] =>
        \A i \in 0 .. N : Closing(g[i], i)
  <2>1. TAKE g
  <2>2. HAVE g = [i \in 0 .. N |-> IF i = 0 THEN start ELSE Turn(g[i - 1])]
  <2> DEFINE P == {i \in 0 .. N : Closing(g[i], i)}
  <2>3. 0 \in P
    <3>1. g[0] = start
      BY <1>1, <2>2
    <3>2. Closing(start, 0)
      BY DEF start, Closing
    <3>3. QED
      BY <1>1, <3>1, <3>2
  <2>4. \A i \in 1 .. N : i - 1 \in P => i \in P
    <3>1. TAKE i \in 1 .. N
    <3>2. HAVE i - 1 \in P
    <3>3. i \in 0 .. N /\ i # 0 /\ i - 1 \in Nat /\ (i - 1) + 1 = i
      BY <1>1
    <3>4. g[i] = Turn(g[i - 1])
      BY <2>2, <3>3
    <3>5. Closing(Turn(g[i - 1]), (i - 1) + 1)
      BY <3>2, <3>3, TurnCloses
    <3>6. QED
      BY <3>3, <3>4, <3>5
  <2> HIDE DEF P
  <2>5. \A i \in 0 .. N : i \in P
    BY <1>1, <2>3, <2>4, UpTo
  <2>6. QED
    BY <2>5 DEF P
<1> DEFINE made == CHOOSE g : g = [i \in 0 .. N |-> IF i = 0 THEN start ELSE Turn(g[i - 1])]
<1>9. made = [i \in 0 .. N |-> IF i = 0 THEN start ELSE Turn(made[i - 1])]
  BY <1>7
<1>10. Turned(m, n, unset) = made[N]
  BY DEF Turned, N, start
<1> HIDE DEF made
<1>11. Closing(made[N], N)
  BY <1>1, <1>8, <1>9
<1>12. made[N].m \in Int /\ (made[N].m # 0 => Abs(made[N].m) <= 0)
  BY <1>1, <1>11 DEF Closing
<1>13. made[N].m = 0
  BY <1>12 DEF Abs
<1>14. QED
  BY <1>10, <1>13

-----------------------------------------------------------------------------
(* The heap covers what is claimed, and the frames of F are among that. *)
Safe(h, w, F) == Sound(h, w) /\ Held(h, w, F)

LEMMA SafeFacts ==
  ASSUME NEW h, NEW w, NEW F, Safe(h, w, F)
  PROVE  /\ Sound(h, w) /\ Held(h, w, F) /\ w \in Ledger /\ HeapOK(h)
         /\ F \subseteq DOMAIN h /\ F \subseteq Nat /\ \A f \in F : IsFrame(h, f)
<1>1. Sound(h, w) /\ Held(h, w, F)
  BY DEF Safe
<1>2. w \in Ledger /\ HeapOK(h)
  BY <1>1, SoundFacts
<1>3. F \subseteq DOMAIN h /\ F \subseteq Nat /\ \A f \in F : IsFrame(h, f)
  BY <1>1, HeldFacts
<1>4. QED
  BY <1>1, <1>2, <1>3

(* The heap may be another in which those frames are the same. *)
LEMMA SafeOn ==
  ASSUME NEW h, NEW w, NEW F, Safe(h, w, F), NEW g, Sound(g, w), Leaves(h, g, F)
  PROVE  Safe(g, w, F)
BY HeldOn DEF Safe

(* One more claim, one less, and one that is another's. *)
LEMMA SafeIncRef ==
  ASSUME NEW h, NEW w, NEW F, Safe(h, w, F), NEW p, Value(h, p)
  PROVE  Safe(IncRef(h, p), Plus(w, p), F) /\ Leaves(h, IncRef(h, p), DOMAIN h)
<1>1. /\ Sound(h, w) /\ Held(h, w, F) /\ w \in Ledger /\ F \subseteq Nat /\ F \subseteq DOMAIN h
      /\ Points(h, p)
  BY SafeFacts DEF Value
<1>2. Sound(IncRef(h, p), Plus(w, p)) /\ Leaves(h, IncRef(h, p), DOMAIN h)
  BY <1>1, IncRefSound
<1>3. Held(h, Plus(w, p), F) /\ Leaves(h, IncRef(h, p), F)
  BY <1>1, <1>2, HeldValue, LeavesFacts
<1>4. Held(IncRef(h, p), Plus(w, p), F)
  BY <1>3, HeldOn
<1>5. QED
  BY <1>2, <1>4 DEF Safe

LEMMA SafeNoMore ==
  ASSUME NEW h, NEW w \in Ledger, NEW p, Value(h, p), NEW F, Safe(h, Plus(w, p), F)
  PROVE  Safe(h, w, F)
<1>1. Sound(h, Plus(w, p)) /\ Held(h, Plus(w, p), F) /\ Plus(w, p) \in Ledger /\ F \subseteq Nat
  BY SafeFacts
<1>2. Sound(h, w)
  BY <1>1, NoMore
<1>3. Held(h, Minus(Plus(w, p), p), F) /\ Minus(Plus(w, p), p) = w
  BY <1>1, HeldValue, LedgerFacts
<1>4. QED
  BY <1>2, <1>3 DEF Safe

LEMMA SafeDecRef ==
  ASSUME NEW h, NEW w \in Ledger, NEW p, Value(h, p), NEW F, Safe(h, Plus(w, p), F)
  PROVE  Safe(DecRef(h, p), w, F) /\ Leaves(h, DecRef(h, p), F)
<1>1. Sound(h, Plus(w, p)) /\ Minus(Plus(w, p), p) = w /\ Points(h, p)
  BY SafeFacts, LedgerFacts DEF Value
<1>2. Safe(h, w, F) /\ Held(h, w, F)
  BY SafeNoMore DEF Safe
<1>3. Held(h, Minus(Plus(w, p), p), F)
  BY <1>1, <1>2
<1>4. Sound(DecRef(h, p), Minus(Plus(w, p), p)) /\ Leaves(h, DecRef(h, p), F)
  BY <1>1, <1>3, DecRefSound DEF Owed
<1>5. Sound(DecRef(h, p), w)
  BY <1>1, <1>4
<1>6. QED
  BY <1>2, <1>4, <1>5, SafeOn

LEMMA SafeGiveUp ==
  ASSUME NEW h, NEW w, NEW F, Safe(h, w, F), NEW p, Value(h, p)
  PROVE  Safe(GiveUp(h, p), w, F) /\ Leaves(h, GiveUp(h, p), F)
<1>1. Sound(h, w) /\ Held(h, w, F)
  BY DEF Safe
<1>2. Sound(GiveUp(h, p), w) /\ Leaves(h, GiveUp(h, p), F)
  BY <1>1, GiveUpSound
<1>3. QED
  BY <1>2, SafeOn

(* Claims are claims in any order. *)
LEMMA PlusOrder ==
  ASSUME NEW w \in Ledger, NEW p, NEW q
  PROVE  Plus(Plus(w, p), q) = Plus(Plus(w, q), p)
<1>1. /\ Plus(Plus(w, p), q) = [i \in Nat |-> Plus(w, p)[i] + Is(q, i)]
      /\ Plus(Plus(w, q), p) = [i \in Nat |-> Plus(w, q)[i] + Is(p, i)]
  BY DEF Plus
<1>2. \A i \in Nat : /\ Plus(w, p)[i] = w[i] + Is(p, i) /\ Plus(w, q)[i] = w[i] + Is(q, i)
                      /\ w[i] \in Int /\ Is(p, i) \in {0, 1} /\ Is(q, i) \in {0, 1}
  BY LedgerFacts DEF Ledger, Is
<1>3. \A i \in Nat : (w[i] + Is(p, i)) + Is(q, i) = (w[i] + Is(q, i)) + Is(p, i)
  BY <1>2
<1>4. \A i \in Nat : Plus(w, p)[i] + Is(q, i) = Plus(w, q)[i] + Is(p, i)
  BY <1>2, <1>3
<1>5. QED
  BY <1>1, <1>4

-----------------------------------------------------------------------------
(* What a function returns: something of its own, with a claim to it; or any
   value.                                                                  *)
Yields(h, w, r, F) ==
  /\ Safe(r.heap, Plus(w, r.ptr), F) /\ Leaves(h, r.heap, F) /\ Value(r.heap, r.ptr)
Gives(h, w, r, F) ==
  /\ Safe(r.heap, w, F) /\ Leaves(h, r.heap, F) /\ Value(r.heap, r.ptr)

LEMMA MadeYields ==
  ASSUME NEW h, NEW w, NEW F, Safe(h, w, F), NEW r, Made(h, w, r, DOMAIN h)
  PROVE  Yields(h, w, r, F)
<1>1. Held(h, w, F) /\ w \in Ledger /\ F \subseteq Nat /\ F \subseteq DOMAIN h
  BY SafeFacts
<1>2. Sound(r.heap, Plus(w, r.ptr)) /\ Leaves(h, r.heap, DOMAIN h) /\ Value(r.heap, r.ptr)
  BY DEF Made
<1>3. Leaves(h, r.heap, F)
  BY <1>1, <1>2, LeavesFacts
<1>4. Held(r.heap, w, F)
  BY <1>1, <1>3, HeldOn
<1>5. Held(r.heap, Plus(w, r.ptr), F)
  BY <1>1, <1>2, <1>4, HeldValue
<1>6. QED
  BY <1>2, <1>3, <1>5 DEF Yields, Safe

LEMMA YieldsGives ==
  ASSUME NEW h, NEW w \in Ledger, NEW r, NEW F, Yields(h, w, r, F)
  PROVE  Gives(h, w, r, F)
BY SafeNoMore DEF Yields, Gives

(* More had been claimed than is needed. *)
LEMMA YieldsLess ==
  ASSUME NEW h, NEW w \in Ledger, NEW p, Value(h, p), NEW r, NEW F, Yields(h, Plus(w, p), r, F)
  PROVE  Yields(h, w, r, F)
<1>1. /\ Safe(r.heap, Plus(Plus(w, p), r.ptr), F) /\ Leaves(h, r.heap, F) /\ Value(r.heap, r.ptr)
  BY DEF Yields
<1>2. Value(r.heap, p)
  BY <1>1, GrowsValue DEF Leaves
<1>3. Safe(r.heap, Plus(Plus(w, r.ptr), p), F) /\ Plus(w, r.ptr) \in Ledger
  BY <1>1, PlusOrder, LedgerFacts
<1>4. Safe(r.heap, Plus(w, r.ptr), F)
  BY <1>2, <1>3, SafeNoMore
<1>5. QED
  BY <1>1, <1>4 DEF Yields

(* What was claimed on the way is given up. *)
LEMMA YieldsAfter ==
  ASSUME NEW h, NEW w \in Ledger, NEW p, Value(h, p), NEW r, NEW F, Yields(h, Plus(w, p), r, F)
  PROVE  Yields(h, w, After(r, p), F)
<1> DEFINE a == After(r, p)
<1>1. /\ Safe(r.heap, Plus(Plus(w, p), r.ptr), F) /\ Leaves(h, r.heap, F) /\ Value(r.heap, r.ptr)
  BY DEF Yields
<1>2. Value(r.heap, p)
  BY <1>1, GrowsValue DEF Leaves
<1>3. Safe(r.heap, Plus(Plus(w, r.ptr), p), F) /\ Plus(w, r.ptr) \in Ledger
  BY <1>1, PlusOrder, LedgerFacts
<1>4. Safe(DecRef(r.heap, p), Plus(w, r.ptr), F) /\ Leaves(r.heap, DecRef(r.heap, p), F)
  BY <1>2, <1>3, SafeDecRef
<1>5. a.heap = DecRef(r.heap, p) /\ a.ptr = r.ptr
  BY DEF After, Answer
<1> HIDE DEF a
<1>6. Leaves(h, a.heap, F) /\ Value(a.heap, a.ptr)
  BY <1>1, <1>4, <1>5, LeavesFacts, GrowsValue DEF Leaves
<1>7. Yields(h, w, a, F)
  BY <1>4, <1>5, <1>6 DEF Yields
<1>8. QED
  BY <1>7 DEF a

(* One function after another. *)
LEMMA ThenYields ==
  ASSUME NEW h, NEW g, NEW F, Leaves(h, g, F), NEW w, NEW r
  PROVE  /\ Yields(g, w, r, F) => Yields(h, w, r, F)
         /\ Gives(g, w, r, F) => Gives(h, w, r, F)
BY LeavesFacts DEF Yields, Gives

LEMMA Unchanged ==
  ASSUME NEW h, NEW w, NEW F, Safe(h, w, F), NEW p, Value(h, p)
  PROVE  Gives(h, w, Answer(h, p), F)
BY SafeFacts, LeavesFacts DEF Gives, Answer

-----------------------------------------------------------------------------
(* The constructors of numbers. *)
LEMMA OnePartMade ==
  ASSUME NEW h, NEW w, Sound(h, w), NEW kind \in {"INTR", "REAL"}, NEW x, IsAtom(x)
  PROVE  /\ Made(h, w, New(h, NewCell(kind, <<x>>)), DOMAIN h)
         /\ Tag(New(h, NewCell(kind, <<x>>)).heap, New(h, NewCell(kind, <<x>>)).ptr) = kind
<1> DEFINE c == NewCell(kind, <<x>>)
           r == New(h, c)
           n == Len(h) + 1
<1>1. /\ c.kind = kind /\ ~c.free /\ c.count = 1 /\ c.given = 0 /\ c.part = <<x>>
  BY NewCellFacts
<1>2. CellOK(c)
  <2>1. Arity(kind) = 1
    BY DEF Arity
  <2>2. Fits(<<x>>, 1)
    BY DEF Fits
  <2>3. QED
    BY <2>1, <2>2, NewCellOK
<1> HIDE DEF c
<1>3. w \in Ledger /\ Value(h, x) /\ ~IsObj(x) /\ HeapOK(h)
  BY SoundFacts, AtomValue DEF IsAtom
<1>4. DOMAIN c.part = {1} /\ c.part[1] = x
  BY <1>1
<1>5. PartsOK(h, c)
  BY <1>1, <1>3, <1>4 DEF PartsOK
<1>6. ASSUME NEW i \in Nat
      PROVE  w[i] + Cardinality(PartsAt(c, i)) = w[i]
  <2>1. x # Obj(i)
    BY <1>3, ObjFacts
  <2>2. PartsAt(c, i) = {}
    BY <1>4, <2>1 DEF PartsAt
  <2>3. Cardinality(PartsAt(c, i)) = 0 /\ w[i] \in Int
    BY <1>3, <2>2, FS_EmptySet DEF Ledger
  <2> HIDE DEF PartsAt
  <2>4. QED
    BY <2>3
<1>7. Provided(h, w, c.kind)
  BY SoundFacts
<1>8. /\ Sound(Append(h, c), Plus(w, Obj(n))) /\ Leaves(h, Append(h, c), DOMAIN h)
      /\ DOMAIN Append(h, c) = (DOMAIN h) \cup {n} /\ n \notin DOMAIN h /\ Append(h, c)[n] = c
  BY <1>1, <1>2, <1>3, <1>5, <1>6, <1>7, NewSound
<1>9. r.heap = Append(h, c) /\ r.ptr = Obj(n)
  BY DEF New
<1> HIDE DEF n, r
<1>10. IsObj(Obj(n)) /\ Obj(n)[2] = n
  BY ObjFacts
<1>11. Value(r.heap, r.ptr) /\ Tag(r.heap, r.ptr) = kind
  BY <1>1, <1>8, <1>9, <1>10 DEF Value, Points, Tag
<1>12. Made(h, w, r, DOMAIN h)
  BY <1>8, <1>9, <1>11 DEF Made
<1>13. QED
  BY <1>11, <1>12 DEF r, c

LEMMA MakeIntegerMade ==
  ASSUME NEW h, NEW w, Sound(h, w), NEW cells
  PROVE  Made(h, w, MakeInteger(h, cells), DOMAIN h)
<1>1. IsAtom(<<"cells", cells>>)
  BY DEF IsAtom, IsObj, Atoms
<1>2. QED
  BY <1>1, OnePartMade DEF MakeInteger

LEMMA MakeRealMade ==
  ASSUME NEW h, NEW w, Sound(h, w), NEW sign
  PROVE  Made(h, w, MakeReal(h, sign), DOMAIN h)
BY AtomsAre, OnePartMade DEF MakeReal

LEMMA AtomMade ==
  ASSUME NEW h, NEW w, Sound(h, w), NEW p, IsAtom(p)
  PROVE  Made(h, w, Answer(h, p), DOMAIN h)
<1>1. w \in Ledger /\ ~IsObj(p) /\ Value(h, p)
  BY SoundFacts, AtomValue DEF IsAtom
<1>2. Plus(w, p) = w /\ Leaves(h, h, DOMAIN h)
  BY <1>1, AtomLedger, LeavesFacts
<1>3. QED
  BY <1>1, <1>2 DEF Made, Answer

LEMMA AcquireMade ==
  ASSUME NEW h, NEW w, Sound(h, w), NEW cells
  PROVE  Made(h, w, Acquire(h, cells), DOMAIN h)
<1>1. Made(h, w, Answer(h, Num(cells[1])), DOMAIN h)
  BY AtomsAre, AtomMade
<1>2. Made(h, w, MakeInteger(h, cells), DOMAIN h)
  BY MakeIntegerMade
<1>3. Acquire(h, cells) \in {Answer(h, Num(cells[1])), MakeInteger(h, cells)}
  BY DEF Acquire
<1>4. QED
  BY <1>1, <1>2, <1>3

(* A ratio, and what is in it. *)
IsRatioOf(r, a, b) ==
  Tag(r.heap, r.ptr) = "RTIO" /\ Dividend(r.heap, r.ptr) = a /\ Divisor(r.heap, r.ptr) = b

LEMMA MakeUnsimplifiedMade ==
  ASSUME NEW h, NEW w, Sound(h, w), NEW a, Value(h, a), NEW b, Value(h, b)
  PROVE  /\ Made(h, w, MakeUnsimplified(h, a, b), DOMAIN h)
         /\ IsRatioOf(MakeUnsimplified(h, a, b), a, b)
<1> DEFINE g == IncRef(IncRef(h, a), b)
           r == MakeUnsimplified(h, a, b)
           c == NewCell("RTIO", <<a, b>>)
           n == Len(g) + 1
<1>1. Pairs("RTIO")
  BY DEF Pairs
<1>2. Made(h, w, New(g, c), DOMAIN h)
  BY <1>1, CountedPair
<1>3. r = New(g, c) /\ r.heap = Append(g, c) /\ r.ptr = Obj(n)
  BY DEF MakeUnsimplified, New
<1>4. IsSequence(g)
  <2>1. Sound(IncRef(h, a), Plus(w, a)) /\ Leaves(h, IncRef(h, a), DOMAIN h)
    BY IncRefSound
  <2>2. Value(IncRef(h, a), b)
    BY <2>1, GrowsValue DEF Leaves
  <2>3. Sound(g, Plus(Plus(w, a), b))
    BY <2>1, <2>2, IncRefSound
  <2>4. QED
    BY <2>3, SoundFacts, HeapFacts
<1>5. Append(g, c)[n] = c
  BY <1>4, AppendFacts
<1>6. c.kind = "RTIO" /\ ~c.free /\ c.part = <<a, b>>
  BY NewCellFacts
<1>7. IsObj(Obj(n)) /\ Obj(n)[2] = n
  BY ObjFacts
<1> HIDE DEF g, r, c, n
<1>8. IsRatioOf(r, a, b)
  <2>1. r.ptr[2] = n /\ IsObj(r.ptr) /\ r.heap[n] = c
    BY <1>3, <1>5, <1>7
  <2>2. Tag(r.heap, r.ptr) = "RTIO"
    BY <2>1, <1>6 DEF Tag
  <2>3. Dividend(r.heap, r.ptr) = c.part[1] /\ Divisor(r.heap, r.ptr) = c.part[2]
    BY <2>1 DEF Dividend, Divisor
  <2>4. c.part[1] = a /\ c.part[2] = b
    BY <1>6
  <2>5. QED
    BY <2>2, <2>3, <2>4 DEF IsRatioOf
<1>9. Made(h, w, r, DOMAIN h)
  BY <1>2, <1>3
<1>10. QED
  BY <1>8, <1>9 DEF r

(* The error of an operation: its message is not itself an exception. *)
LEMMA ThrowMade ==
  ASSUME NEW h, NEW w, Sound(h, w), NEW name, NEW text, NEW f, IsFrame(h, f)
  PROVE  Made(h, w, Throw(h, Sym(name), Text(text), f), DOMAIN h)
<1> DEFINE what  == Bind(h, Key("payload"), Text(text), Nil)
           where == Bind(what.heap, Key("location"), Sym(name), what.ptr)
           e     == MakeException(where.heap, where.ptr, f)
<1>1. /\ \A g : Value(g, Nil) /\ Value(g, Key("payload")) /\ Value(g, Key("location"))
                /\ Value(g, Text(text)) /\ Value(g, Sym(name))
      /\ w \in Ledger
  BY AtomsAre, AtomValue, SoundFacts
<1>2. ~IsException(h, Text(text))
  BY DEF IsException, Tag, Text, IsObj
<1>3. Throw(h, Sym(name), Text(text), f) = e
  BY <1>2 DEF Throw, ThrowWithCause
<1>4. Made(h, w, what, DOMAIN h)
  BY <1>1, BindMade
<1> HIDE DEF what
<1>5. /\ Sound(what.heap, w) /\ Value(what.heap, what.ptr) /\ Leaves(h, what.heap, DOMAIN h)
  BY <1>1, <1>4, MadeFacts
<1>6. Made(what.heap, w, where, DOMAIN what.heap)
  BY <1>1, <1>5, BindMade
<1> HIDE DEF where
<1>7. /\ Sound(where.heap, Plus(w, where.ptr)) /\ Value(where.heap, where.ptr)
      /\ Leaves(h, where.heap, DOMAIN h)
  BY <1>1, <1>5, <1>6, ThenMade, MadeFacts DEF Made
<1>8. IsFrame(where.heap, f)
  BY <1>7 DEF IsFrame, Leaves, Grows
<1>9. Made(where.heap, w, e, DOMAIN where.heap)
  BY <1>1, <1>7, <1>8, MakeExceptionMade
<1>10. Made(h, w, e, DOMAIN h)
  BY <1>7, <1>9, ThenMade
<1>11. QED
  BY <1>3, <1>10

-----------------------------------------------------------------------------
(* Ratios.  What simplify_ratio returns is what it was given, or the dividend
   of that, which has no claim for it, or new.                             *)
LEMMA AcquireBothMade ==
  ASSUME NEW h, NEW w, Sound(h, w), NEW n, NEW d
  PROVE  LET parts == AcquireBoth(h, n, d)
         IN  /\ Sound(parts.heap, Plus(Plus(w, parts.dividend), parts.divisor))
             /\ Leaves(h, parts.heap, DOMAIN h)
             /\ Value(parts.heap, parts.dividend) /\ Value(parts.heap, parts.divisor)
<1> DEFINE p == Acquire(h, n)
           q == Acquire(p.heap, d)
           parts == AcquireBoth(h, n, d)
<1>1. w \in Ledger
  BY SoundFacts
<1>2. Made(h, w, p, DOMAIN h)
  BY AcquireMade
<1>3. Sound(p.heap, Plus(w, p.ptr)) /\ Leaves(h, p.heap, DOMAIN h) /\ Value(p.heap, p.ptr)
  BY <1>2 DEF Made
<1>4. Made(p.heap, Plus(w, p.ptr), q, DOMAIN p.heap)
  BY <1>3, AcquireMade
<1>5. /\ Sound(q.heap, Plus(Plus(w, p.ptr), q.ptr)) /\ Leaves(p.heap, q.heap, DOMAIN p.heap)
      /\ Value(q.heap, q.ptr)
  BY <1>4 DEF Made
<1>6. Leaves(h, q.heap, DOMAIN h) /\ Value(q.heap, p.ptr)
  BY <1>3, <1>5, LeavesFacts, GrowsValue DEF Leaves, Grows
<1>7. parts.heap = q.heap /\ parts.dividend = p.ptr /\ parts.divisor = q.ptr
  BY DEF AcquireBoth, NextTo, Pair
<1> HIDE DEF p, q, parts
<1>8. /\ Sound(parts.heap, Plus(Plus(w, parts.dividend), parts.divisor))
      /\ Leaves(h, parts.heap, DOMAIN h)
      /\ Value(parts.heap, parts.dividend) /\ Value(parts.heap, parts.divisor)
  BY <1>3, <1>5, <1>6, <1>7
<1>9. QED
  BY <1>8 DEF parts

LEMMA CancelIs ==
  ASSUME NEW h, NEW w, NEW F, Safe(h, w, F), NEW p, NEW n, NEW d, NEW gcd
  PROVE  \/ Cancel(h, p, n, d, gcd) = Answer(h, p)
         \/ Yields(h, w, Cancel(h, p, n, d, gcd), F)
<1> DEFINE whole == Acquire(h, <<Quotient(n, gcd)>>)
           parts == AcquireBoth(h, <<Quotient(n, gcd)>>, <<Quotient(d, gcd)>>)
           v     == Plus(Plus(w, parts.dividend), parts.divisor)
           r     == MakeUnsimplified(parts.heap, parts.dividend, parts.divisor)
<1>1. Sound(h, w) /\ w \in Ledger
  BY SafeFacts
<1>2. Yields(h, w, whole, F)
  BY <1>1, AcquireMade, MadeYields
<1>3. /\ Sound(parts.heap, v) /\ Leaves(h, parts.heap, DOMAIN h)
      /\ Value(parts.heap, parts.dividend) /\ Value(parts.heap, parts.divisor)
  BY <1>1, AcquireBothMade
<1> HIDE DEF parts
<1>4. Sound(parts.heap, w)
  <2>1. Plus(w, parts.dividend) \in Ledger
    BY <1>1, LedgerFacts
  <2>2. Sound(parts.heap, Plus(w, parts.dividend))
    BY <1>3, <2>1, NoMore
  <2>3. QED
    BY <1>1, <1>3, <2>2, NoMore
<1>5. Made(parts.heap, w, r, DOMAIN parts.heap)
  BY <1>3, <1>4, MakeUnsimplifiedMade
<1>6. Made(h, w, r, DOMAIN h)
  BY <1>3, <1>5, ThenMade
<1>7. Yields(h, w, r, F)
  BY <1>6, MadeYields
<1>8. Cancel(h, p, n, d, gcd) \in {Answer(h, p), whole, r}
  BY DEF Cancel, UnsimplifiedOf, parts
<1> HIDE DEF whole, r
<1>9. QED
  BY <1>2, <1>7, <1>8

LEMMA SimplifyIs ==
  ASSUME NEW h, NEW w, NEW F, Safe(h, w, F), NEW p, NEW unset
  PROVE  \/ Simplify(h, p, unset) \in {Answer(h, p), Answer(h, Dividend(h, p))}
         \/ Yields(h, w, Simplify(h, p, unset), F)
<1> DEFINE n == First(h, Dividend(h, p))
           d == First(h, Divisor(h, p))
           c == Cancel(h, p, n, d, Gcd(n, d, unset))
<1>1. c = Answer(h, p) \/ Yields(h, w, c, F)
  BY CancelIs
<1>2. Simplify(h, p, unset) \in {Answer(h, Dividend(h, p)), c}
  BY DEF Simplify
<1> HIDE DEF c
<1>3. QED
  BY <1>1, <1>2

(* make_ratio gives up what it made unless it is the result. *)
Simpler(h, w, r, a, F) ==
  \/ Yields(h, w, r, F)
  \/ r.ptr = a /\ Gives(h, w, r, F)

LEMMA SimplifiedIs ==
  ASSUME NEW h, NEW w, NEW F, Safe(h, w, F), NEW raw, Made(h, w, raw, DOMAIN h),
         NEW a, Value(h, a), NEW b, IsRatioOf(raw, a, b), NEW unset
  PROVE  Simpler(h, w, Simplified(raw, unset), a, F)
<1> DEFINE s == Simplify(raw.heap, raw.ptr, unset)
           v == Plus(w, raw.ptr)
           r == InPlaceOf(raw, s)
<1>1. w \in Ledger /\ v \in Ledger /\ Yields(h, w, raw, F)
  BY SafeFacts, LedgerFacts, MadeYields
<1>2. Safe(raw.heap, v, F) /\ Leaves(h, raw.heap, F) /\ Value(raw.heap, raw.ptr)
  BY <1>1 DEF Yields
<1>3. Value(raw.heap, a) /\ Dividend(raw.heap, raw.ptr) = a
  BY <1>2, GrowsValue DEF Leaves, IsRatioOf
<1>4. s \in {Answer(raw.heap, raw.ptr), Answer(raw.heap, a)} \/ Yields(raw.heap, v, s, F)
  BY <1>2, <1>3, SimplifyIs
<1>5. r = IF s.ptr = raw.ptr THEN s ELSE After(s, raw.ptr)
  BY DEF InPlaceOf
<1>6. Simplified(raw, unset) = r
  BY DEF Simplified
<1> HIDE DEF s, r
<1>7. CASE s = Answer(raw.heap, raw.ptr)
  <2>1. r = s /\ s.heap = raw.heap /\ s.ptr = raw.ptr
    BY <1>5, <1>7 DEF Answer
  <2>2. Yields(h, w, r, F)
    BY <1>1, <2>1 DEF Yields
  <2>3. QED
    BY <1>6, <2>2 DEF Simpler
<1>8. CASE s = Answer(raw.heap, a) /\ a # raw.ptr
  <2>1. s.heap = raw.heap /\ s.ptr = a /\ r = After(s, raw.ptr)
    BY <1>5, <1>8 DEF Answer
  <2>2. r.heap = DecRef(raw.heap, raw.ptr) /\ r.ptr = a
    BY <2>1 DEF After, Answer
  <2>3. Safe(r.heap, w, F) /\ Leaves(raw.heap, r.heap, F)
    BY <1>1, <1>2, <2>2, SafeDecRef
  <2>4. Leaves(h, r.heap, F) /\ Value(r.heap, r.ptr)
    BY <1>2, <1>3, <2>2, <2>3, LeavesFacts, GrowsValue DEF Leaves
  <2>5. QED
    BY <1>6, <2>2, <2>3, <2>4 DEF Simpler, Gives
<1>9. CASE Yields(raw.heap, v, s, F)
  <2>1. CASE s.ptr = raw.ptr
    <3>1. Yields(raw.heap, w, s, F)
      BY <1>1, <1>2, <1>9, YieldsLess
    <3>2. QED
      BY <1>2, <1>5, <1>6, <2>1, <3>1, ThenYields DEF Simpler
  <2>2. CASE s.ptr # raw.ptr
    <3>1. Yields(raw.heap, w, After(s, raw.ptr), F)
      BY <1>1, <1>2, <1>9, YieldsAfter
    <3>2. QED
      BY <1>2, <1>5, <1>6, <2>2, <3>1, ThenYields DEF Simpler
  <2>3. QED
    BY <2>1, <2>2
<1>10. QED
  BY <1>4, <1>7, <1>8, <1>9

LEMMA MakeRatioGives ==
  ASSUME NEW h, NEW w, NEW F, Safe(h, w, F), NEW a, Value(h, a), NEW b, Value(h, b), NEW unset
  PROVE  Gives(h, w, MakeRatio(h, a, b, unset), F)
<1> DEFINE raw == MakeUnsimplified(h, a, b)
<1>1. w \in Ledger /\ Made(h, w, raw, DOMAIN h) /\ IsRatioOf(raw, a, b)
  BY SafeFacts, MakeUnsimplifiedMade
<1> HIDE DEF raw
<1>2. Simpler(h, w, Simplified(raw, unset), a, F)
  BY <1>1, SimplifiedIs
<1>3. Gives(h, w, Simplified(raw, unset), F)
  BY <1>1, <1>2, YieldsGives DEF Simpler
<1>4. QED
  BY <1>3 DEF MakeRatio, raw

(* Two integers that were acquired and are claimed. *)
Owns(w, parts, F) ==
  /\ Safe(parts.heap, Plus(Plus(w, parts.dividend), parts.divisor), F)
  /\ Value(parts.heap, parts.dividend) /\ Value(parts.heap, parts.divisor)

LEMMA AcquireBothOwns ==
  ASSUME NEW h, NEW w, NEW F, Safe(h, w, F), NEW n, NEW d
  PROVE  /\ Owns(w, AcquireBoth(h, n, d), F)
         /\ Leaves(h, AcquireBoth(h, n, d).heap, F)
<1> DEFINE parts == AcquireBoth(h, n, d)
<1>1. Sound(h, w) /\ Held(h, w, F) /\ w \in Ledger /\ F \subseteq Nat /\ F \subseteq DOMAIN h
  BY SafeFacts
<1>2. /\ Sound(parts.heap, Plus(Plus(w, parts.dividend), parts.divisor))
      /\ Leaves(h, parts.heap, DOMAIN h)
      /\ Value(parts.heap, parts.dividend) /\ Value(parts.heap, parts.divisor)
  BY <1>1, AcquireBothMade
<1> HIDE DEF parts
<1>3. Leaves(h, parts.heap, F) /\ Held(parts.heap, w, F)
  BY <1>1, <1>2, LeavesFacts, HeldOn
<1>4. Held(parts.heap, Plus(w, parts.dividend), F) /\ Plus(w, parts.dividend) \in Ledger
  BY <1>1, <1>2, <1>3, HeldValue, LedgerFacts
<1>5. Held(parts.heap, Plus(Plus(w, parts.dividend), parts.divisor), F)
  BY <1>1, <1>2, <1>4, HeldValue
<1>6. Owns(w, parts, F)
  BY <1>2, <1>5 DEF Owns, Safe
<1>7. QED
  BY <1>3, <1>6 DEF parts

(* A ratio of them, or what is simpler: it may be the dividend, and then has
   the claim that was on that.                                             *)
LEMMA RatioOfYields ==
  ASSUME NEW w \in Ledger, NEW parts, NEW F, Owns(w, parts, F), NEW unset
  PROVE  LET r == RatioOf(parts, unset)
         IN  /\ Yields(parts.heap, Plus(w, parts.divisor), r, F)
             /\ r.ptr = parts.dividend
                \/ Yields(parts.heap, Plus(Plus(w, parts.dividend), parts.divisor), r, F)
<1> DEFINE h   == parts.heap
           a   == parts.dividend
           b   == parts.divisor
           wb  == Plus(w, b)
           v   == Plus(Plus(w, a), b)
           raw == MakeUnsimplified(h, a, b)
           r   == RatioOf(parts, unset)
<1>1. Safe(h, v, F) /\ Value(h, a) /\ Value(h, b)
  BY DEF Owns
<1>2. Sound(h, v) /\ v \in Ledger
  BY <1>1, SafeFacts
<1>3. wb \in Ledger /\ v = Plus(wb, a)
  BY LedgerFacts, PlusOrder
<1>4. r = Simplified(raw, unset)
  BY DEF RatioOf, UnsimplifiedOf
<1> HIDE DEF h, a, b, v, r, wb
<1>5. Made(h, v, raw, DOMAIN h) /\ IsRatioOf(raw, a, b)
  BY <1>1, <1>2, MakeUnsimplifiedMade
<1> HIDE DEF raw
<1>6. Simpler(h, v, r, a, F)
  BY <1>1, <1>4, <1>5, SimplifiedIs
<1>7. CASE Yields(h, v, r, F)
  <2>1. Yields(h, wb, r, F)
    BY <1>1, <1>3, <1>7, YieldsLess
  <2>2. QED
    BY <1>7, <2>1 DEF h, a, b, v, r, wb
<1>8. CASE r.ptr = a /\ Gives(h, v, r, F)
  <2>1. Yields(h, wb, r, F)
    BY <1>3, <1>8 DEF Gives, Yields
  <2>2. QED
    BY <1>8, <2>1 DEF h, a, b, v, r, wb
<1>9. QED
  BY <1>6, <1>7, <1>8 DEF Simpler

LEMMA ReleaseYields ==
  ASSUME NEW h, NEW w \in Ledger, NEW p, Value(h, p), NEW r, NEW F,
         IF p = r.ptr THEN Yields(h, w, r, F) ELSE Yields(h, Plus(w, p), r, F)
  PROVE  Yields(h, w, Answer(Release(r.heap, p, r.ptr), r.ptr), F)
<1> DEFINE s == Answer(Release(r.heap, p, r.ptr), r.ptr)
<1>1. CASE p = r.ptr
  <2>1. Safe(r.heap, Plus(w, r.ptr), F) /\ Leaves(h, r.heap, F) /\ Value(r.heap, p)
    BY <1>1 DEF Yields
  <2>2. s.heap = GiveUp(r.heap, p) /\ s.ptr = r.ptr
    BY <1>1 DEF Answer, Release
  <2>3. Safe(s.heap, Plus(w, r.ptr), F) /\ Leaves(r.heap, s.heap, F)
    BY <2>1, <2>2, SafeGiveUp
  <2> HIDE DEF s
  <2>4. Leaves(h, s.heap, F) /\ Value(s.heap, s.ptr)
    BY <1>1, <2>1, <2>2, <2>3, LeavesFacts, GrowsValue DEF Leaves
  <2>5. Yields(h, w, s, F)
    BY <2>2, <2>3, <2>4 DEF Yields
  <2>6. QED
    BY <2>5 DEF s
<1>2. CASE p # r.ptr
  <2>1. Yields(h, w, After(r, p), F)
    BY <1>2, YieldsAfter
  <2>2. s = After(r, p)
    BY <1>2 DEF Answer, Release, After
  <2>3. QED
    BY <2>1, <2>2
<1>3. QED
  BY <1>1, <1>2

LEMMA ProductOfYields ==
  ASSUME NEW w \in Ledger, NEW parts, NEW F, Owns(w, parts, F), NEW unset
  PROVE  Yields(parts.heap, w, ProductOf(parts, unset), F)
<1> DEFINE h  == parts.heap
           a  == parts.dividend
           b  == parts.divisor
           wb == Plus(w, b)
           r  == RatioOf(parts, unset)
           s  == Answer(Release(r.heap, a, r.ptr), r.ptr)
           t  == Answer(Release(s.heap, b, s.ptr), s.ptr)
<1>1. Value(h, a) /\ Value(h, b)
  BY DEF Owns
<1>2. Yields(h, wb, r, F) /\ (r.ptr = a \/ Yields(h, Plus(Plus(w, a), b), r, F))
  BY RatioOfYields
<1>3. wb \in Ledger /\ Plus(Plus(w, a), b) = Plus(wb, a)
  BY LedgerFacts, PlusOrder
<1>4. ProductOf(parts, unset) = t
  BY DEF ProductOf, ReleaseParts, Answer
<1> HIDE DEF h, a, b, wb, r
<1>5. Yields(h, wb, s, F)
  BY <1>1, <1>2, <1>3, ReleaseYields
<1> HIDE DEF s
<1>6. Yields(h, w, s, F)
  BY <1>1, <1>5, YieldsLess DEF wb
<1>7. Yields(h, w, t, F)
  BY <1>1, <1>5, <1>6, ReleaseYields DEF wb
<1>8. QED
  BY <1>4, <1>7 DEF h

LEMMA AddRatioRatioYields ==
  ASSUME NEW h, NEW w, NEW F, Safe(h, w, F), NEW p, NEW q, NEW unset
  PROVE  Yields(h, w, AddRatioRatio(h, p, q, unset), F)
<1> DEFINE a == CellsOf(h, Dividend(h, p))
           b == CellsOf(h, Divisor(h, p))
           c == CellsOf(h, Dividend(h, q))
           d == CellsOf(h, Divisor(h, q))
           parts == AcquireBoth(h, Sum(Product(a, d), Product(c, b)), Product(b, d))
           r == RatioOf(parts, unset)
<1>1. w \in Ledger
  BY SafeFacts
<1>2. Owns(w, parts, F) /\ Leaves(h, parts.heap, F)
  BY AcquireBothOwns
<1>3. AddRatioRatio(h, p, q, unset) = r
  BY DEF AddRatioRatio
<1> HIDE DEF parts
<1>4. Yields(parts.heap, Plus(w, parts.divisor), r, F) /\ Value(parts.heap, parts.divisor)
  BY <1>1, <1>2, RatioOfYields DEF Owns
<1> HIDE DEF r
<1>5. Yields(parts.heap, w, r, F)
  BY <1>1, <1>4, YieldsLess
<1>6. QED
  BY <1>2, <1>3, <1>5, ThenYields

LEMMA MultiplyRatioRatioYields ==
  ASSUME NEW h, NEW w, NEW F, Safe(h, w, F), NEW p, NEW q, NEW unset
  PROVE  Yields(h, w, MultiplyRatioRatio(h, p, q, unset), F)
<1> DEFINE n == First(h, Dividend(h, p)) * First(h, Dividend(h, q))
           d == First(h, Divisor(h, p)) * First(h, Divisor(h, q))
           parts == AcquireBoth(h, <<Wrap(n, Int64Limit)>>, <<Wrap(d, Int64Limit)>>)
<1>1. w \in Ledger
  BY SafeFacts
<1>2. Owns(w, parts, F) /\ Leaves(h, parts.heap, F)
  BY AcquireBothOwns
<1>3. MultiplyRatioRatio(h, p, q, unset) = ProductOf(parts, unset)
  BY DEF MultiplyRatioRatio
<1> HIDE DEF parts
<1>4. Yields(parts.heap, w, ProductOf(parts, unset), F)
  BY <1>1, <1>2, ProductOfYields
<1>5. QED
  BY <1>2, <1>3, <1>4, ThenYields

(* An integer that becomes a ratio on the way is given up, or never. *)
LEMMA IntegerAndRatio ==
  ASSUME NEW h, NEW w, NEW F, Safe(h, w, F), NEW int, Value(h, int), NEW ratio, NEW unset
  PROVE  /\ Yields(h, w, AddIntegerRatio(h, int, ratio, unset), F)
         /\ Yields(h, w, MultiplyIntegerRatio(h, int, ratio, unset), F)
<1> DEFINE whole == MakeUnsimplified(h, int, Num(1))
           v     == Plus(w, whole.ptr)
           sum   == AddRatioRatio(whole.heap, whole.ptr, ratio, unset)
           times == MultiplyRatioRatio(whole.heap, whole.ptr, ratio, unset)
<1>1. Sound(h, w) /\ w \in Ledger /\ Value(h, Num(1))
  BY SafeFacts, AtomsAre, AtomValue
<1>2. Yields(h, w, whole, F)
  BY <1>1, MakeUnsimplifiedMade, MadeYields
<1>3. AddIntegerRatio(h, int, ratio, unset) = After(sum, whole.ptr)
      /\ MultiplyIntegerRatio(h, int, ratio, unset) = times
  BY DEF AddIntegerRatio, MultiplyIntegerRatio
<1> HIDE DEF whole
<1>4. Safe(whole.heap, v, F) /\ Leaves(h, whole.heap, F) /\ Value(whole.heap, whole.ptr)
  BY <1>2 DEF Yields
<1>5. Yields(whole.heap, v, sum, F) /\ Yields(whole.heap, v, times, F)
  BY <1>4, AddRatioRatioYields, MultiplyRatioRatioYields
<1> HIDE DEF sum, times
<1>6. Yields(whole.heap, w, After(sum, whole.ptr), F)
  BY <1>1, <1>4, <1>5, YieldsAfter
<1>7. Yields(whole.heap, w, times, F)
  BY <1>1, <1>4, <1>5, YieldsLess
<1>8. QED
  BY <1>3, <1>4, <1>6, <1>7, ThenYields

LEMMA RatioParts ==
  ASSUME NEW h, HeapOK(h), NEW p, Value(h, p), Kind(h, p) = "RTIO"
  PROVE  Value(h, Dividend(h, p)) /\ Value(h, Divisor(h, p))
<1> DEFINE c == h[p[2]]
<1>1. Tag(h, p) = "RTIO"
  BY DEF Kind, KindOf
<1>2. IsObj(p)
  BY <1>1 DEF Tag, Value, Points, Atoms
<1>3. p[2] \in DOMAIN h /\ ~c.free /\ c.kind = "RTIO"
  BY <1>1, <1>2 DEF Value, Points, Tag
<1>4. PartsOK(h, c) /\ DOMAIN c.part = 1 .. Arity(c.kind)
  BY <1>3, HeapFacts
<1>5. Arity("RTIO") = 2
  BY DEF Arity
<1>6. Dividend(h, p) = c.part[1] /\ Divisor(h, p) = c.part[2]
  BY DEF Dividend, Divisor
<1> HIDE DEF c
<1>7. 1 \in DOMAIN c.part /\ 2 \in DOMAIN c.part
  BY <1>3, <1>4, <1>5
<1>8. Value(h, c.part[1]) /\ Value(h, c.part[2])
  BY <1>3, <1>4, <1>7 DEF PartsOK
<1>9. QED
  BY <1>6, <1>8

LEMMA DivideRatioRatioYields ==
  ASSUME NEW h, NEW w, NEW F, Safe(h, w, F), NEW p, NEW q, Value(h, q), Kind(h, q) = "RTIO", NEW unset
  PROVE  Yields(h, w, DivideRatioRatio(h, p, q, unset), F)
<1> DEFINE i == MakeUnsimplified(h, Divisor(h, q), Dividend(h, q))
           v == Plus(w, i.ptr)
           r == MultiplyRatioRatio(i.heap, p, i.ptr, unset)
<1>1. Sound(h, w) /\ w \in Ledger /\ HeapOK(h)
  BY SafeFacts
<1>2. Value(h, Dividend(h, q)) /\ Value(h, Divisor(h, q))
  BY <1>1, RatioParts
<1>3. Yields(h, w, i, F)
  BY <1>1, <1>2, MakeUnsimplifiedMade, MadeYields
<1>4. DivideRatioRatio(h, p, q, unset) = After(r, i.ptr)
  BY DEF DivideRatioRatio
<1> HIDE DEF i
<1>5. Safe(i.heap, v, F) /\ Leaves(h, i.heap, F) /\ Value(i.heap, i.ptr)
  BY <1>3 DEF Yields
<1>6. Yields(i.heap, v, r, F)
  BY <1>5, MultiplyRatioRatioYields
<1> HIDE DEF r
<1>7. Yields(i.heap, w, After(r, i.ptr), F)
  BY <1>1, <1>5, <1>6, YieldsAfter
<1>8. QED
  BY <1>4, <1>5, <1>7, ThenYields

(* negative of a number is new. *)
LEMMA NegativeYields ==
  ASSUME NEW h, NEW w, NEW F, Safe(h, w, F), NEW p, Value(h, p)
  PROVE  /\ Kind(h, p) \in {"INTR", "RTIO", "REAL"} => Yields(h, w, Negative(h, p), F)
         /\ Gives(h, w, Negative(h, p), F)
<1> DEFINE real  == MakeReal(h, -h[p[2]].part[1][2])
           int   == NegativeInteger(h, p)
           n     == NegativeInteger(h, Dividend(h, p))
           ratio == MakeUnsimplified(n.heap, n.ptr, Divisor(h, p))
<1>1. Sound(h, w) /\ w \in Ledger /\ HeapOK(h)
  BY SafeFacts
<1>2. /\ Kind(h, p) = "INTR" => Negative(h, p) = int
      /\ Kind(h, p) = "RTIO" => Negative(h, p) = ratio
      /\ Kind(h, p) = "REAL" => Negative(h, p) = real
      /\ Kind(h, p) \notin {"INTR", "RTIO", "REAL"} => Negative(h, p) = Answer(h, p)
  BY DEF Negative
<1>3. Made(h, w, real, DOMAIN h) /\ Made(h, w, int, DOMAIN h) /\ Made(h, w, n, DOMAIN h)
  BY <1>1, MakeRealMade, MakeIntegerMade DEF NegativeInteger
<1> HIDE DEF real, int, n
<1>4. ASSUME Kind(h, p) = "RTIO"
      PROVE  Made(h, w, ratio, DOMAIN h)
  <2>1. Value(h, Divisor(h, p))
    BY <1>1, <1>4, RatioParts
  <2>2. /\ Sound(n.heap, w) /\ Value(n.heap, n.ptr) /\ Leaves(h, n.heap, DOMAIN h)
        /\ Value(n.heap, Divisor(h, p))
    BY <1>1, <1>3, <2>1, MadeFacts
  <2>3. Made(n.heap, w, ratio, DOMAIN n.heap)
    BY <2>2, MakeUnsimplifiedMade
  <2>4. QED
    BY <2>2, <2>3, ThenMade
<1> HIDE DEF ratio
<1>5. Kind(h, p) \in {"INTR", "RTIO", "REAL"} => Yields(h, w, Negative(h, p), F)
  BY <1>2, <1>3, <1>4, MadeYields
<1>6. Kind(h, p) \notin {"INTR", "RTIO", "REAL"} => Gives(h, w, Negative(h, p), F)
  BY <1>2, Unchanged
<1>7. QED
  BY <1>1, <1>5, <1>6, YieldsGives

LEMMA SubtractRatioRatioYields ==
  ASSUME NEW h, NEW w, NEW F, Safe(h, w, F), NEW p, NEW q, Value(h, q), Kind(h, q) = "RTIO", NEW unset
  PROVE  Yields(h, w, SubtractRatioRatio(h, p, q, unset), F)
<1> DEFINE i == Negative(h, q)
           v == Plus(w, i.ptr)
           r == AddRatioRatio(i.heap, p, i.ptr, unset)
<1>1. w \in Ledger /\ Yields(h, w, i, F)
  BY SafeFacts, NegativeYields
<1>2. SubtractRatioRatio(h, p, q, unset) = After(r, i.ptr)
  BY DEF SubtractRatioRatio
<1> HIDE DEF i
<1>3. Safe(i.heap, v, F) /\ Leaves(h, i.heap, F) /\ Value(i.heap, i.ptr)
  BY <1>1 DEF Yields
<1>4. Yields(i.heap, v, r, F)
  BY <1>3, AddRatioRatioYields
<1> HIDE DEF r
<1>5. Yields(i.heap, w, After(r, i.ptr), F)
  BY <1>1, <1>3, <1>4, YieldsAfter
<1>6. QED
  BY <1>2, <1>3, <1>5, ThenYields

(* An integer over one: both that and the one are claimed. *)
LEMMA AsRatioYields ==
  ASSUME NEW h, NEW w, NEW F, Safe(h, w, F), NEW int, Value(h, int)
  PROVE  LET r == AsRatio(h, int)
             d == Divisor(r.heap, r.ptr)
         IN  /\ Yields(h, Plus(w, d), r, F) /\ Value(r.heap, d)
             /\ Leaves(h, r.heap, DOMAIN h) /\ Kind(r.heap, r.ptr) = "RTIO"
<1> DEFINE one == MakeInteger(h, <<1>>)
           v   == Plus(w, one.ptr)
           r   == MakeUnsimplified(one.heap, int, one.ptr)
<1>1. Sound(h, w) /\ w \in Ledger /\ F \subseteq DOMAIN h
  BY SafeFacts
<1>2. Made(h, w, one, DOMAIN h) /\ Yields(h, w, one, F)
  BY <1>1, MakeIntegerMade, MadeYields
<1>3. r = AsRatio(h, int)
  BY DEF AsRatio, OverOne
<1> HIDE DEF one
<1>4. /\ Safe(one.heap, v, F) /\ Leaves(h, one.heap, DOMAIN h) /\ Leaves(h, one.heap, F)
      /\ Value(one.heap, one.ptr) /\ Value(one.heap, int)
  BY <1>1, <1>2, MadeFacts DEF Yields
<1>5. Sound(one.heap, v)
  BY <1>4, SafeFacts
<1>6. Made(one.heap, v, r, DOMAIN one.heap) /\ IsRatioOf(r, int, one.ptr)
  BY <1>4, <1>5, MakeUnsimplifiedMade
<1> HIDE DEF r
<1>7. Yields(one.heap, v, r, F)
  BY <1>4, <1>6, MadeYields
<1>8. Yields(h, v, r, F)
  BY <1>4, <1>7, ThenYields
<1>9. /\ Made(h, v, r, DOMAIN h) /\ Leaves(one.heap, r.heap, DOMAIN one.heap)
  BY <1>4, <1>6, ThenMade DEF Made
<1>10. Leaves(h, r.heap, DOMAIN h) /\ Value(r.heap, one.ptr)
  BY <1>4, <1>9, GrowsValue DEF Made, Leaves
<1>11. Divisor(r.heap, r.ptr) = one.ptr /\ Kind(r.heap, r.ptr) = "RTIO"
  BY <1>6 DEF IsRatioOf, Kind, KindOf
<1>12. /\ Yields(h, Plus(w, Divisor(r.heap, r.ptr)), r, F) /\ Value(r.heap, Divisor(r.heap, r.ptr))
       /\ Leaves(h, r.heap, DOMAIN h) /\ Kind(r.heap, r.ptr) = "RTIO"
  BY <1>8, <1>10, <1>11
<1>13. QED
  BY <1>3, <1>12

LEMMA KindKept ==
  ASSUME NEW h, NEW g, Leaves(h, g, DOMAIN h), NEW p, Value(h, p)
  PROVE  Value(g, p) /\ Kind(g, p) = Kind(h, p)
<1>1. Value(g, p) /\ \A i \in DOMAIN h : Keeps(h[i], g[i])
  BY GrowsValue DEF Leaves
<1>2. IsObj(p) => p[2] \in DOMAIN h
  BY DEF Value, Points
<1>3. Tag(g, p) = Tag(h, p)
  BY <1>1, <1>2 DEF Tag, Keeps
<1>4. QED
  BY <1>1, <1>3 DEF Kind

LEMMA DivideByWholeYields ==
  ASSUME NEW h, NEW w, NEW F, Safe(h, w, F), NEW p, NEW int, Value(h, int), NEW unset
  PROVE  Yields(h, w, DivideByWhole(p, AsRatio(h, int), unset), F)
<1> DEFINE r == AsRatio(h, int)
           d == Divisor(r.heap, r.ptr)
           v == Plus(w, d)
           u == Plus(v, r.ptr)
           x == DivideRatioRatio(r.heap, p, r.ptr, unset)
           y == After(x, r.ptr)
<1>1. w \in Ledger /\ v \in Ledger
  BY SafeFacts, LedgerFacts
<1>2. Yields(h, v, r, F) /\ Value(r.heap, d) /\ Kind(r.heap, r.ptr) = "RTIO"
  BY AsRatioYields
<1>3. DivideByWhole(p, AsRatio(h, int), unset) = After(y, d)
  BY DEF DivideByWhole
<1> HIDE DEF d, r
<1>4. Safe(r.heap, u, F) /\ Leaves(h, r.heap, F) /\ Value(r.heap, r.ptr)
  BY <1>2 DEF Yields
<1>5. Yields(r.heap, u, x, F)
  BY <1>2, <1>4, DivideRatioRatioYields
<1> HIDE DEF x
<1>6. Yields(r.heap, v, y, F)
  BY <1>1, <1>4, <1>5, YieldsAfter
<1> HIDE DEF y
<1>7. Yields(r.heap, w, After(y, d), F)
  BY <1>1, <1>2, <1>6, YieldsAfter
<1>8. QED
  BY <1>3, <1>4, <1>7, ThenYields

-----------------------------------------------------------------------------
(* The functions of two arguments.  A sum or a product is an operand, and
   nothing has been done, or it is new.                                    *)
Combines(h, w, r, p, q, F) == r \in {Answer(h, p), Answer(h, q)} \/ Yields(h, w, r, F)

LEMMA AddedCombines ==
  ASSUME NEW h, NEW w, NEW F, Safe(h, w, F), NEW p, Value(h, p), NEW q, Value(h, q),
         NEW s, NEW unset, NEW f \in F
  PROVE  /\ Combines(h, w, Add2(h, p, q, s, unset, f), p, q, F)
         /\ Combines(h, w, Multiply2(h, p, q, s, unset, f), p, q, F)
<1> DEFINE real  == MakeReal(h, s)
           cells == Product(CellsOf(h, p), CellsOf(h, q))
           wrong(name) == Throw(h, Sym(name), Text("not a number"), f)
<1>1. Sound(h, w) /\ IsFrame(h, f)
  BY SafeFacts
<1>2. Yields(h, w, real, F) /\ Yields(h, w, AddIntegers(h, p, q), F) /\ Yields(h, w, Acquire(h, cells), F)
  BY <1>1, MakeRealMade, AcquireMade, MadeYields DEF AddIntegers
<1>3. \A name : Yields(h, w, wrong(name), F)
  BY <1>1, ThrowMade, MadeYields
<1> HIDE DEF real, wrong
<1>4. /\ Yields(h, w, AddIntegerRatio(h, p, q, unset), F)
      /\ Yields(h, w, AddIntegerRatio(h, q, p, unset), F)
      /\ Yields(h, w, MultiplyIntegerRatio(h, p, q, unset), F)
      /\ Yields(h, w, MultiplyIntegerRatio(h, q, p, unset), F)
  BY IntegerAndRatio
<1>5. /\ Yields(h, w, AddRatioRatio(h, p, q, unset), F)
      /\ Yields(h, w, MultiplyRatioRatio(h, p, q, unset), F)
  BY AddRatioRatioYields, MultiplyRatioRatioYields
<1>6. Add2(h, p, q, s, unset, f) \in
        {Answer(h, p), Answer(h, q), real, AddIntegers(h, p, q), AddIntegerRatio(h, p, q, unset),
         AddIntegerRatio(h, q, p, unset), AddRatioRatio(h, p, q, unset), wrong("+")}
  BY DEF Add2, NotANumber, wrong, real
<1>7. Multiply2(h, p, q, s, unset, f) \in
        {Answer(h, p), Answer(h, q), real, Acquire(h, cells), MultiplyIntegerRatio(h, p, q, unset),
         MultiplyIntegerRatio(h, q, p, unset), MultiplyRatioRatio(h, p, q, unset), wrong("*")}
  BY DEF Multiply2, NotANumber, wrong, real
<1> HIDE DEF cells
<1>8. Combines(h, w, Add2(h, p, q, s, unset, f), p, q, F)
  BY <1>2, <1>3, <1>4, <1>5, <1>6 DEF Combines
<1>9. Combines(h, w, Multiply2(h, p, q, s, unset, f), p, q, F)
  BY <1>2, <1>3, <1>4, <1>5, <1>7 DEF Combines
<1>10. QED
  BY <1>8, <1>9

LEMMA Subtract2Gives ==
  ASSUME NEW h, NEW w, NEW F, Safe(h, w, F), NEW p, Value(h, p), NEW q, Value(h, q),
         NEW s, NEW unset, NEW f \in F
  PROVE  Gives(h, w, Subtract2(h, p, q, s, unset, f), F)
<1> DEFINE real  == MakeReal(h, s)
           wrong == Throw(h, Sym("-"), Text("not a number"), f)
           i     == Negative(h, q)
           ints  == AddIntegers(i.heap, p, i.ptr)
           a     == AsRatio(h, p)
           b     == AsRatio(h, q)
           left  == SubtractRatioRatio(a.heap, a.ptr, q, unset)
           right == SubtractRatioRatio(b.heap, p, b.ptr, unset)
<1>1. Sound(h, w) /\ w \in Ledger /\ IsFrame(h, f)
  BY SafeFacts
<1>2. Yields(h, w, real, F) /\ Yields(h, w, wrong, F)
  BY <1>1, MakeRealMade, ThrowMade, MadeYields
<1> HIDE DEF real, wrong
<1>3. Gives(h, w, ints, F)
  <2>1. Gives(h, w, i, F)
    BY NegativeYields
  <2> HIDE DEF i
  <2>2. Safe(i.heap, w, F) /\ Leaves(h, i.heap, F) /\ Sound(i.heap, w)
    BY <2>1, SafeFacts DEF Gives
  <2>3. Yields(i.heap, w, ints, F)
    BY <2>2, AcquireMade, MadeYields DEF AddIntegers
  <2> HIDE DEF ints
  <2>4. QED
    BY <1>1, <2>2, <2>3, YieldsGives, ThenYields
<1>4. ASSUME Kind(h, q) = "RTIO"
      PROVE  Yields(h, w, left, F)
  <2> DEFINE d == Divisor(a.heap, a.ptr)
             v == Plus(w, d)
             u == Plus(v, a.ptr)
  <2>1. Yields(h, v, a, F) /\ Value(a.heap, d) /\ Leaves(h, a.heap, DOMAIN h)
    BY AsRatioYields
  <2>2. v \in Ledger
    BY <1>1, LedgerFacts
  <2> HIDE DEF a, d
  <2>3. Value(a.heap, q) /\ Kind(a.heap, q) = "RTIO"
    BY <1>4, <2>1, KindKept
  <2>4. Safe(a.heap, u, F) /\ Leaves(h, a.heap, F) /\ Value(a.heap, a.ptr)
    BY <2>1 DEF Yields
  <2>5. Yields(a.heap, u, left, F)
    BY <2>3, <2>4, SubtractRatioRatioYields
  <2> HIDE DEF left
  <2>6. Yields(a.heap, v, left, F)
    BY <2>2, <2>4, <2>5, YieldsLess
  <2>7. Yields(a.heap, w, left, F)
    BY <1>1, <2>1, <2>6, YieldsLess
  <2>8. QED
    BY <2>4, <2>7, ThenYields
<1>5. Yields(h, w, right, F)
  <2> DEFINE d == Divisor(b.heap, b.ptr)
             v == Plus(w, d)
             u == Plus(v, b.ptr)
  <2>1. Yields(h, v, b, F) /\ Value(b.heap, d) /\ Kind(b.heap, b.ptr) = "RTIO"
    BY AsRatioYields
  <2>2. v \in Ledger
    BY <1>1, LedgerFacts
  <2> HIDE DEF b, d
  <2>3. Safe(b.heap, u, F) /\ Leaves(h, b.heap, F) /\ Value(b.heap, b.ptr)
    BY <2>1 DEF Yields
  <2>4. Yields(b.heap, u, right, F)
    BY <2>1, <2>3, SubtractRatioRatioYields
  <2> HIDE DEF right
  <2>5. Yields(b.heap, v, right, F)
    BY <2>2, <2>3, <2>4, YieldsLess
  <2>6. Yields(b.heap, w, right, F)
    BY <1>1, <2>1, <2>5, YieldsLess
  <2>7. QED
    BY <2>3, <2>6, ThenYields
<1>6. Kind(h, q) = "RTIO" => Yields(h, w, SubtractRatioRatio(h, p, q, unset), F)
  BY SubtractRatioRatioYields
<1>7. \/ Subtract2(h, p, q, s, unset, f) \in {real, wrong, ints, right}
      \/ /\ Kind(h, q) = "RTIO"
         /\ Subtract2(h, p, q, s, unset, f) \in {left, SubtractRatioRatio(h, p, q, unset)}
  BY DEF Subtract2, NotANumber, wrong, real
<1> HIDE DEF ints, left, right
<1>8. Gives(h, w, Subtract2(h, p, q, s, unset, f), F) \/ Yields(h, w, Subtract2(h, p, q, s, unset, f), F)
  BY <1>2, <1>3, <1>4, <1>5, <1>6, <1>7
<1>9. QED
  BY <1>1, <1>8, YieldsGives

LEMMA Divide2Gives ==
  ASSUME NEW h, NEW w, NEW F, Safe(h, w, F), NEW p, Value(h, p), NEW q, Value(h, q),
         NEW s, NEW unset, NEW f \in F
  PROVE  Gives(h, w, Divide2(h, p, q, s, unset, f), F)
<1> DEFINE real  == MakeReal(h, s)
           wrong == Throw(h, Sym("/"), Text("not a number"), f)
           a     == AsRatio(h, p)
           left  == DivideRatioRatio(a.heap, a.ptr, q, unset)
           right == DivideByWhole(p, AsRatio(h, q), unset)
<1>1. Sound(h, w) /\ w \in Ledger /\ IsFrame(h, f)
  BY SafeFacts
<1>2. Yields(h, w, real, F) /\ Yields(h, w, wrong, F)
  BY <1>1, MakeRealMade, ThrowMade, MadeYields
<1> HIDE DEF real, wrong
<1>3. Gives(h, w, MakeRatio(h, p, q, unset), F)
  BY MakeRatioGives
<1>4. ASSUME Kind(h, q) = "RTIO"
      PROVE  Yields(h, w, left, F)
  <2> DEFINE d == Divisor(a.heap, a.ptr)
             v == Plus(w, d)
             u == Plus(v, a.ptr)
  <2>1. Yields(h, v, a, F) /\ Value(a.heap, d) /\ Leaves(h, a.heap, DOMAIN h)
    BY AsRatioYields
  <2>2. v \in Ledger
    BY <1>1, LedgerFacts
  <2> HIDE DEF a, d
  <2>3. Value(a.heap, q) /\ Kind(a.heap, q) = "RTIO"
    BY <1>4, <2>1, KindKept
  <2>4. Safe(a.heap, u, F) /\ Leaves(h, a.heap, F) /\ Value(a.heap, a.ptr)
    BY <2>1 DEF Yields
  <2>5. Yields(a.heap, u, left, F)
    BY <2>3, <2>4, DivideRatioRatioYields
  <2> HIDE DEF left
  <2>6. Yields(a.heap, v, left, F)
    BY <2>2, <2>4, <2>5, YieldsLess
  <2>7. Yields(a.heap, w, left, F)
    BY <1>1, <2>1, <2>6, YieldsLess
  <2>8. QED
    BY <2>4, <2>7, ThenYields
<1>5. Yields(h, w, right, F)
  BY DivideByWholeYields
<1>6. Kind(h, q) = "RTIO" => Yields(h, w, DivideRatioRatio(h, p, q, unset), F)
  BY DivideRatioRatioYields
<1>7. \/ Divide2(h, p, q, s, unset, f) \in {real, wrong, MakeRatio(h, p, q, unset), right}
      \/ /\ Kind(h, q) = "RTIO"
         /\ Divide2(h, p, q, s, unset, f) \in {left, DivideRatioRatio(h, p, q, unset)}
  BY DEF Divide2, NotANumber, wrong, real
<1> HIDE DEF left, right
<1>8. Gives(h, w, Divide2(h, p, q, s, unset, f), F) \/ Yields(h, w, Divide2(h, p, q, s, unset, f), F)
  BY <1>2, <1>3, <1>4, <1>5, <1>6, <1>7
<1>9. QED
  BY <1>1, <1>8, YieldsGives

LEMMA AbsoluteGives ==
  ASSUME NEW h, NEW w, NEW F, Safe(h, w, F), NEW p, Value(h, p)
  PROVE  Gives(h, w, Absolute(h, p), F)
<1>1. Gives(h, w, Negative(h, p), F)
  BY NegativeYields
<1>2. Value(h, Nil)
  BY AtomsAre, AtomValue
<1>3. Gives(h, w, Answer(h, p), F) /\ Gives(h, w, Answer(h, Nil), F)
  BY <1>2, Unchanged
<1>4. Absolute(h, p) \in {Negative(h, p), Answer(h, p), Answer(h, Nil)}
  BY DEF Absolute
<1>5. QED
  BY <1>1, <1>3, <1>4

-----------------------------------------------------------------------------
(* make_stack_frame: its registers, one by one. *)
NextFilled(f, args, r, g) == SetReg(g, f, r, args[r])
Fills(h, f, args, N) ==
  CHOOSE fill : fill = [r \in 0 .. N |->
    IF r = 0 THEN Append(h, FrameCell(Bottom, 1)) ELSE SetReg(fill[r - 1], f, r, args[r])]

LEMMA FillsFacts ==
  ASSUME NEW h, NEW f, NEW args, NEW N \in Nat
  PROVE  LET F == Fills(h, f, args, N)
         IN  /\ F[0] = Append(h, FrameCell(Bottom, 1))
             /\ \A r \in 1 .. N : F[r] = NextFilled(f, args, r, F[r - 1])
<1> DEFINE start == Append(h, FrameCell(Bottom, 1))
           step(s, n) == NextFilled(f, args, n, s)
           stage(u, n) == IF n = 0 THEN start ELSE step(u[n - 1], n)
           P == {m \in 0 .. N : \E u : u = [n \in 0 .. m |-> stage(u, n)]}
           F == Fills(h, f, args, N)
<1>1. (\E u : u = [n \in 0 .. N |-> stage(u, n)]) => F = [n \in 0 .. N |-> stage(F, n)]
  BY DEF Fills, NextFilled
<1> HIDE DEF step, F
<1>2. 0 \in P
  <2> DEFINE u == [n \in 0 .. 0 |-> start]
  <2>1. u = [n \in 0 .. 0 |-> stage(u, n)]
    OBVIOUS
  <2> HIDE DEF u, stage
  <2>2. QED
    BY <2>1
<1>3. ASSUME NEW m \in 1 .. N, m - 1 \in P
      PROVE  m \in P
  <2>1. PICK u : u = [n \in 0 .. m - 1 |-> stage(u, n)]
    BY <1>3
  <2> DEFINE e == [n \in 0 .. m |-> IF n = m THEN step(u[m - 1], m) ELSE u[n]]
  <2>2. ASSUME NEW n \in 0 .. m
        PROVE  e[n] = stage(e, n)
    <3>1. CASE n = m
      <4>1. n # 0 /\ n - 1 \in 0 .. m /\ n - 1 # m
        BY <3>1
      <4>2. e[n - 1] = u[n - 1] /\ e[n] = step(u[m - 1], m)
        BY <3>1, <4>1
      <4> HIDE DEF e
      <4>3. QED
        BY <3>1, <4>1, <4>2
    <3>2. CASE n # m
      <4>1. n \in 0 .. m - 1 /\ (n # 0 => n - 1 \in 0 .. m - 1 /\ n - 1 \in 0 .. m /\ n - 1 # m)
        BY <3>2
      <4>2. e[n] = u[n] /\ (n # 0 => e[n - 1] = u[n - 1])
        BY <3>2, <4>1
      <4>3. u[n] = stage(u, n)
        <5> HIDE DEF stage
        <5>1. QED
          BY <2>1, <4>1
      <4> HIDE DEF e
      <4>4. QED
        BY <4>2, <4>3
    <3>3. QED
      BY <3>1, <3>2
  <2>3. e = [n \in 0 .. m |-> e[n]]
    OBVIOUS
  <2> HIDE DEF e, stage
  <2>4. e = [n \in 0 .. m |-> stage(e, n)]
    BY <2>2, <2>3
  <2>5. QED
    BY <2>4
<1> HIDE DEF P
<1>4. N \in P
  <2>1. \A m \in 0 .. N : m \in P
    BY <1>2, <1>3, UpTo
  <2>2. QED
    BY <2>1
<1>5. F = [n \in 0 .. N |-> stage(F, n)]
  BY <1>1, <1>4 DEF P
<1> HIDE DEF start
<1>6. F[0] = start /\ \A n \in 1 .. N : F[n] = step(F[n - 1], n)
  BY <1>5
<1>7. QED
  BY <1>6 DEF F, step, start

Filling(h, w, f, g) ==
  /\ Safe(g, Plus(w, Obj(f)), {Bottom, f}) /\ Leaves(h, g, {Bottom})

LEMMA FillsSafe ==
  ASSUME NEW h, NEW w, Safe(h, w, {Bottom}), NEW args, ValuesIn(h, args), NEW N \in 0 .. ArgsInFrame,
         N <= Len(args), w[Len(h) + 1] >= 0
  PROVE  Filling(h, w, Len(h) + 1, Fills(h, Len(h) + 1, args, N)[N]) /\ Len(h) + 1 \notin DOMAIN h
<1> DEFINE f == Len(h) + 1
           F == Fills(h, f, args, N)
           first == Append(h, FrameCell(Bottom, 1))
           P == {n \in 0 .. N : Filling(h, w, f, F[n])}
<1>1. /\ Sound(h, w) /\ Held(h, w, {Bottom}) /\ w \in Ledger /\ Bottom \in DOMAIN h /\ {Bottom} \subseteq Nat
      /\ HeapOK(h)
  BY SafeFacts
<1>2. Framed(h, w, first, f, Bottom, 1)
  <2>1. Bottom \in Nat /\ 1 \in Nat
    BY DEF Bottom
  <2>2. QED
    BY <1>1, <2>1, FrameSound
<1>3. f \in Nat
  BY <1>1, HeapFacts
<1>4. N \in Nat /\ ArgsInFrame \in Nat
  BY WidthFacts
<1>5. F[0] = first /\ \A r \in 1 .. N : F[r] = NextFilled(f, args, r, F[r - 1])
  BY <1>4, FillsFacts
<1>w. w[f] >= 0
  OBVIOUS
<1> HIDE DEF F, first, f
<1>6. /\ Sound(first, Plus(w, Obj(f))) /\ Leaves(h, first, DOMAIN h) /\ f \notin DOMAIN h
      /\ f \in DOMAIN first /\ first[f].kind = "FRAME" /\ ~first[f].free
  BY <1>2 DEF Framed, IsNew
<1>7. Bottom # f
  BY <1>1, <1>6
<1>8. \A i \in Nat : Plus(w, Obj(f))[i] = w[i] + Is(Obj(f), i)
  BY <1>1, LedgerFacts
<1>9. Filling(h, w, f, first)
  <2>1. Leaves(h, first, {Bottom})
    BY <1>1, <1>6, LeavesFacts
  <2>2. Held(first, w, {Bottom})
    BY <1>1, <2>1, HeldOn
  <2>3. Is(Obj(f), Bottom) = 0 /\ Is(Obj(f), f) = 1
    BY <1>7, ObjFacts DEF Is
  <2>4. w[Bottom] \in Int /\ w[f] \in Int /\ w[Bottom] > 0
    BY <1>1, <1>3 DEF Ledger, Held
  <2>5. Plus(w, Obj(f))[Bottom] > 0
    <3>1. Plus(w, Obj(f))[Bottom] = w[Bottom] + 0
      BY <1>1, <1>8, <2>3
    <3>2. QED
      BY <2>4, <3>1
  <2>6. Plus(w, Obj(f))[f] > 0
    <3>1. Plus(w, Obj(f)) \in Ledger /\ Plus(w, Obj(f))[f] = w[f] + 1
      BY <1>1, <1>3, <1>8, <2>3, LedgerFacts
    <3>2. QED
      BY <2>4, <3>1, <1>w
  <2>7. Held(first, Plus(w, Obj(f)), {Bottom, f})
    BY <1>6, <2>2, <2>5, <2>6 DEF Held
  <2>8. QED
    BY <1>6, <2>1, <2>7 DEF Filling, Safe
<1>10. ASSUME NEW r \in 1 .. N, r - 1 \in P
      PROVE  r \in P
  <2> DEFINE g == F[r - 1]
             v == Plus(w, Obj(f))
             H == {Bottom, f}
             k == SetReg(g, f, r, args[r])
  <2>1. Filling(h, w, f, g)
    BY <1>10
  <2>2. F[r] = k
    BY <1>5 DEF NextFilled
  <2> HIDE DEF g
  <2>3. Safe(g, v, H) /\ Leaves(h, g, {Bottom})
    BY <2>1 DEF Filling
  <2>4. r \in DOMAIN args /\ r \in 1 .. ArgsInFrame + 1
    <3>1. Len(args) \in Nat /\ DOMAIN args = 1 .. Len(args)
      BY SequenceFacts DEF ValuesIn
    <3>2. QED
      BY <1>4, <3>1
  <2>5. Value(g, args[r])
    BY <2>3, <2>4, GrowsValue DEF ValuesIn, Leaves
  <2>6. Sound(g, v) /\ Held(g, v, H) /\ f \in H
    BY <2>3, SafeFacts
  <2> DEFINE a == IF r - 1 = g[f].args THEN r ELSE g[f].args
  <2>7. Rewrites(g, k, v, H, f, a)
    <3> HIDE DEF H, k, v
    <3>1. Rewrites(g, SetReg(g, f, r, args[r]), v, H, f, IF r - 1 = g[f].args THEN r ELSE g[f].args)
      BY <2>4, <2>5, <2>6, SetRegSound
    <3>2. QED
      BY <3>1 DEF k
  <2> HIDE DEF k, a
  <2>8. Sound(k, v) /\ Held(k, v, H) /\ Leaves(g, k, H \ {f})
    BY <2>7 DEF Rewrites
  <2>9. {Bottom} \subseteq H \ {f}
    BY <1>7
  <2>10. Leaves(h, k, {Bottom})
    BY <2>3, <2>8, <2>9, LeavesFacts
  <2>11. Filling(h, w, f, k)
    BY <2>8, <2>10 DEF Filling, Safe
  <2>12. QED
    BY <2>2, <2>11
<1>11. 0 \in P
  BY <1>4, <1>5, <1>9
<1>12. \A r \in 0 .. N : r \in P
  <2> HIDE DEF P
  <2>1. QED
    BY <1>4, <1>10, <1>11, UpTo
<1>13. N \in 0 .. N
  BY <1>4
<1>14. Filling(h, w, f, F[N]) /\ f \notin DOMAIN h
  BY <1>6, <1>12, <1>13
<1>15. QED
  BY <1>14 DEF f, F

(* What does not fit the registers is put into a list. *)
LEMMA KeepMoreFilling ==
  ASSUME NEW h, NEW w \in Ledger, NEW f, f # Bottom, NEW g, Filling(h, w, f, g),
         NEW more, Got(g, Plus(w, Obj(f)), more, DOMAIN g)
  PROVE  Filling(h, w, f, KeepMore(f, more))
<1> DEFINE v == Plus(w, Obj(f))
           H == {Bottom, f}
           k == more.heap
           r == ArgsInFrame + 1
           p == k[f].part[r]
           n == PartSet(k, f, r, more.ptr)
           e == IncRef(n, more.ptr)
<1>1. Safe(g, v, H) /\ Leaves(h, g, {Bottom}) /\ H \subseteq DOMAIN g
  BY SafeFacts DEF Filling
<1>2. Sound(k, v) /\ Leaves(g, k, DOMAIN g) /\ Value(k, more.ptr)
  BY DEF Got
<1>3. Leaves(g, k, H) /\ v \in Ledger
  BY <1>1, <1>2, LeavesFacts, SafeFacts
<1>4. Safe(k, v, H) /\ HeapOK(k)
  BY <1>1, <1>2, <1>3, SafeOn, SafeFacts
<1>5. Held(k, v, H) /\ f \in H /\ r \in 1 .. ArgsInFrame + 1
  BY <1>4, WidthFacts DEF Safe
<1>6. KeepMore(f, more) = e
  BY DEF KeepMore, PartSet
<1>7. f \in DOMAIN k /\ CellOK(k[f]) /\ k[f].args \in Nat /\ Value(k, p)
  BY <1>2, <1>4, <1>5, HeldFacts, HeapFacts
<1>8. Written(k, n, f, r, more.ptr, k[f].args)
  BY <1>7, PartSetFacts DEF Written
<1> HIDE DEF v, H, k, r, p, n
<1>9. Rewrites(k, IncRef(n, more.ptr), Plus(v, k[f].part[r]), H, f, k[f].args)
  BY <1>2, <1>5, <1>7, <1>8, RewriteSound DEF r
<1>10. /\ Sound(e, Plus(v, p)) /\ Held(e, Plus(v, p), H) /\ Leaves(k, e, H \ {f})
  BY <1>9 DEF Rewrites, p
<1> HIDE DEF e
<1>11. Value(e, p)
  BY <1>7, <1>10, GrowsValue DEF Leaves
<1>12. Safe(e, v, H)
  BY <1>3, <1>10, <1>11, SafeNoMore DEF Safe
<1>13. {Bottom} \subseteq H \ {f} /\ {Bottom} \subseteq H
  BY DEF H
<1>14. Leaves(h, e, {Bottom})
  BY <1>1, <1>3, <1>10, <1>13, LeavesFacts
<1>15. Filling(h, w, f, e)
  BY <1>12, <1>14 DEF Filling, v, H
<1>16. QED
  BY <1>6, <1>15

LEMMA NewFrameFilling ==
  ASSUME NEW h, NEW w, Safe(h, w, {Bottom}), NEW args, ValuesIn(h, args), w[Len(h) + 1] >= 0
  PROVE  Filling(h, w, Len(h) + 1, NewFrame(h, args)) /\ Len(h) + 1 \notin DOMAIN h
<1> DEFINE f == Len(h) + 1
           N == IF Len(args) < ArgsInFrame THEN Len(args) ELSE ArgsInFrame
           g == Fills(h, f, args, N)[N]
           backwards == [i \in 1 .. Len(args) - N |-> args[Len(args) + 1 - i]]
           more == ConsAll(g, backwards, Nil)
<1>1. Len(args) \in Nat /\ DOMAIN args = 1 .. Len(args) /\ ArgsInFrame \in Nat
  BY SequenceFacts, WidthFacts DEF ValuesIn
<1>2. N \in 0 .. ArgsInFrame /\ N <= Len(args) /\ N \in Nat
  BY <1>1
<1>3. NewFrame(h, args) = KeepMore(f, more)
  BY DEF NewFrame, Fills
<1> HIDE DEF N
<1>4. Filling(h, w, f, g) /\ f \notin DOMAIN h
  BY <1>2, FillsSafe
<1> HIDE DEF g
<1>5. w \in Ledger /\ Bottom \in DOMAIN h
  BY SafeFacts
<1>6. /\ Safe(g, Plus(w, Obj(f)), {Bottom, f}) /\ Leaves(h, g, {Bottom}) /\ Sound(g, Plus(w, Obj(f)))
  BY <1>4, SafeFacts DEF Filling
<1>7. ValuesIn(g, args) /\ Value(g, Nil)
  BY <1>6, ValuesGrow, AtomsAre, AtomValue DEF Leaves
<1>8. ValuesIn(g, backwards)
  <2>1. Len(args) - N \in Nat
    BY <1>1, <1>2
  <2>2. backwards = [i \in 1 .. Len(args) - N |-> backwards[i]] /\ DOMAIN backwards = 1 .. Len(args) - N
    OBVIOUS
  <2>3. IsSequence(backwards)
    <3> HIDE DEF backwards
    <3>1. QED
      BY <2>1, <2>2, MadeSequence
  <2>4. \A i \in 1 .. Len(args) - N : Len(args) + 1 - i \in DOMAIN args
    BY <1>1, <1>2
  <2>5. \A i \in DOMAIN backwards : Value(g, backwards[i])
    BY <1>7, <2>2, <2>4 DEF ValuesIn
  <2>6. QED
    BY <2>3, <2>5 DEF ValuesIn
<1> HIDE DEF backwards
<1>9. Got(g, Plus(w, Obj(f)), more, DOMAIN g)
  BY <1>6, <1>7, <1>8, ConsAllGot
<1> HIDE DEF more, f
<1>10. f # Bottom
  BY <1>4, <1>5
<1>11. Filling(h, w, f, KeepMore(f, more))
  BY <1>4, <1>5, <1>9, <1>10, KeepMoreFilling
<1>12. QED
  BY <1>3, <1>4, <1>11 DEF f

-----------------------------------------------------------------------------
(* The names, and the frame at the bottom, have claims. *)
NamedBy(e)  == [i \in Nat |-> Cardinality({n \in Names : e[n] = Obj(i)})]
ClaimsOf(e) == Plus(NamedBy(e), Obj(Bottom))

LEMMA NamedFacts ==
  ASSUME NEW e
  PROVE  /\ NamedBy(e) \in Ledger /\ ClaimsOf(e) \in Ledger
         /\ \A i \in Nat : /\ NamedBy(e)[i] >= 0 /\ NamedBy(e)[i] \in Nat
                           /\ ClaimsOf(e)[i] >= NamedBy(e)[i] /\ ClaimsOf(e)[i] \in Int
                           /\ ClaimsOf(e)[i] = NamedBy(e)[i] + Is(Obj(Bottom), i)
         /\ Bottom \in Nat /\ ClaimsOf(e)[Bottom] > 0
<1>1. \A i \in Nat : NamedBy(e)[i] \in Nat
  <2> TAKE i \in Nat
  <2>1. IsFiniteSet({n \in Names : e[n] = Obj(i)})
    BY FS_Subset
  <2>2. QED
    BY <2>1, FS_CardinalityType DEF NamedBy
<1>2. NamedBy(e) \in Ledger
  BY <1>1 DEF NamedBy, Ledger
<1>3. /\ ClaimsOf(e) \in Ledger
      /\ \A i \in Nat : ClaimsOf(e)[i] = NamedBy(e)[i] + Is(Obj(Bottom), i)
  BY <1>2, LedgerFacts DEF ClaimsOf
<1>4. \A i : Is(Obj(Bottom), i) \in {0, 1}
  BY DEF Is
<1>5. Is(Obj(Bottom), Bottom) = 1 /\ Bottom \in Nat
  BY DEF Is, Bottom
<1>6. \A i \in Nat : NamedBy(e)[i] >= 0 /\ ClaimsOf(e)[i] >= NamedBy(e)[i] /\ ClaimsOf(e)[i] \in Int
  BY <1>1, <1>3, <1>4
<1>7. ClaimsOf(e)[Bottom] > 0
  BY <1>1, <1>3, <1>5
<1>8. QED
  BY <1>1, <1>2, <1>3, <1>5, <1>6, <1>7

LEMMA NamedAgain ==
  ASSUME NEW e, DOMAIN e = Names, NEW n \in Names, NEW v, NEW i \in Nat
  PROVE  NamedBy([e EXCEPT ![n] = v])[i] <= NamedBy(e)[i] + Is(v, i)
<1> DEFINE d == [e EXCEPT ![n] = v]
           A == {m \in Names : e[m] = Obj(i)}
           B == {m \in Names : d[m] = Obj(i)}
<1>1. IsFiniteSet(A) /\ IsFiniteSet(B)
  BY FS_Subset
<1>2. NamedBy(d)[i] = Cardinality(B) /\ NamedBy(e)[i] = Cardinality(A)
  BY DEF NamedBy
<1>3. d[n] = v /\ \A m \in Names : m # n => d[m] = e[m]
  OBVIOUS
<1>4. CASE v = Obj(i)
  <2>1. B \subseteq A \cup {n}
    BY <1>3
  <2> HIDE DEF A, B
  <2>2. IsFiniteSet(A \cup {n}) /\ Cardinality(A \cup {n}) <= Cardinality(A) + 1
    <3>1. /\ IsFiniteSet(A \cup {n})
          /\ Cardinality(A \cup {n}) = IF n \in A THEN Cardinality(A) ELSE Cardinality(A) + 1
      BY <1>1, FS_AddElement
    <3>2. Cardinality(A) \in Nat
      BY <1>1, FS_CardinalityType
    <3>3. QED
      BY <3>1, <3>2
  <2>3. Cardinality(B) <= Cardinality(A \cup {n})
    BY <2>1, <2>2, FS_Subset
  <2>4. Cardinality(A) \in Nat /\ Cardinality(B) \in Nat /\ Cardinality(A \cup {n}) \in Nat
    BY <1>1, <2>2, FS_CardinalityType
  <2>5. Is(v, i) = 1
    BY <1>4 DEF Is
  <2>6. QED
    BY <1>2, <2>2, <2>3, <2>4, <2>5
<1>5. CASE v # Obj(i)
  <2>1. B \subseteq A
    BY <1>3, <1>5
  <2> HIDE DEF A, B
  <2>2. Cardinality(B) <= Cardinality(A)
    BY <1>1, <2>1, FS_Subset
  <2>3. Is(v, i) = 0 /\ Cardinality(A) \in Nat /\ Cardinality(B) \in Nat
    BY <1>1, <1>5, FS_CardinalityType DEF Is
  <2>4. QED
    BY <1>2, <2>2, <2>3
<1>6. QED
  BY <1>4, <1>5

(* A name is bound to something that has one more claim. *)
LEMMA Rebound ==
  ASSUME NEW h, NEW e, DOMAIN e = Names, \A m \in Names : Value(h, e[m]),
         NEW n \in Names, NEW v, Value(h, v), Safe(h, Plus(ClaimsOf(e), v), {Bottom})
  PROVE  Safe(h, ClaimsOf([e EXCEPT ![n] = v]), {Bottom})
<1> DEFINE d == [e EXCEPT ![n] = v]
<1>1. /\ Sound(h, Plus(ClaimsOf(e), v)) /\ Held(h, Plus(ClaimsOf(e), v), {Bottom})
  BY SafeFacts
<1>2. \A m \in Names : Value(h, e[m]) /\ Value(h, d[m])
  OBVIOUS
<1>3. \A i \in Nat : NamedBy(d)[i] <= NamedBy(e)[i] + Is(v, i)
  BY NamedAgain
<1> HIDE DEF d
<1>4. /\ ClaimsOf(d) \in Ledger /\ ClaimsOf(e) \in Ledger /\ ClaimsOf(d)[Bottom] > 0
      /\ \A i \in Nat : /\ NamedBy(d)[i] \in Nat /\ NamedBy(e)[i] \in Nat
                        /\ ClaimsOf(d)[i] = NamedBy(d)[i] + Is(Obj(Bottom), i)
                        /\ ClaimsOf(e)[i] = NamedBy(e)[i] + Is(Obj(Bottom), i)
  BY NamedFacts
<1>5. \A i \in Nat : Plus(ClaimsOf(e), v)[i] = ClaimsOf(e)[i] + Is(v, i)
  BY <1>4, LedgerFacts
<1>6. \A i, p : Is(p, i) \in {0, 1}
  BY DEF Is
<1>7. \A i \in Nat : ClaimsOf(d)[i] <= Plus(ClaimsOf(e), v)[i]
  BY <1>3, <1>4, <1>5, <1>6
<1>8. ASSUME NEW i \in Nat, i \notin DOMAIN h \/ h[i].kind = "FRAME"
       PROVE  ClaimsOf(d)[i] = Plus(ClaimsOf(e), v)[i]
  <2>1. \A p : Value(h, p) => p # Obj(i)
    BY <1>8, ObjFacts DEF Value, Points
  <2>2. {m \in Names : e[m] = Obj(i)} = {} /\ {m \in Names : d[m] = Obj(i)} = {}
    BY <1>2, <2>1
  <2>3. NamedBy(e)[i] = 0 /\ NamedBy(d)[i] = 0 /\ Is(v, i) = 0
    BY <2>1, <2>2, FS_EmptySet DEF NamedBy, Is
  <2>4. Is(Obj(Bottom), i) \in {0, 1}
    BY <1>6
  <2>5. QED
    BY <1>4, <1>5, <2>3, <2>4
<1>9. Fewer(h, ClaimsOf(d), Plus(ClaimsOf(e), v))
  BY <1>7, <1>8 DEF Fewer
<1>10. Sound(h, ClaimsOf(d))
  BY <1>1, <1>4, <1>9, Weaken
<1>11. Held(h, ClaimsOf(d), {Bottom})
  BY <1>1, <1>4 DEF Held
<1>12. QED
  BY <1>10, <1>11 DEF Safe, d

-----------------------------------------------------------------------------
(* Calls.  What is claimed besides, while a function is called: its frame, and
   a sum or a product that is not one of the arguments.                    *)
Calling(op, frame, args, todo, result, operands) ==
  [op |-> op, frame |-> frame, args |-> args, todo |-> todo, result |-> result,
   operands |-> operands]

Elements(s) == {s[i] : i \in DOMAIN s}
Unless(p, S) == IF p \in S THEN Nil ELSE p
Own(op, args, result) == IF op \in Several THEN Unless(result, Elements(args)) ELSE Nil

Calls(h, w, c) ==
  /\ c = Calling(c.op, c.frame, c.args, c.todo, c.result, c.operands)
  /\ c.op \in Several \cup Two \cup One
  /\ c.frame # Bottom
  /\ Safe(h, Plus(Plus(w, Obj(c.frame)), Own(c.op, c.args, c.result)), {Bottom, c.frame})
  /\ ValuesIn(h, c.args) /\ IsSequence(c.todo) /\ Elements(c.todo) \subseteq Elements(c.args)
  /\ Value(h, c.result)

Bindings(h, e) == DOMAIN e = Names /\ \A n \in Names : Value(h, e[n])

NInv ==
  /\ Bindings(heap, env)
  /\ IF call = Idle THEN Safe(heap, ClaimsOf(env), {Bottom})
     ELSE Calls(heap, ClaimsOf(env), call)

LEMMA CallingFacts ==
  ASSUME NEW op, NEW frame, NEW args, NEW todo, NEW result, NEW operands
  PROVE  LET c == Calling(op, frame, args, todo, result, operands)
         IN  /\ c.op = op /\ c.frame = frame /\ c.args = args /\ c.todo = todo
             /\ c.result = result /\ c.operands = operands
BY DEF Calling

LEMMA CallsOf ==
  ASSUME NEW h, NEW w, NEW op \in Several \cup Two \cup One, NEW frame, frame # Bottom,
         NEW args, ValuesIn(h, args), NEW todo, IsSequence(todo), Elements(todo) \subseteq Elements(args),
         NEW result, Value(h, result), NEW operands,
         Safe(h, Plus(Plus(w, Obj(frame)), Own(op, args, result)), {Bottom, frame})
  PROVE  /\ Calls(h, w, Calling(op, frame, args, todo, result, operands))
         /\ Calling(op, frame, args, todo, result, operands) # Idle
<1> DEFINE c == Calling(op, frame, args, todo, result, operands)
<1>1. /\ c.op = op /\ c.frame = frame /\ c.args = args /\ c.todo = todo
      /\ c.result = result /\ c.operands = operands
  BY CallingFacts
<1> HIDE DEF c
<1>2. c = Calling(c.op, c.frame, c.args, c.todo, c.result, c.operands)
  BY <1>1 DEF c
<1>3. Calls(h, w, c)
  BY <1>1, <1>2 DEF Calls
<1>4. Idle.op = "none" /\ "none" \notin Several \cup Two \cup One
  BY DEF Idle, Several, Two, One
<1>5. c # Idle
  BY <1>1, <1>4
<1>6. QED
  BY <1>3, <1>5 DEF c

LEMMA BindingsOn ==
  ASSUME NEW h, NEW g, Grows(h, g), NEW e, Bindings(h, e)
  PROVE  Bindings(g, e)
BY GrowsValue DEF Bindings

LEMMA ElementsValues ==
  ASSUME NEW h, NEW s, ValuesIn(h, s), NEW p \in Elements(s)
  PROVE  Value(h, p)
BY DEF Elements, ValuesIn

LEMMA UnlessValue ==
  ASSUME NEW h, NEW p, Value(h, p), NEW S, NEW op, NEW args
  PROVE  Value(h, Unless(p, S)) /\ Value(h, Own(op, args, p))
BY AtomsAre, AtomValue DEF Unless, Own

LEMMA NilClaim == \A w \in Ledger : Plus(w, Nil) = w
BY AtomsAre, AtomLedger DEF IsAtom

(* A claim that is not needed: the argument has one. *)
LEMMA OwnedUnless ==
  ASSUME NEW h, NEW w \in Ledger, NEW p, Value(h, p), NEW F, Safe(h, Plus(w, p), F), NEW S
  PROVE  Safe(h, Plus(w, Unless(p, S)), F)
<1>1. Safe(h, w, F)
  BY SafeNoMore
<1>2. Plus(w, Nil) = w
  BY NilClaim
<1>3. QED
  BY <1>1, <1>2 DEF Unless

(* lisp_add and lisp_multiply: what was the result is given up for the next. *)
LEMMA Accumulates ==
  ASSUME NEW h, NEW w \in Ledger, NEW S, NEW p, Value(h, p), NEW q \in S, Value(h, q),
         NEW F, Safe(h, Plus(w, Unless(p, S)), F),
         NEW r, Combines(h, Plus(w, Unless(p, S)), r, p, q, F),
         NEW g, g = IF r.ptr = p THEN r.heap
                    ELSE IF p \in S THEN GiveUp(r.heap, p) ELSE DecRef(r.heap, p)
  PROVE  /\ Safe(g, Plus(w, Unless(r.ptr, S)), F) /\ Grows(h, g) /\ Value(g, r.ptr)
<1> DEFINE v == Plus(w, Unless(p, S))
<1>1. /\ v \in Ledger /\ Plus(w, Nil) = w /\ Leaves(h, h, F)
      /\ Value(h, Unless(p, S))
  <2>1. v \in Ledger
    BY LedgerFacts
  <2>2. F \subseteq DOMAIN h
    BY SafeFacts
  <2>3. QED
    BY <2>1, <2>2, NilClaim, LeavesFacts, UnlessValue
<1>2. CASE r = Answer(h, p)
  <2>1. r.heap = h /\ r.ptr = p /\ g = h
    BY <1>2 DEF Answer
  <2>2. QED
    BY <1>1, <2>1 DEF Leaves
<1>3. CASE r = Answer(h, q) /\ q # p
  <2>1. r.heap = h /\ r.ptr = q /\ g = IF p \in S THEN GiveUp(h, p) ELSE DecRef(h, p)
    BY <1>3 DEF Answer
  <2>2. Safe(g, w, F) /\ Leaves(h, g, F)
    <3>1. CASE p \in S
      <4>1. Safe(h, w, F) /\ g = GiveUp(h, p)
        BY <1>1, <2>1, <3>1 DEF Unless
      <4>2. QED
        BY <4>1, SafeGiveUp
    <3>2. CASE p \notin S
      <4>1. Safe(h, Plus(w, p), F) /\ g = DecRef(h, p)
        BY <2>1, <3>2 DEF Unless
      <4>2. QED
        BY <4>1, SafeDecRef
    <3>3. QED
      BY <3>1, <3>2
  <2>3. Unless(r.ptr, S) = Nil
    BY <2>1 DEF Unless
  <2>4. Value(g, q) /\ Grows(h, g)
    BY <2>2, GrowsValue DEF Leaves
  <2>5. QED
    BY <1>1, <2>1, <2>2, <2>3, <2>4
<1>4. CASE Yields(h, v, r, F) /\ (r.ptr = p \/ p \in S)
  <2>1. Yields(h, w, r, F)
    BY <1>1, <1>4, YieldsLess
  <2>2. Safe(r.heap, Plus(w, r.ptr), F) /\ Leaves(h, r.heap, F) /\ Value(r.heap, r.ptr)
    BY <2>1 DEF Yields
  <2>3. Value(r.heap, p) /\ Grows(h, r.heap)
    BY <2>2, GrowsValue DEF Leaves
  <2>4. Safe(g, Plus(w, r.ptr), F) /\ Leaves(h, g, F)
    <3>1. CASE r.ptr = p
      BY <2>2, <3>1
    <3>2. CASE r.ptr # p
      <4>1. g = GiveUp(r.heap, p)
        BY <1>4, <3>2
      <4>2. Safe(g, Plus(w, r.ptr), F) /\ Leaves(r.heap, g, F)
        BY <2>2, <2>3, <4>1, SafeGiveUp
      <4>3. QED
        BY <2>2, <4>2, LeavesFacts
    <3>3. QED
      BY <3>1, <3>2
  <2>5. Value(g, r.ptr) /\ Grows(h, g)
    <3>1. CASE r.ptr = p
      BY <2>2, <2>3, <3>1
    <3>2. CASE r.ptr # p
      <4>1. g = GiveUp(r.heap, p)
        BY <1>4, <3>2
      <4>2. Leaves(r.heap, g, F)
        BY <2>2, <2>3, <4>1, SafeGiveUp
      <4>3. QED
        BY <2>2, <2>4, <4>2, GrowsValue DEF Leaves
    <3>3. QED
      BY <3>1, <3>2
  <2>6. QED
    BY <2>4, <2>5, OwnedUnless
<1>5. CASE Yields(h, v, r, F) /\ r.ptr # p /\ p \notin S
  <2>1. v = Plus(w, p) /\ g = DecRef(r.heap, p)
    BY <1>5 DEF Unless
  <2>2. Yields(h, w, After(r, p), F)
    BY <1>5, <2>1, YieldsAfter
  <2>3. After(r, p).heap = g /\ After(r, p).ptr = r.ptr
    BY <2>1 DEF After, Answer
  <2>4. Safe(g, Plus(w, r.ptr), F) /\ Leaves(h, g, F) /\ Value(g, r.ptr)
    BY <2>2, <2>3 DEF Yields
  <2>5. QED
    BY <2>4, OwnedUnless DEF Leaves
<1>6. QED
  BY <1>2, <1>3, <1>4, <1>5 DEF Combines, Answer

(* What lisp_add goes through are arguments. *)
LEMMA SummedFacts ==
  ASSUME NEW args, IsSequence(args)
  PROVE  IsSequence(Summed(args)) /\ Elements(Summed(args)) \subseteq Elements(args)
<1> DEFINE S == Elements(args)
           L == Len(args)
           good(r) == \A i \in 1 .. r : i <= L /\ args[i] # Nil
           R == {r \in 1 .. ArgsInFrame : good(r)}
           count == CHOOSE n \in 0 .. ArgsInFrame : R = 1 .. n
           s == SubSeq(args, 1, count)
           t == SubSeq(args, ArgsInFrame + 1, L)
<1>1. L \in Nat /\ DOMAIN args = 1 .. L /\ ArgsInFrame \in Nat
  BY SequenceFacts, WidthFacts
<1>2. Summed(args) = s \o t
  BY DEF Summed
<1>3. \E n \in 0 .. ArgsInFrame : R = 1 .. n
  <2> DEFINE Bad == {r \in 1 .. ArgsInFrame + 1 : r \notin R}
  <2>1. Bad \in SUBSET Nat /\ ArgsInFrame + 1 \in Bad
    BY <1>1
  <2> HIDE DEF Bad
  <2>2. PICK x \in Bad : \A y \in Bad : x <= y
    BY <2>1, Least
  <2>3. x \in 1 .. ArgsInFrame + 1 /\ x \notin R
    BY <2>2 DEF Bad
  <2>4. ASSUME NEW r \in 1 .. x - 1
        PROVE  r \in R
    <3>1. r \in 1 .. ArgsInFrame + 1 /\ r \in Nat /\ ~(x <= r)
      BY <1>1, <2>3
    <3>2. r \notin Bad
      BY <2>2, <3>1
    <3>3. QED
      BY <3>1, <3>2 DEF Bad
  <2>5. ASSUME NEW r \in R
        PROVE  r \in 1 .. x - 1
    <3>1. r \in 1 .. ArgsInFrame /\ good(r)
      OBVIOUS
    <3>2. ~(x <= r)
      <4>1. ASSUME x <= r
            PROVE  FALSE
        <5>1. x \in 1 .. ArgsInFrame /\ \A i \in 1 .. x : i \in 1 .. r
          BY <1>1, <2>3, <3>1, <4>1
        <5>2. good(x)
          BY <3>1, <5>1
        <5>3. QED
          BY <2>3, <5>1, <5>2
      <4>2. QED
        BY <4>1
    <3>3. QED
      BY <1>1, <2>3, <3>1, <3>2
  <2> HIDE DEF R
  <2>6. R = 1 .. x - 1
    BY <2>4, <2>5
  <2>7. x - 1 \in 0 .. ArgsInFrame
    BY <1>1, <2>3
  <2>8. QED
    BY <2>6, <2>7
<1>4. count \in 0 .. ArgsInFrame /\ R = 1 .. count
  <2> HIDE DEF R
  <2>1. QED
    BY <1>3
<1>5. count \in Int /\ \A i \in 1 .. count : args[i] \in S
  <2>1. ASSUME NEW i \in 1 .. count
        PROVE  args[i] \in S
    <3>1. i \in R
      BY <1>4
    <3>2. i \in 1 .. ArgsInFrame /\ good(i)
      BY <3>1
    <3>3. i \in DOMAIN args
      <4>1. i <= L
        BY <1>1, <3>2
      <4>2. QED
        BY <1>1, <3>2, <4>1
    <3>4. QED
      BY <3>3 DEF Elements
  <2>2. count \in Int
    <3> HIDE DEF count
    <3>1. QED
      BY <1>1, <1>4
  <2> HIDE DEF count, S
  <2>3. QED
    BY <2>1, <2>2
<1> HIDE DEF count
<1>6. s \in Seq(S)
  BY <1>5, SubSeqProperties
<1>7. t \in Seq(S)
  <2>1. \A i \in ArgsInFrame + 1 .. L : args[i] \in S
    BY <1>1 DEF Elements
  <2>2. ArgsInFrame + 1 \in Int /\ L \in Int
    BY <1>1
  <2> HIDE DEF L, S
  <2>3. QED
    BY <2>1, <2>2, SubSeqProperties
<1> HIDE DEF s, t, S
<1>8. s \o t \in Seq(S)
  BY <1>6, <1>7, ConcatProperties
<1>9. ASSUME NEW u \in Seq(S)
      PROVE  IsSequence(u) /\ Elements(u) \subseteq S
  BY DEF IsSequence, Elements
<1>10. QED
  BY <1>2, <1>8, <1>9 DEF S

(* Every reading of a number gives a value. *)
LEMMA NumberOfGives ==
  ASSUME NEW h, NEW w, NEW F, Safe(h, w, F), NEW r, NEW minus, NEW s, NEW unset
  PROVE  Gives(h, w, NumberOf(h, r, minus, s, unset), F)
<1> DEFINE parts == AcquireBoth(h, r.dividend, r.cells)
           value == IF r.period THEN MakeReal(h, s)
                    ELSE IF r.dividend = <<>> THEN Acquire(h, r.cells) ELSE RatioOf(parts, unset)
           real  == MakeReal(h, s)
           int   == Acquire(h, r.cells)
           ratio == RatioOf(parts, unset)
<1>1. Sound(h, w) /\ w \in Ledger
  BY SafeFacts
<1>2. Yields(h, w, real, F) /\ Yields(h, w, int, F)
  BY <1>1, MakeRealMade, AcquireMade, MadeYields
<1>3. Yields(h, w, ratio, F)
  <2>1. Owns(w, parts, F) /\ Leaves(h, parts.heap, F)
    BY AcquireBothOwns
  <2> HIDE DEF parts
  <2>2. Yields(parts.heap, Plus(w, parts.divisor), ratio, F) /\ Value(parts.heap, parts.divisor)
    BY <1>1, <2>1, RatioOfYields DEF Owns
  <2> HIDE DEF ratio
  <2>3. Yields(parts.heap, w, ratio, F)
    BY <1>1, <2>2, YieldsLess
  <2>4. QED
    BY <2>1, <2>3, ThenYields
<1>4. value \in {real, int, ratio}
  OBVIOUS
<1>5. NumberOf(h, r, minus, s, unset) = IF minus THEN NegativeOf(value) ELSE value
  BY DEF NumberOf
<1> HIDE DEF value, real, int, ratio
<1>6. Gives(h, w, value, F)
  BY <1>1, <1>2, <1>3, <1>4, YieldsGives
<1>7. Gives(h, w, NegativeOf(value), F)
  <2>1. Safe(value.heap, w, F) /\ Leaves(h, value.heap, F) /\ Value(value.heap, value.ptr)
    BY <1>6 DEF Gives
  <2>2. Gives(value.heap, w, NegativeOf(value), F)
    BY <2>1, NegativeYields DEF NegativeOf
  <2>3. QED
    BY <2>1, <2>2, ThenYields
<1>8. QED
  BY <1>5, <1>6, <1>7

LEMMA ReadNumberGives ==
  ASSUME NEW h, NEW w, NEW F, Safe(h, w, F), NEW text, NEW s, NEW unset, NEW f \in F
  PROVE  Gives(h, w, ReadNumber(h, text, s, unset, f), F)
<1> DEFINE r == Scan(text.chars)
           wrong == Throw(h, Sym("read"), Text("malformed number"), f)
           value == NumberOf(h, r, text.minus, s, unset)
<1>1. Sound(h, w) /\ w \in Ledger /\ IsFrame(h, f)
  BY SafeFacts
<1>2. Gives(h, w, wrong, F)
  BY <1>1, ThrowMade, MadeYields, YieldsGives
<1> HIDE DEF r
<1>3. Gives(h, w, value, F)
  BY NumberOfGives
<1>4. ReadNumber(h, text, s, unset, f) \in {wrong, value}
  BY DEF ReadNumber, r
<1> HIDE DEF wrong, value
<1>5. QED
  BY <1>2, <1>3, <1>4

-----------------------------------------------------------------------------
(* One lemma for each action. *)
LEMMA InitKeeps == Init => NInv
<1> SUFFICES ASSUME Init
             PROVE  NInv
  OBVIOUS
<1> DEFINE z == [i \in Nat |-> 0]
           h == <<>>
           g == Append(h, FrameCell(0, 0))
<1>1. heap = <<FrameCell(0, 0)>> /\ env = [n \in Names |-> Nil] /\ call = Idle
  BY DEF Init
<1>2. IsSequence(h) /\ Len(h) = 0 /\ DOMAIN h = {}
  BY DEF IsSequence
<1>3. Sound(h, z)
  <2>1. z \in Ledger
    BY DEF Ledger
  <2>2. HeapOK(h) /\ Covered(h, z) /\ Tallied(h, z)
    BY <1>2 DEF HeapOK, Covered, Tallied
  <2>3. QED
    BY <2>1, <2>2 DEF Sound, Backed
<1>4. Framed(h, z, g, Len(h) + 1, 0, 0)
  BY <1>3, FrameSound
<1>5. Len(h) + 1 = Bottom
  BY <1>2 DEF Bottom
<1>6. /\ Sound(g, Plus(z, Obj(Bottom))) /\ Bottom \in DOMAIN g
      /\ g[Bottom].kind = "FRAME" /\ ~g[Bottom].free
  BY <1>4, <1>5 DEF Framed, IsNew
<1>7. NamedBy(env) = z
  <2>1. \A i : Nil # Obj(i)
    BY AtomsAre, ObjFacts DEF IsAtom
  <2>2. \A i : {n \in Names : env[n] = Obj(i)} = {}
    BY <1>1, <2>1
  <2>3. Cardinality({}) = 0
    BY FS_EmptySet
  <2>4. QED
    BY <2>2, <2>3 DEF NamedBy
<1>8. heap = g
  <2>1. Append(<<>>, FrameCell(0, 0)) = <<FrameCell(0, 0)>>
    OBVIOUS
  <2>2. QED
    BY <1>1, <2>1
<1> HIDE DEF g, z
<1>9. Sound(heap, ClaimsOf(env))
  BY <1>6, <1>7, <1>8 DEF ClaimsOf
<1>10. Held(heap, ClaimsOf(env), {Bottom})
  BY <1>6, <1>8, NamedFacts DEF Held
<1>11. Bindings(heap, env)
  BY <1>1, AtomsAre, AtomValue DEF Bindings
<1>12. QED
  BY <1>1, <1>9, <1>10, <1>11 DEF NInv, Safe

(* What is free of calls, and what is in one. *)
LEMMA IdleFacts ==
  ASSUME NInv, call = Idle
  PROVE  Bindings(heap, env) /\ Safe(heap, ClaimsOf(env), {Bottom})
BY DEF NInv

LEMMA GoingFacts ==
  ASSUME NInv, call # Idle
  PROVE  Bindings(heap, env) /\ Calls(heap, ClaimsOf(env), call)
BY DEF NInv

(* set! of a value to a name. *)
LEMMA BoundAgain ==
  ASSUME NEW h, NEW e, Bindings(h, e), NEW n \in Names, NEW v, Value(h, v),
         Safe(h, Plus(ClaimsOf(e), v), {Bottom})
  PROVE  /\ Bindings(h, [e EXCEPT ![n] = v])
         /\ Safe(h, ClaimsOf([e EXCEPT ![n] = v]), {Bottom})
<1>1. DOMAIN e = Names /\ \A m \in Names : Value(h, e[m])
  BY DEF Bindings
<1>2. Safe(h, ClaimsOf([e EXCEPT ![n] = v]), {Bottom})
  BY <1>1, Rebound
<1>3. Bindings(h, [e EXCEPT ![n] = v])
  BY <1>1 DEF Bindings
<1>4. QED
  BY <1>2, <1>3

LEMMA EnterStep ==
  ASSUME NInv, NEW n \in Names, NEW text, Enter(n, text)
  PROVE  NInv'
<1> DEFINE w == ClaimsOf(env)
<1>1. call = Idle /\ call' = Idle
  BY DEF Enter
<1>2. Bindings(heap, env) /\ Safe(heap, w, {Bottom}) /\ w \in Ledger
  BY <1>1, IdleFacts, SafeFacts
<1>3. PICK s \in Signs, unset \in Garbage :
        \E r \in {ReadNumber(heap, text, s, unset, Bottom)} :
          IF IsException(r.heap, r.ptr)
          THEN heap' = r.heap /\ calls' = calls + 1 /\ UNCHANGED env
          ELSE /\ heap' = IncRef(r.heap, r.ptr)
               /\ env' = [env EXCEPT ![n] = r.ptr]
               /\ UNCHANGED calls
  BY DEF Enter
<1> DEFINE r == ReadNumber(heap, text, s, unset, Bottom)
<1>4. \/ heap' = r.heap /\ env' = env
      \/ heap' = IncRef(r.heap, r.ptr) /\ env' = [env EXCEPT ![n] = r.ptr]
  BY <1>3
<1>5. Gives(heap, w, r, {Bottom})
  BY <1>2, ReadNumberGives
<1> HIDE DEF r
<1>6. Safe(r.heap, w, {Bottom}) /\ Grows(heap, r.heap) /\ Value(r.heap, r.ptr)
  BY <1>5 DEF Gives, Leaves
<1>7. Bindings(r.heap, env)
  BY <1>2, <1>6, BindingsOn
<1>8. CASE heap' = r.heap /\ env' = env
  BY <1>1, <1>6, <1>7, <1>8 DEF NInv
<1>9. CASE heap' = IncRef(r.heap, r.ptr) /\ env' = [env EXCEPT ![n] = r.ptr]
  <2> DEFINE g == IncRef(r.heap, r.ptr)
  <2>1. Safe(g, Plus(w, r.ptr), {Bottom}) /\ Grows(r.heap, g)
    BY <1>6, SafeIncRef DEF Leaves
  <2> HIDE DEF g
  <2>2. Bindings(g, env) /\ Value(g, r.ptr)
    BY <1>6, <1>7, <2>1, BindingsOn, GrowsValue
  <2>3. Bindings(g, env') /\ Safe(g, ClaimsOf(env'), {Bottom})
    BY <1>9, <2>1, <2>2, BoundAgain
  <2>4. QED
    BY <1>1, <1>9, <2>3 DEF NInv, g
<1>10. QED
  BY <1>4, <1>8, <1>9

LEMMA EnterTruthStep ==
  ASSUME NInv, NEW n \in Names, EnterTruth(n)
  PROVE  NInv'
<1> DEFINE w == ClaimsOf(env)
<1>1. call = Idle /\ call' = Idle /\ heap' = heap /\ env' = [env EXCEPT ![n] = T]
  BY DEF EnterTruth
<1>2. Bindings(heap, env) /\ Safe(heap, w, {Bottom}) /\ w \in Ledger
  BY <1>1, IdleFacts, SafeFacts
<1>3. Value(heap, T) /\ Plus(w, T) = w
  BY <1>2, AtomsAre, AtomValue, AtomLedger DEF IsAtom
<1>4. Bindings(heap, env') /\ Safe(heap, ClaimsOf(env'), {Bottom})
  BY <1>1, <1>2, <1>3, BoundAgain
<1>5. QED
  BY <1>1, <1>4 DEF NInv

(* The arguments of a call are values that names have. *)
LEMMA TuplesFacts ==
  ASSUME NEW N, NEW args \in Tuples(Values, N), NEW h, Bindings(h, env)
  PROVE  ValuesIn(h, args)
<1>1. PICK k \in 1 .. N : args \in [1 .. k -> Values]
  BY DEF Tuples
<1>2. k \in Nat /\ args = [i \in 1 .. k |-> args[i]]
  BY <1>1
<1>3. IsSequence(args) /\ DOMAIN args = 1 .. k
  BY <1>2, MadeSequence
<1>4. \A i \in 1 .. k : Value(h, args[i])
  BY <1>1 DEF Values, Bindings
<1>5. QED
  BY <1>3, <1>4 DEF ValuesIn

LEMMA BeginStep ==
  ASSUME NInv, NEW op \in Several \cup Two \cup One, NEW N, NEW args \in Tuples(Values, N), Begin(op, args)
  PROVE  NInv'
<1> DEFINE w    == ClaimsOf(env)
           f    == Len(heap) + 1
           v    == Plus(w, Obj(f))
           F    == {Bottom, f}
           g    == NewFrame(heap, args)
           r    == FirstResult(op, g)
           todo == IF op \in Several THEN Summed(args) ELSE args
           operands == [i \in DOMAIN args |-> Exact(heap, args[i])]
<1>1. call = Idle /\ env' = env
  BY DEF Begin
<1>2. Bindings(heap, env) /\ Safe(heap, w, {Bottom}) /\ w \in Ledger
  BY <1>1, IdleFacts, SafeFacts
<1>3. ValuesIn(heap, args)
  BY <1>2, TuplesFacts
<1>4. heap' = r.heap /\ call' = Calling(op, f, args, todo, r.ptr, operands)
  BY DEF Begin, Calling
<1>5. Filling(heap, w, f, g) /\ f \notin DOMAIN heap
  <2>1. Len(heap) + 1 \in Nat
    BY <1>2, SafeFacts, HeapFacts
  <2>2. w[Len(heap) + 1] >= 0
    <3>1. w[Len(heap) + 1] >= NamedBy(env)[Len(heap) + 1] /\ NamedBy(env)[Len(heap) + 1] \in Nat
          /\ w[Len(heap) + 1] \in Int
      BY <2>1, NamedFacts
    <3>2. QED
      BY <3>1
  <2> HIDE DEF w
  <2>3. QED
    BY <1>2, <1>3, <2>2, NewFrameFilling
<1>6. IsSequence(args)
  BY <1>3 DEF ValuesIn
<1>7. IsSequence(todo) /\ Elements(todo) \subseteq Elements(args)
  BY <1>6, SummedFacts
<1> HIDE DEF g, todo, operands
<1>8. Safe(g, v, F) /\ Grows(heap, g) /\ Sound(g, v) /\ v \in Ledger
  BY <1>5, SafeFacts DEF Filling, Leaves
<1>9. Bottom # f
  BY <1>2, <1>5, SafeFacts
<1> HIDE DEF w, v, F, f
<1>10. /\ Safe(r.heap, Plus(v, Own(op, args, r.ptr)), F) /\ Grows(g, r.heap) /\ Value(r.heap, r.ptr)
  <2>1. CASE op \in Several
    <3> DEFINE one == MakeInteger(g, <<IF op = "+" THEN 0 ELSE 1>>)
    <3>1. r = one /\ Own(op, args, r.ptr) = Unless(r.ptr, Elements(args))
      BY <2>1 DEF FirstResult, Own
    <3>2. Yields(g, v, one, F)
      BY <1>8, MakeIntegerMade, MadeYields
    <3> HIDE DEF one, r
    <3>3. Safe(r.heap, Plus(v, r.ptr), F) /\ Leaves(g, r.heap, F) /\ Value(r.heap, r.ptr)
      BY <3>1, <3>2 DEF Yields
    <3>4. Safe(r.heap, Plus(v, Unless(r.ptr, Elements(args))), F)
      BY <1>8, <3>3, OwnedUnless
    <3>5. QED
      BY <3>1, <3>3, <3>4 DEF Leaves
  <2>2. CASE op \notin Several
    <3>1. r = Answer(g, Nil) /\ Own(op, args, r.ptr) = Nil
      BY <2>2 DEF FirstResult, Own
    <3>2. r.heap = g /\ r.ptr = Nil
      BY <3>1 DEF Answer
    <3>3. Plus(v, Nil) = v /\ Value(g, Nil) /\ Grows(g, g)
      BY <1>8, NilClaim, AtomsAre, AtomValue DEF Grows
    <3> HIDE DEF r
    <3>4. QED
      BY <1>8, <3>1, <3>2, <3>3
  <2>3. QED
    BY <2>1, <2>2
<1> HIDE DEF r
<1>11. Grows(heap, r.heap)
  BY <1>8, <1>10 DEF Grows
<1>12. Bindings(r.heap, env) /\ ValuesIn(r.heap, args)
  BY <1>2, <1>3, <1>11, BindingsOn, ValuesGrow
<1>13. /\ Calls(r.heap, w, Calling(op, f, args, todo, r.ptr, operands))
       /\ Calling(op, f, args, todo, r.ptr, operands) # Idle
  <2>1. Safe(r.heap, Plus(Plus(w, Obj(f)), Own(op, args, r.ptr)), {Bottom, f})
    BY <1>10 DEF v, F
  <2>2. QED
    BY <1>7, <1>9, <1>10, <1>12, <2>1, CallsOf
<1>14. Bindings(heap', env') /\ Calls(heap', ClaimsOf(env'), call') /\ call' # Idle
  BY <1>1, <1>4, <1>12, <1>13 DEF w
<1>15. QED
  BY <1>14 DEF NInv

(* What is claimed during a call, but for its result. *)
InCall(e, c) == Plus(ClaimsOf(e), Obj(c.frame))

(* The call goes on with another result. *)
LEMMA ResultStep ==
  ASSUME NInv, call # Idle, NEW t, IsSequence(t), Elements(t) \subseteq Elements(call.args), NEW p,
         env' = env, Grows(heap, heap'), Value(heap', p),
         Safe(heap', Plus(InCall(env, call), Own(call.op, call.args, p)), {Bottom, call.frame}),
         call' = [call EXCEPT !.todo = t, !.result = p]
  PROVE  NInv'
<1> DEFINE d == Calling(call.op, call.frame, call.args, t, p, call.operands)
<1>1. Bindings(heap, env) /\ Calls(heap, ClaimsOf(env), call)
  BY GoingFacts
<1>2. /\ call = Calling(call.op, call.frame, call.args, call.todo, call.result, call.operands)
      /\ call.op \in Several \cup Two \cup One /\ call.frame # Bottom /\ ValuesIn(heap, call.args)
  BY <1>1 DEF Calls
<1>3. call' = d
  <2> DEFINE c == Calling(call.op, call.frame, call.args, call.todo, call.result, call.operands)
  <2>1. [c EXCEPT !.todo = t, !.result = p] = d
    <3> DEFINE k == Calling(call.op, call.frame, call.args, t, call.result, call.operands)
    <3>1. [c EXCEPT !.todo = t] = k
      BY DEF Calling
    <3>2. [k EXCEPT !.result = p] = d
      BY DEF Calling
    <3>3. [c EXCEPT !.todo = t, !.result = p] = [[c EXCEPT !.todo = t] EXCEPT !.result = p]
      BY DEF Calling
    <3> HIDE DEF c, d, k
    <3>4. QED
      BY <3>1, <3>2, <3>3
  <2>2. call = c
    BY <1>2
  <2> HIDE DEF c, d
  <2>3. [call EXCEPT !.todo = t, !.result = p] = [c EXCEPT !.todo = t, !.result = p]
    BY <2>2, Zenon
  <2>4. QED
    BY <2>1, <2>3
<1>4. Bindings(heap', env) /\ ValuesIn(heap', call.args)
  BY <1>1, <1>2, BindingsOn, ValuesGrow
<1>5. Calls(heap', ClaimsOf(env), d) /\ d # Idle
  BY <1>2, <1>4, CallsOf DEF InCall
<1> HIDE DEF d
<1>6. QED
  BY <1>3, <1>4, <1>5 DEF NInv

(* What a call has. *)
LEMMA CallHas ==
  ASSUME NInv, call # Idle
  PROVE  /\ InCall(env, call) \in Ledger
         /\ Safe(heap, Plus(InCall(env, call), Own(call.op, call.args, call.result)), {Bottom, call.frame})
         /\ Safe(heap, InCall(env, call), {Bottom, call.frame})
         /\ Value(heap, call.result) /\ ValuesIn(heap, call.args) /\ call.frame # Bottom
         /\ \A i : Value(heap, Argument(i))
         /\ IsSequence(call.todo) /\ Elements(call.todo) \subseteq Elements(call.args)
         /\ Bindings(heap, env)
<1>1. Bindings(heap, env) /\ Calls(heap, ClaimsOf(env), call)
  BY GoingFacts
<1>2. /\ Safe(heap, Plus(InCall(env, call), Own(call.op, call.args, call.result)), {Bottom, call.frame})
      /\ ValuesIn(heap, call.args) /\ Value(heap, call.result) /\ call.frame # Bottom
      /\ IsSequence(call.todo) /\ Elements(call.todo) \subseteq Elements(call.args)
  BY <1>1 DEF Calls, InCall
<1>3. InCall(env, call) \in Ledger
  <2>1. ClaimsOf(env) \in Ledger
    BY NamedFacts
  <2>2. QED
    BY <2>1, LedgerFacts DEF InCall
<1>4. Value(heap, Own(call.op, call.args, call.result))
  BY <1>2, UnlessValue
<1>5. Safe(heap, InCall(env, call), {Bottom, call.frame})
  BY <1>2, <1>3, <1>4, SafeNoMore
<1>6. Value(heap, Nil)
  BY AtomsAre, AtomValue
<1>7. \A i : Value(heap, Argument(i))
  BY <1>2, <1>6 DEF Argument, ValuesIn
<1>8. QED
  BY <1>1, <1>2, <1>3, <1>5, <1>7

LEMMA AccumulateStep ==
  ASSUME NInv, call # Idle, call.op \in Several, call.todo # <<>>, NEW r,
         \A w, F : Safe(heap, w, F) /\ Value(heap, call.todo[1]) /\ call.frame \in F =>
                     Combines(heap, w, r, call.result, call.todo[1], F),
         Accumulate(r)
  PROVE  NInv'
<1> DEFINE w == InCall(env, call)
           S == Elements(call.args)
           p == call.result
           q == call.todo[1]
           F == {Bottom, call.frame}
           v == Plus(w, Unless(p, S))
<1>1. /\ w \in Ledger /\ Safe(heap, Plus(w, Own(call.op, call.args, p)), F)
      /\ Value(heap, p) /\ ValuesIn(heap, call.args)
      /\ IsSequence(call.todo) /\ Elements(call.todo) \subseteq S
  BY CallHas
<1>2. \A x : Own(call.op, call.args, x) = Unless(x, S)
  BY DEF Own
<1>3. /\ IsSequence(Tail(call.todo)) /\ 1 \in DOMAIN call.todo
      /\ \A i \in DOMAIN Tail(call.todo) : Tail(call.todo)[i] = call.todo[i + 1] /\ i + 1 \in DOMAIN call.todo
  BY <1>1, TailFacts
<1>4. Elements(Tail(call.todo)) \subseteq Elements(call.todo) /\ q \in Elements(call.todo)
  BY <1>3 DEF Elements
<1>5. q \in S /\ Value(heap, q) /\ Elements(Tail(call.todo)) \subseteq S
  BY <1>1, <1>4, ElementsValues
<1>6. Safe(heap, v, F) /\ Combines(heap, v, r, p, q, F)
  BY <1>1, <1>2, <1>5
<1>7. /\ heap' = IF r.ptr = p THEN r.heap ELSE IF p \in S THEN GiveUp(r.heap, p) ELSE DecRef(r.heap, p)
      /\ call' = [call EXCEPT !.todo = Tail(@), !.result = r.ptr] /\ env' = env
  BY DEF Accumulate, Elements
<1>8. call' = [call EXCEPT !.todo = Tail(call.todo), !.result = r.ptr]
  BY <1>7
<1> HIDE DEF w, S, p, q, F
<1>9. Safe(heap', Plus(w, Unless(r.ptr, S)), F) /\ Grows(heap, heap') /\ Value(heap', r.ptr)
  BY <1>1, <1>5, <1>6, <1>7, Accumulates
<1>10. Safe(heap', Plus(w, Own(call.op, call.args, r.ptr)), F)
  BY <1>2, <1>9
<1>11. QED
  BY <1>3, <1>5, <1>7, <1>8, <1>9, <1>10, ResultStep DEF w, F, S

LEMMA GoingIsCall ==
  ASSUME NEW op, op # "none", Going(op)
  PROVE  call # Idle /\ call.op = op /\ call.todo # <<>>
BY DEF Going, Idle

LEMMA AddStep == NInv /\ Add => NInv'
<1> SUFFICES ASSUME NInv, Add
             PROVE  NInv'
  OBVIOUS
<1>1. Going("+") /\ "+" \in Several /\ "+" # "none"
  BY DEF Add, Several
<1>2. call # Idle /\ call.op \in Several /\ call.todo # <<>>
  BY <1>1, GoingIsCall
<1>3. PICK s \in SignsOf(heap, call.result, call.todo[1]), unset \in Garbage :
        Accumulate(Add2(heap, call.result, call.todo[1], s, unset, call.frame))
  BY DEF Add
<1> DEFINE r == Add2(heap, call.result, call.todo[1], s, unset, call.frame)
<1>4. Value(heap, call.result)
  BY <1>2, CallHas
<1>5. \A w, F : Safe(heap, w, F) /\ Value(heap, call.todo[1]) /\ call.frame \in F =>
                  Combines(heap, w, r, call.result, call.todo[1], F)
  BY <1>4, AddedCombines
<1>6. Accumulate(r)
  BY <1>3
<1> HIDE DEF r
<1>7. QED
  BY <1>2, <1>5, <1>6, AccumulateStep

LEMMA MultiplyStep == NInv /\ Multiply => NInv'
<1> SUFFICES ASSUME NInv, Multiply
             PROVE  NInv'
  OBVIOUS
<1>1. Going("*") /\ "*" \in Several /\ "*" # "none"
  BY DEF Multiply, Several
<1>2. call # Idle /\ call.op \in Several /\ call.todo # <<>>
  BY <1>1, GoingIsCall
<1>3. PICK s \in SignsOf(heap, call.result, call.todo[1]), unset \in Garbage :
        Accumulate(Multiply2(heap, call.result, call.todo[1], s, unset, call.frame))
  BY DEF Multiply
<1> DEFINE r == Multiply2(heap, call.result, call.todo[1], s, unset, call.frame)
<1>4. Value(heap, call.result)
  BY <1>2, CallHas
<1>5. \A w, F : Safe(heap, w, F) /\ Value(heap, call.todo[1]) /\ call.frame \in F =>
                  Combines(heap, w, r, call.result, call.todo[1], F)
  BY <1>4, AddedCombines
<1>6. Accumulate(r)
  BY <1>3
<1> HIDE DEF r
<1>7. QED
  BY <1>2, <1>5, <1>6, AccumulateStep

LEMMA ReturnsStep ==
  ASSUME NInv, call # Idle, call.op \in Two \cup One, NEW r,
         \A w, F : Safe(heap, w, F) /\ call.frame \in F => Gives(heap, w, r, F),
         Returns(r)
  PROVE  NInv'
<1> DEFINE w == InCall(env, call)
           F == {Bottom, call.frame}
<1>1. w \in Ledger /\ Safe(heap, w, F)
  BY CallHas
<1>2. Gives(heap, w, r, F)
  BY <1>1
<1>3. heap' = r.heap /\ env' = env /\ call' = [call EXCEPT !.todo = <<>>, !.result = r.ptr]
  BY DEF Returns
<1>4. call.op \notin Several
  BY DEF Two, One, Several
<1>5. Own(call.op, call.args, r.ptr) = Nil
  BY <1>4 DEF Own
<1> HIDE DEF w, F
<1>6. Plus(w, Nil) = w
  BY <1>1, NilClaim
<1>7. Safe(heap', w, F) /\ Grows(heap, heap') /\ Value(heap', r.ptr)
  BY <1>2, <1>3 DEF Gives, Leaves
<1>8. Safe(heap', Plus(w, Own(call.op, call.args, r.ptr)), F)
  BY <1>5, <1>6, <1>7
<1>9. IsSequence(<<>>) /\ Elements(<<>>) \subseteq Elements(call.args)
  BY DEF IsSequence, Elements
<1>10. QED
  BY <1>3, <1>7, <1>8, <1>9, ResultStep DEF w, F

LEMMA SubtractStep == NInv /\ Subtract => NInv'
<1> SUFFICES ASSUME NInv, Subtract
             PROVE  NInv'
  OBVIOUS
<1>1. Going("-") /\ "-" \in Two \cup One /\ "-" # "none"
  BY DEF Subtract, Two
<1>2. call # Idle /\ call.op \in Two \cup One
  BY <1>1, GoingIsCall
<1>3. PICK s \in SignsOf(heap, Argument(1), Argument(2)), unset \in Garbage :
        Returns(Subtract2(heap, Argument(1), Argument(2), s, unset, call.frame))
  BY DEF Subtract
<1> DEFINE r == Subtract2(heap, Argument(1), Argument(2), s, unset, call.frame)
<1>4. Value(heap, Argument(1)) /\ Value(heap, Argument(2))
  BY <1>2, CallHas
<1>5. \A w, F : Safe(heap, w, F) /\ call.frame \in F => Gives(heap, w, r, F)
  BY <1>4, Subtract2Gives
<1>6. Returns(r)
  BY <1>3
<1> HIDE DEF r
<1>7. QED
  BY <1>2, <1>5, <1>6, ReturnsStep

LEMMA DivideStep == NInv /\ Divide => NInv'
<1> SUFFICES ASSUME NInv, Divide
             PROVE  NInv'
  OBVIOUS
<1>1. Going("/") /\ "/" \in Two \cup One /\ "/" # "none"
  BY DEF Divide, Two
<1>2. call # Idle /\ call.op \in Two \cup One
  BY <1>1, GoingIsCall
<1>3. PICK s \in SignsOf(heap, Argument(1), Argument(2)), unset \in Garbage :
        Returns(Divide2(heap, Argument(1), Argument(2), s, unset, call.frame))
  BY DEF Divide
<1> DEFINE r == Divide2(heap, Argument(1), Argument(2), s, unset, call.frame)
<1>4. Value(heap, Argument(1)) /\ Value(heap, Argument(2))
  BY <1>2, CallHas
<1>5. \A w, F : Safe(heap, w, F) /\ call.frame \in F => Gives(heap, w, r, F)
  BY <1>4, Divide2Gives
<1>6. Returns(r)
  BY <1>3
<1> HIDE DEF r
<1>7. QED
  BY <1>2, <1>5, <1>6, ReturnsStep

LEMMA AbsoluteStep == NInv /\ LispAbsolute => NInv'
<1> SUFFICES ASSUME NInv, LispAbsolute
             PROVE  NInv'
  OBVIOUS
<1> DEFINE r == Absolute(heap, Argument(1))
<1>1. Going("absolute") /\ Returns(r) /\ "absolute" \in Two \cup One /\ "absolute" # "none"
  BY DEF LispAbsolute, One
<1>2. call # Idle /\ call.op \in Two \cup One
  BY <1>1, GoingIsCall
<1>3. Value(heap, Argument(1))
  BY <1>2, CallHas
<1>4. \A w, F : Safe(heap, w, F) => Gives(heap, w, r, F)
  BY <1>3, AbsoluteGives
<1> HIDE DEF r
<1>5. QED
  BY <1>1, <1>2, <1>4, ReturnsStep

LEMMA IsNegativeStep == NInv /\ LispIsNegative => NInv'
<1> SUFFICES ASSUME NInv, LispIsNegative
             PROVE  NInv'
  OBVIOUS
<1> DEFINE p == IF IsNegative(heap, Argument(1)) THEN T ELSE Nil
           r == Answer(heap, p)
<1>1. Going("negative?") /\ Returns(r) /\ "negative?" \in Two \cup One /\ "negative?" # "none"
  BY DEF LispIsNegative, One
<1>2. call # Idle /\ call.op \in Two \cup One
  BY <1>1, GoingIsCall
<1>3. Value(heap, p)
  BY AtomsAre, AtomValue
<1> HIDE DEF p
<1>4. \A w, F : Safe(heap, w, F) => Gives(heap, w, r, F)
  BY <1>3, Unchanged
<1> HIDE DEF r
<1>5. QED
  BY <1>1, <1>2, <1>4, ReturnsStep

LEMMA RatioToRealStep == NInv /\ RatioToReal => NInv'
<1> SUFFICES ASSUME NInv, RatioToReal
             PROVE  NInv'
  OBVIOUS
<1>1. Going("ratio->real") /\ "ratio->real" \in Two \cup One /\ "ratio->real" # "none"
  BY DEF RatioToReal, One
<1>2. call # Idle /\ call.op \in Two \cup One
  BY <1>1, GoingIsCall
<1>3. PICK s \in Signs :
        Returns(IF Kind(heap, Argument(1)) = "RTIO" THEN MakeReal(heap, s) ELSE Answer(heap, Nil))
  BY DEF RatioToReal
<1> DEFINE real == MakeReal(heap, s)
           none == Answer(heap, Nil)
           r    == IF Kind(heap, Argument(1)) = "RTIO" THEN real ELSE none
<1>4. Returns(r) /\ r \in {real, none}
  BY <1>3
<1>5. ASSUME NEW w, NEW F, Safe(heap, w, F)
      PROVE  Gives(heap, w, real, F) /\ Gives(heap, w, none, F)
  <2>1. Sound(heap, w) /\ w \in Ledger
    BY <1>5, SafeFacts
  <2>2. Gives(heap, w, real, F)
    BY <1>5, <2>1, MakeRealMade, MadeYields, YieldsGives
  <2>3. Gives(heap, w, none, F)
    BY <1>5, AtomsAre, AtomValue, Unchanged
  <2>4. QED
    BY <2>2, <2>3
<1> HIDE DEF real, none, r
<1>6. \A w, F : Safe(heap, w, F) => Gives(heap, w, r, F)
  BY <1>4, <1>5
<1>7. QED
  BY <1>1, <1>2, <1>4, <1>6, ReturnsStep

(* The frame is given back; and a name may be bound to the result. *)
LEMMA FrameLeft ==
  ASSUME NInv, call # Idle
  PROVE  LET g == DecRef(heap, Obj(call.frame))
         IN  /\ Safe(g, ClaimsOf(env), {Bottom}) /\ Grows(heap, g)
             /\ Bindings(g, env) /\ Value(g, call.result)
<1> DEFINE w == ClaimsOf(env)
           p == Obj(call.frame)
           g == DecRef(heap, p)
<1>1. /\ w \in Ledger /\ Bottom \in Nat /\ w[Bottom] > 0
  BY NamedFacts
<1>2. /\ Safe(heap, Plus(w, p), {Bottom, call.frame}) /\ Value(heap, call.result) /\ Bindings(heap, env)
  BY CallHas DEF InCall
<1> HIDE DEF w
<1>3. /\ Sound(heap, Plus(w, p)) /\ {Bottom, call.frame} \subseteq DOMAIN heap
      /\ Held(heap, Plus(w, p), {Bottom, call.frame})
  BY <1>2, SafeFacts
<1>4. Minus(Plus(w, p), p) = w /\ Points(heap, p)
  BY <1>1, <1>3, LedgerFacts, ObjFacts DEF Points
<1>5. Held(heap, w, {Bottom})
  BY <1>1, <1>3 DEF Held
<1>6. Owed(heap, Plus(w, p), p)
  BY <1>3, ObjFacts DEF Held, Owed
<1>7. Sound(g, w) /\ Leaves(heap, g, {Bottom})
  BY <1>3, <1>4, <1>5, <1>6, DecRefSound
<1> HIDE DEF g
<1>8. Held(g, w, {Bottom}) /\ Grows(heap, g)
  BY <1>5, <1>7, HeldOn DEF Leaves
<1>9. Bindings(g, env) /\ Value(g, call.result)
  BY <1>2, <1>8, BindingsOn, GrowsValue
<1>10. QED
  BY <1>7, <1>8, <1>9 DEF Safe, g, w

LEMMA FinishStep == NInv /\ Finish => NInv'
<1> SUFFICES ASSUME NInv, Finish
             PROVE  NInv'
  OBVIOUS
<1> DEFINE w == ClaimsOf(env)
           g == DecRef(heap, Obj(call.frame))
<1>1. call # Idle /\ call' = Idle /\ (Leave \/ \E n \in Names : Bound(n))
  BY DEF Finish, Answered
<1>2. Safe(g, w, {Bottom}) /\ Bindings(g, env) /\ Value(g, call.result)
  BY <1>1, FrameLeft
<1>3. CASE Leave
  <2>1. heap' = g /\ env' = env
    BY <1>3 DEF Leave
  <2>2. QED
    BY <1>1, <1>2, <2>1 DEF NInv
<1>4. ASSUME NEW n \in Names, Bound(n)
      PROVE  NInv'
  <2> DEFINE k == IncRef(g, call.result)
  <2>1. heap' = k /\ env' = [env EXCEPT ![n] = call.result]
    BY <1>4 DEF Bound
  <2> HIDE DEF g
  <2>2. Safe(k, Plus(w, call.result), {Bottom}) /\ Grows(g, k)
    BY <1>2, SafeIncRef DEF Leaves
  <2> HIDE DEF k
  <2>3. Bindings(k, env) /\ Value(k, call.result)
    BY <1>2, <2>2, BindingsOn, GrowsValue
  <2>4. Bindings(k, env') /\ Safe(k, ClaimsOf(env'), {Bottom})
    BY <2>1, <2>2, <2>3, BoundAgain
  <2>5. QED
    BY <1>1, <2>1, <2>4 DEF NInv
<1>5. QED
  BY <1>1, <1>3, <1>4

LEMMA StutterStep == NInv /\ UNCHANGED vars => NInv'
BY DEF NInv, vars

LEMMA NextKeeps == NInv /\ [Next]_vars => NInv'
<1> SUFFICES ASSUME NInv, [Next]_vars
             PROVE  NInv'
  OBVIOUS
<1>1. ASSUME NEW n \in Names, NEW text \in Texts, Enter(n, text)
      PROVE  NInv'
  BY <1>1, EnterStep
<1>2. ASSUME NEW n \in Names, EnterTruth(n)
      PROVE  NInv'
  BY <1>2, EnterTruthStep
<1>3. ASSUME NEW op \in Several, NEW args \in Tuples(Values, ArgsInFrame + 1), Begin(op, args)
      PROVE  NInv'
  <2>1. op \in Several \cup Two \cup One
    OBVIOUS
  <2>2. QED
    BY <1>3, <2>1, BeginStep
<1>4. ASSUME NEW op \in Two, NEW args \in Tuples(Values, 2), Begin(op, args)
      PROVE  NInv'
  <2>1. op \in Several \cup Two \cup One
    OBVIOUS
  <2>2. QED
    BY <1>4, <2>1, BeginStep
<1>5. ASSUME NEW op \in One, NEW args \in Tuples(Values, 1), Begin(op, args)
      PROVE  NInv'
  <2>1. op \in Several \cup Two \cup One
    OBVIOUS
  <2>2. QED
    BY <1>5, <2>1, BeginStep
<1>6. CASE Add \/ Multiply \/ Subtract \/ Divide
  BY <1>6, AddStep, MultiplyStep, SubtractStep, DivideStep
<1>7. CASE LispAbsolute \/ LispIsNegative \/ RatioToReal
  BY <1>7, AbsoluteStep, IsNegativeStep, RatioToRealStep
<1>8. CASE Finish
  BY <1>8, FinishStep
<1>9. CASE End \/ UNCHANGED vars
  <2>1. UNCHANGED vars
    BY <1>9 DEF End
  <2>2. QED
    BY <2>1, StutterStep
<1>10. QED
  BY <1>1, <1>2, <1>3, <1>4, <1>5, <1>6, <1>7, <1>8, <1>9 DEF Next

-----------------------------------------------------------------------------
(* Whatever numbers are read, bound and handed to the arithmetic functions, a
   name is bound to a value, and each object has a count for every part, name,
   call and result that refers to it, but for those that add_2, multiply_2 and
   release_integer gave up although they may be another's.                 *)
THEOREM NumbersSound == Spec => []NInv
<1>1. Init => NInv
  BY InitKeeps
<1>2. NInv /\ [Next]_vars => NInv'
  BY NextKeeps
<1>3. QED
  BY <1>1, <1>2, PTL DEF Spec

LEMMA Covers == NInv => CountsCover
<1> SUFFICES ASSUME NInv, NEW i \in DOMAIN heap
             PROVE  References(i) <= heap[i].count + heap[i].given
  BY DEF CountsCover
<1> DEFINE A == Cardinality(Places(heap, DOMAIN heap, i))
<1>1. PICK w \in Ledger : Sound(heap, w) /\ (i \in Nat => ClaimsOf(env)[i] <= w[i])
  <2>1. CASE call = Idle
    <3>1. \A k \in Nat : ClaimsOf(env)[k] <= ClaimsOf(env)[k]
      BY NamedFacts
    <3>2. Sound(heap, ClaimsOf(env)) /\ ClaimsOf(env) \in Ledger
      BY <2>1, IdleFacts, SafeFacts
    <3>3. QED
      BY <3>1, <3>2
  <2>2. CASE call # Idle
    <3> DEFINE v == Plus(ClaimsOf(env), Obj(call.frame))
    <3>1. Sound(heap, v) /\ v \in Ledger
      BY <2>2, CallHas, SafeFacts DEF InCall
    <3>2. \A k \in Nat : v[k] = ClaimsOf(env)[k] + Is(Obj(call.frame), k) /\ ClaimsOf(env)[k] \in Int
      BY NamedFacts, LedgerFacts
    <3>3. \A k \in Nat : Is(Obj(call.frame), k) \in {0, 1}
      BY DEF Is
    <3> HIDE DEF v
    <3>4. QED
      BY <3>1, <3>2, <3>3
  <2>3. QED
    BY <2>1, <2>2
<1>2. HeapOK(heap) /\ A + w[i] <= heap[i].count + heap[i].given
  BY <1>1 DEF Sound, Backed, Covered
<1>3. i \in Nat /\ heap[i].count \in Nat /\ heap[i].given \in Nat
  BY <1>2, HeapFacts
<1>4. w[i] \in Int /\ ClaimsOf(env)[i] <= w[i]
  BY <1>1, <1>3 DEF Ledger
<1>5. ClaimsOf(env)[i] >= NamedBy(env)[i] /\ ClaimsOf(env)[i] \in Int /\ NamedBy(env)[i] \in Nat
  BY <1>3, NamedFacts
<1>6. NamedBy(env)[i] = Cardinality({n \in Names : env[n] = Obj(i)})
  BY <1>3 DEF NamedBy
<1>7. A \in Nat
  BY <1>2, HeapFacts, PlacesFacts
<1>8. References(i) = A + NamedBy(env)[i]
  BY <1>6 DEF References
<1> HIDE DEF A
<1>9. QED
  BY <1>2, <1>3, <1>4, <1>5, <1>7, <1>8

(* No way through the arithmetic loses a count of a register, a name or the part
   of a ratio (CountsCover): whatever the numbers, the kinds of the operands,
   and the errors on the way.                                              *)
THEOREM NumbersAreCounted == Spec => []CountsCover
<1>1. NInv => CountsCover
  BY Covers
<1>2. QED
  BY <1>1, NumbersSound, PTL
=============================================================================
