--------------------------- MODULE EvaluatorProofs ---------------------------
(* The frames and the counts of the evaluator, whatever the program.

   An activation claims what it will give back: its frame, if it made it, or
   the form that mapcar made.  The oblist claims the values that are bound,
   the reader the expressions that are not yet evaluated, repl() its frame.
   The heap covers these claims (CellsProofs.Sound) in every state.  As
   nobody but those who have one claims a frame, and no value is a frame, a
   frame is there until its activation returns.                             *)
EXTENDS Evaluator, CellsProofs

(* What an activation will give back. *)
Claim(k) == IF k.k \in Owners THEN Obj(k.frame)
            ELSE IF k.k = "mapcar" THEN k.fn ELSE Nil

(* The ledger, without the activations and with them. *)
Base(o, n) ==
  [i \in Nat |-> Cardinality({j \in DOMAIN o : o[j][2] = Obj(i)})
                   + Unread(n)[i] + Is(Obj(Bottom), i)]
Stock(b, ks) == [i \in Nat |-> b[i] + Cardinality({j \in DOMAIN ks : Claim(ks[j]) = Obj(i)})]

(* Frames that activations own, from one of them down. *)
ActiveFrom(ks, j) ==
  {ks[l].frame : l \in {l \in DOMAIN ks : l >= j /\ ks[l].k \in Owners}} \cup {Bottom}
ActiveOf(ks) == ActiveFrom(ks, 1)

(* A frame on top of others. *)
Above(h, f, A) ==
  /\ f \notin A /\ h[f].prev \in A
  /\ h[f].depth = h[h[f].prev].depth + 1
  /\ StackLimit > 0 => h[f].depth < StackLimit

(* An activation has values, and a frame of its own or of those below; the
   registers that it will look at are there.                                *)
Valued(h, k) ==
  /\ k = [k |-> k.k, frame |-> k.frame, env |-> k.env, rest |-> k.rest, acc |-> k.acc,
          fn |-> k.fn, i |-> k.i]
  /\ Value(h, k.env) /\ Value(h, k.rest) /\ Value(h, k.acc) /\ Value(h, k.fn)
Placed(h, k, A) ==
  IF k.k \in Owners THEN Above(h, k.frame, A)
  ELSE k.frame \in A /\ (k.k = "repl" => A = {Bottom})
Bounded(h, k) ==
  /\ k.k = "arg" => h[k.frame].args < ArgsInFrame
  /\ k.k \in {"let", "let body", "test", "no clause"} => h[k.frame].args <= ArgsInFrame
  /\ k.k \in {"let body", "test", "no clause", "progn", "register"} => k.i \in 1 .. ArgsInFrame

GoodStack(h, ks) ==
  /\ IsSequence(ks)
  /\ \A j \in DOMAIN ks : /\ Valued(h, ks[j]) /\ Bounded(h, ks[j])
                          /\ Placed(h, ks[j], ActiveFrom(ks, j + 1))

(* What is bound and what is to be read. *)
World(h, o, n) ==
  /\ IsSequence(o) /\ \A j \in DOMAIN o : Value(h, o[j][2])
  /\ IsSequence(n) /\ \A j \in DOMAIN n : Value(h, n[j].expr)

(* Nothing is being evaluated, or something is, with these activations. *)
Rest(h, o, n) ==
  /\ World(h, o, n) /\ h[Bottom].depth = 0
  /\ Sound(h, Base(o, n)) /\ Held(h, Base(o, n), {Bottom})

Ready(h, o, n, ks) ==
  /\ World(h, o, n) /\ h[Bottom].depth = 0 /\ n # <<>>
  /\ Sound(h, Stock(Base(o, n), ks)) /\ Held(h, Stock(Base(o, n), ks), ActiveOf(ks))
  /\ GoodStack(h, ks)

(* What runs. *)
Runs(h, c, ks) ==
  \/ /\ c.mode = "eval" /\ c = Eval(c.form, c.frame, c.env)
     /\ Value(h, c.form) /\ Value(h, c.env) /\ c.frame \in ActiveOf(ks)
  \/ c.mode = "return" /\ c = Return(c.value) /\ Value(h, c.value)

IInv ==
  \/ ctl = Done /\ kont = <<>> /\ World(heap, oblist, input)
     /\ Sound(heap, Minus(Base(oblist, input), Obj(Bottom)))
  \/ ctl = Idle /\ kont = <<>> /\ Rest(heap, oblist, input)
  \/ Ready(heap, oblist, input, kont) /\ Runs(heap, ctl, kont)

-----------------------------------------------------------------------------

(* Counting in sequences. *)
LEMMA Shifted ==
  ASSUME NEW n \in Nat, NEW S, S \subseteq 1 .. n, NEW U, U \subseteq 1 .. n + 1,
         \A j \in 1 .. n : j + 1 \in U <=> j \in S
  PROVE  /\ Cardinality(S) \in Nat /\ Cardinality(U) \in Nat
         /\ Cardinality(U) = Cardinality(S) + IF 1 \in U THEN 1 ELSE 0
<1> DEFINE V == U \ {1}
           f == [j \in S |-> j + 1]
<1>1. IsFiniteSet(S) /\ IsFiniteSet(U) /\ IsFiniteSet(V)
  <2>1. IsFiniteSet(1 .. n) /\ IsFiniteSet(1 .. n + 1)
    BY FS_Interval
  <2>2. QED
    BY <2>1, FS_Subset
<1>2. f \in Surjection(S, V) /\ f \in Injection(S, V)
  <2>1. \A j \in S : j \in 1 .. n /\ j + 1 \in V
    OBVIOUS
  <2>2. \A u \in V : u - 1 \in S /\ (u - 1) + 1 = u
    <3>1. \A u \in V : u \in 2 .. n + 1
      OBVIOUS
    <3>2. \A u \in V : u - 1 \in 1 .. n /\ (u - 1) + 1 = u
      BY <3>1
    <3>3. QED
      BY <3>2
  <2> HIDE DEF V
  <2>3. f \in [S -> V]
    BY <2>1
  <2>4. \A u \in V : \E j \in S : f[j] = u
    BY <2>2
  <2>5. \A i, j \in S : f[i] = f[j] => i = j
    BY <2>1
  <2> HIDE DEF f
  <2>6. QED
    BY <2>3, <2>4, <2>5 DEF Surjection, Injection, IsInjective
<1>3. Cardinality(V) = Cardinality(S)
  BY <1>1, <1>2, FS_Surjection
<1>4. Cardinality(S) \in Nat /\ Cardinality(U) \in Nat /\ Cardinality(V) \in Nat
  BY <1>1, FS_CardinalityType
<1>5. Cardinality(V) = IF 1 \in U THEN Cardinality(U) - 1 ELSE Cardinality(U)
  BY <1>1, FS_RemoveElement
<1> HIDE DEF V
<1>6. QED
  BY <1>3, <1>4, <1>5

(* What is in front of the activations claims something more. *)
LEMMA StockPush ==
  ASSUME NEW b \in Ledger, NEW ks, IsSequence(ks), NEW k
  PROVE  /\ Stock(b, ks) \in Ledger
         /\ Stock(b, <<k>> \o ks) = Plus(Stock(b, ks), Claim(k))
<1> DEFINE u == <<k>> \o ks
           S(i) == {j \in DOMAIN ks : Claim(ks[j]) = Obj(i)}
           U(i) == {j \in DOMAIN u : Claim(u[j]) = Obj(i)}
           n == Len(ks)
<1>1. /\ n \in Nat /\ DOMAIN ks = 1 .. n /\ DOMAIN u = 1 .. n + 1 /\ u[1] = k
      /\ \A j \in 1 .. n : u[j + 1] = ks[j]
  BY SequenceFacts, PrefixedFacts
<1>2. Stock(b, ks) = [i \in Nat |-> b[i] + Cardinality(S(i))]
      /\ Stock(b, u) = [i \in Nat |-> b[i] + Cardinality(U(i))]
  BY DEF Stock
<1> HIDE DEF u, n
<1>3. ASSUME NEW i \in Nat
      PROVE  /\ Cardinality(S(i)) \in Nat
             /\ Cardinality(U(i)) = Cardinality(S(i)) + Is(Claim(k), i)
  <2>1. S(i) \subseteq 1 .. n /\ U(i) \subseteq 1 .. n + 1 /\ (1 \in U(i) <=> Claim(k) = Obj(i))
    BY <1>1
  <2>2. \A j \in 1 .. n : j + 1 \in 1 .. n + 1
    BY <1>1
  <2>3. \A j \in 1 .. n : j + 1 \in U(i) <=> j \in S(i)
    BY <1>1, <2>2
  <2> HIDE DEF S, U
  <2>4. QED
    BY <1>1, <2>1, <2>3, Shifted DEF Is
<1> HIDE DEF S, U
<1>4. \A i \in Nat : b[i] \in Int /\ Is(Claim(k), i) \in {0, 1}
  BY DEF Ledger, Is
<1>5. Stock(b, ks) \in Ledger
  BY <1>2, <1>3, <1>4 DEF Ledger
<1>6. \A i \in Nat : b[i] + Cardinality(U(i)) = (b[i] + Cardinality(S(i))) + Is(Claim(k), i)
  BY <1>3, <1>4
<1>7. Stock(b, u) = Plus(Stock(b, ks), Claim(k))
  BY <1>2, <1>6 DEF Plus
<1>8. QED
  BY <1>5, <1>7 DEF u

LEMMA BaseFacts ==
  ASSUME NEW h, NEW o, NEW n, World(h, o, n)
  PROVE  /\ Base(o, n) \in Ledger
         /\ \A i \in Nat : Base(o, n)[i] =
              Cardinality({j \in DOMAIN o : o[j][2] = Obj(i)})
                + Cardinality({j \in DOMAIN n : n[j].expr = Obj(i)}) + Is(Obj(Bottom), i)
<1>1. DOMAIN o = 1 .. Len(o) /\ Len(o) \in Nat /\ DOMAIN n = 1 .. Len(n) /\ Len(n) \in Nat
  BY SequenceFacts DEF World
<1>2. IsFiniteSet(DOMAIN o) /\ IsFiniteSet(DOMAIN n)
  BY <1>1, FS_Interval
<1>3. ASSUME NEW S, NEW U, IsFiniteSet(U), S \subseteq U
      PROVE  Cardinality(S) \in Nat
  BY <1>3, FS_Subset, FS_CardinalityType
<1> DEFINE P(i) == Cardinality({j \in DOMAIN o : o[j][2] = Obj(i)})
           Q(i) == Cardinality({j \in DOMAIN n : n[j].expr = Obj(i)})
<1>4. \A i : P(i) \in Nat
  BY <1>2, <1>3
<1>5. \A i : Q(i) \in Nat
  BY <1>2, <1>3
<1>6. Base(o, n) = [i \in Nat |-> P(i) + Q(i) + Is(Obj(Bottom), i)]
  BY DEF Base, Unread
<1> HIDE DEF P, Q
<1>7. \A i \in Nat : Is(Obj(Bottom), i) \in {0, 1}
  BY DEF Is
<1>8. Base(o, n) \in Ledger
  BY <1>4, <1>5, <1>6, <1>7 DEF Ledger
<1>9. QED
  BY <1>6, <1>8 DEF P, Q

LEMMA BaseNat ==
  ASSUME NEW h, NEW o, NEW n, World(h, o, n), NEW i \in Nat
  PROVE  Base(o, n)[i] \in Nat
<1>1. DOMAIN o = 1 .. Len(o) /\ Len(o) \in Nat /\ DOMAIN n = 1 .. Len(n) /\ Len(n) \in Nat
  BY SequenceFacts DEF World
<1>2. IsFiniteSet(DOMAIN o) /\ IsFiniteSet(DOMAIN n)
  BY <1>1, FS_Interval
<1>3. ASSUME NEW S, NEW U, IsFiniteSet(U), S \subseteq U
      PROVE  Cardinality(S) \in Nat
  BY <1>3, FS_Subset, FS_CardinalityType
<1> DEFINE P == Cardinality({j \in DOMAIN o : o[j][2] = Obj(i)})
           Q == Cardinality({j \in DOMAIN n : n[j].expr = Obj(i)})
<1>4. P \in Nat
  BY <1>2, <1>3
<1>5. Q \in Nat
  BY <1>2, <1>3
<1>6. Base(o, n)[i] = P + Q + Is(Obj(Bottom), i)
  BY BaseFacts
<1> HIDE DEF P, Q
<1>7. Is(Obj(Bottom), i) \in {0, 1}
  BY DEF Is
<1>8. QED
  BY <1>4, <1>5, <1>6, <1>7

LEMMA WorldGrows ==
  ASSUME NEW h, NEW g, Grows(h, g), NEW o, NEW n, World(h, o, n)
  PROVE  World(g, o, n)
BY GrowsValue DEF World

-----------------------------------------------------------------------------
(* The stack: one activation more, or less. *)
LEMMA ActivePush ==
  ASSUME NEW ks, IsSequence(ks), NEW k
  PROVE  LET u == <<k>> \o ks
         IN  /\ \A j \in Nat \ {0} : ActiveFrom(u, j + 1) = ActiveFrom(ks, j)
             /\ ActiveOf(u) = IF k.k \in Owners THEN ActiveOf(ks) \cup {k.frame} ELSE ActiveOf(ks)
<1> DEFINE u == <<k>> \o ks
           n == Len(ks)
           Own(s, j) == {l \in DOMAIN s : l >= j /\ s[l].k \in Owners}
<1>1. /\ n \in Nat /\ DOMAIN ks = 1 .. n /\ DOMAIN u = 1 .. n + 1 /\ u[1] = k
      /\ \A j \in 1 .. n : u[j + 1] = ks[j]
  BY SequenceFacts, PrefixedFacts
<1> HIDE DEF u, n
<1>2. ASSUME NEW j \in Nat \ {0}
      PROVE  ActiveFrom(u, j + 1) = ActiveFrom(ks, j)
  <2>1. \A l \in Own(ks, j) : l + 1 \in Own(u, j + 1) /\ u[l + 1].frame = ks[l].frame
    BY <1>1
  <2>2. \A l \in Own(u, j + 1) : /\ l - 1 \in Own(ks, j) /\ u[l].frame = ks[l - 1].frame
    <3>1. \A l \in 1 .. n + 1 : l >= j + 1 => l - 1 \in 1 .. n /\ (l - 1) + 1 = l /\ l - 1 >= j
      BY <1>1
    <3>2. \A l \in 1 .. n + 1 : l >= j + 1 => u[l] = ks[l - 1]
      BY <1>1, <3>1
    <3>3. QED
      BY <1>1, <3>1, <3>2
  <2> HIDE DEF Own
  <2>3. {u[l].frame : l \in Own(u, j + 1)} = {ks[l].frame : l \in Own(ks, j)}
    BY <2>1, <2>2
  <2>4. QED
    BY <2>3 DEF ActiveFrom, Own
<1>3. ActiveFrom(u, 1) = ActiveFrom(u, 2) \cup (IF k.k \in Owners THEN {k.frame} ELSE {})
  <2>1. Own(u, 2) \subseteq Own(u, 1) /\ \A l \in Own(u, 1) : l # 1 => l \in Own(u, 2)
    BY <1>1
  <2>2. 1 \in Own(u, 1) <=> k.k \in Owners
    BY <1>1
  <2> HIDE DEF Own
  <2>3. {u[l].frame : l \in Own(u, 1)} =
          {u[l].frame : l \in Own(u, 2)} \cup (IF k.k \in Owners THEN {k.frame} ELSE {})
    BY <1>1, <2>1, <2>2
  <2>4. QED
    BY <2>3 DEF ActiveFrom, Own
<1>4. ActiveFrom(u, 2) = ActiveFrom(ks, 1)
  BY <1>2
<1>5. QED
  BY <1>2, <1>3, <1>4 DEF ActiveOf, u

LEMMA ActiveFacts ==
  ASSUME NEW ks, IsSequence(ks)
  PROVE  /\ \A j \in Nat : ActiveFrom(ks, j + 1) \subseteq ActiveOf(ks)
         /\ Bottom \in ActiveOf(ks)
         /\ \A j \in DOMAIN ks : ks[j].k \in Owners => ks[j].frame \in ActiveOf(ks)
<1>1. DOMAIN ks = 1 .. Len(ks) /\ Len(ks) \in Nat
  BY SequenceFacts
<1>2. \A j \in Nat : \A l \in DOMAIN ks : l >= j + 1 => l >= 1
  BY <1>1
<1>3. \A l \in DOMAIN ks : l >= 1
  BY <1>1
<1>4. QED
  BY <1>2, <1>3 DEF ActiveOf, ActiveFrom

LEMMA GoodStackPush ==
  ASSUME NEW h, NEW ks, IsSequence(ks), NEW k
  PROVE  GoodStack(h, <<k>> \o ks) <=>
           /\ GoodStack(h, ks) /\ Valued(h, k) /\ Bounded(h, k) /\ Placed(h, k, ActiveOf(ks))
<1> DEFINE u == <<k>> \o ks
           n == Len(ks)
           Fine(s, j) == /\ Valued(h, s[j]) /\ Bounded(h, s[j])
                         /\ Placed(h, s[j], ActiveFrom(s, j + 1))
<1>1. /\ n \in Nat /\ DOMAIN ks = 1 .. n /\ DOMAIN u = 1 .. n + 1 /\ u[1] = k
      /\ \A j \in 1 .. n : u[j + 1] = ks[j]
      /\ IsSequence(u)
  BY SequenceFacts, PrefixedFacts
<1>2. /\ \A j \in 1 .. n : ActiveFrom(u, (j + 1) + 1) = ActiveFrom(ks, j + 1)
      /\ ActiveFrom(u, 1 + 1) = ActiveOf(ks)
  <2>1. \A j \in Nat \ {0} : ActiveFrom(u, j + 1) = ActiveFrom(ks, j)
    BY ActivePush
  <2>2. \A j \in 1 .. n : j + 1 \in Nat \ {0}
    BY <1>1
  <2>3. QED
    BY <2>1, <2>2 DEF ActiveOf
<1> HIDE DEF u, n
<1>3. Fine(u, 1) <=> Valued(h, k) /\ Bounded(h, k) /\ Placed(h, k, ActiveOf(ks))
  BY <1>1, <1>2
<1>4. \A j \in 1 .. n : Fine(u, j + 1) <=> Fine(ks, j)
  BY <1>1, <1>2
<1>5. /\ GoodStack(h, u) <=> \A j \in 1 .. n + 1 : Fine(u, j)
      /\ GoodStack(h, ks) <=> \A j \in 1 .. n : Fine(ks, j)
  BY <1>1 DEF GoodStack
<1> HIDE DEF Fine
<1>6. \A j \in 1 .. n + 1 : j = 1 \/ (j - 1 \in 1 .. n /\ (j - 1) + 1 = j)
  BY <1>1
<1>7. \A j \in 1 .. n : j + 1 \in 1 .. n + 1
  BY <1>1
<1>8. 1 \in 1 .. n + 1
  BY <1>1
<1>9. (\A j \in 1 .. n + 1 : Fine(u, j)) <=> Fine(u, 1) /\ \A j \in 1 .. n : Fine(ks, j)
  BY <1>4, <1>6, <1>7, <1>8
<1>10. QED
  BY <1>3, <1>5, <1>9 DEF u

(* The stack is as good as it was when its frames are left alone. *)
LEMMA StackStays ==
  ASSUME NEW h, NEW g, NEW ks, GoodStack(h, ks), Leaves(h, g, ActiveOf(ks))
  PROVE  GoodStack(g, ks)
<1>1. IsSequence(ks) /\ DOMAIN ks = 1 .. Len(ks) /\ Len(ks) \in Nat /\ DOMAIN ks \subseteq Nat
  BY SequenceFacts DEF GoodStack
<1>2. Grows(h, g) /\ \A f \in ActiveOf(ks) : Keeps(h[f], g[f])
  BY DEF Leaves
<1>3. ASSUME NEW j \in DOMAIN ks
      PROVE  /\ Valued(g, ks[j]) /\ Bounded(g, ks[j])
             /\ Placed(g, ks[j], ActiveFrom(ks, j + 1))
  <2> DEFINE k == ks[j]
             A == ActiveFrom(ks, j + 1)
  <2>1. Valued(h, k) /\ Bounded(h, k) /\ Placed(h, k, A)
    BY DEF GoodStack
  <2>2. A \subseteq ActiveOf(ks) /\ (k.k \in Owners => k.frame \in ActiveOf(ks))
    BY <1>1, ActiveFacts
  <2> HIDE DEF k, A
  <2>3. k.frame \in ActiveOf(ks)
    BY <2>1, <2>2 DEF Placed
  <2>4. g[k.frame].args = h[k.frame].args /\ g[k.frame].prev = h[k.frame].prev
        /\ g[k.frame].depth = h[k.frame].depth
    BY <1>2, <2>3 DEF Keeps
  <2>5. Valued(g, k)
    BY <1>2, <2>1, GrowsValue DEF Valued
  <2>6. Bounded(g, k)
    BY <2>1, <2>4 DEF Bounded
  <2>7. \A f \in A : g[f].depth = h[f].depth
    BY <1>2, <2>2 DEF Keeps
  <2>8. Placed(g, k, A)
    BY <2>1, <2>4, <2>7 DEF Placed, Above
  <2>9. QED
    BY <2>5, <2>6, <2>8 DEF k, A
<1>4. QED
  BY <1>1, <1>3 DEF GoodStack

-----------------------------------------------------------------------------
(* A step on the way from one state to the next works on a heap, for a stack
   of activations; a frame that was just made, or that its activation has just
   been left with, is on top of those of the stack.                         *)
With(h, o, n, f, ks) ==
  LET w == Plus(Stock(Base(o, n), ks), Obj(f))
  IN  /\ World(h, o, n) /\ h[Bottom].depth = 0 /\ n # <<>>
      /\ Sound(h, w) /\ Held(h, w, ActiveOf(ks) \cup {f})
      /\ GoodStack(h, ks) /\ Above(h, f, ActiveOf(ks))

LEMMA StockFacts ==
  ASSUME NEW h, NEW o, NEW n, World(h, o, n), NEW ks, GoodStack(h, ks)
  PROVE  /\ Stock(Base(o, n), ks) \in Ledger /\ IsSequence(ks)
         /\ \A k : Stock(Base(o, n), <<k>> \o ks) = Plus(Stock(Base(o, n), ks), Claim(k))
<1>1. Base(o, n) \in Ledger /\ IsSequence(ks)
  BY BaseFacts DEF GoodStack
<1>2. QED
  BY <1>1, StockPush

LEMMA ReadyFacts ==
  ASSUME NEW h, NEW o, NEW n, NEW ks, Ready(h, o, n, ks)
  PROVE  /\ Sound(h, Stock(Base(o, n), ks)) /\ Stock(Base(o, n), ks) \in Ledger /\ HeapOK(h)
         /\ DOMAIN h \subseteq Nat /\ IsSequence(ks) /\ ActiveOf(ks) \subseteq DOMAIN h
         /\ Held(h, Stock(Base(o, n), ks), ActiveOf(ks))
         /\ \A f \in ActiveOf(ks) :
              /\ f \in Nat /\ IsFrame(h, f) /\ h[f].depth \in Nat /\ h[f].args \in Nat
              /\ Value(h, More(h, f)) /\ \A i \in 1 .. ArgsInFrame : Value(h, Reg(h, f, i))
<1>1. /\ Sound(h, Stock(Base(o, n), ks)) /\ Held(h, Stock(Base(o, n), ks), ActiveOf(ks))
      /\ IsSequence(ks)
  BY DEF Ready, GoodStack
<1> DEFINE w == Stock(Base(o, n), ks)
           F == ActiveOf(ks)
<1> HIDE DEF w, F
<1>2. Sound(h, w) /\ Held(h, w, F)
  BY <1>1 DEF w, F
<1>3. \A f \in F : /\ f \in Nat /\ IsFrame(h, f) /\ h[f].depth \in Nat /\ h[f].args \in Nat
  BY <1>2, HeldFacts
<1>4. \A f \in F : Value(h, More(h, f)) /\ \A i \in 1 .. ArgsInFrame : Value(h, Reg(h, f, i))
  BY <1>2, RegisterValues
<1>5. w \in Ledger /\ HeapOK(h) /\ DOMAIN h \subseteq Nat /\ F \subseteq DOMAIN h
  BY <1>2, SoundFacts, HeldFacts
<1>6. QED
  BY <1>1, <1>3, <1>4, <1>5 DEF w, F

(* The heap changes, but not what the stack needs. *)
Waiting(h, o, n, ks) ==
  /\ World(h, o, n) /\ h[Bottom].depth = 0 /\ n # <<>>
  /\ Held(h, Stock(Base(o, n), ks), ActiveOf(ks)) /\ GoodStack(h, ks)

LEMMA WaitingOn ==
  ASSUME NEW h, NEW o, NEW n, NEW ks, Waiting(h, o, n, ks), NEW g, Leaves(h, g, ActiveOf(ks))
  PROVE  Waiting(g, o, n, ks) /\ Grows(h, g) /\ \A p : Value(h, p) => Value(g, p)
<1>1. Grows(h, g)
  BY DEF Leaves
<1>2. World(g, o, n) /\ \A p : Value(h, p) => Value(g, p)
  BY <1>1, GrowsValue, WorldGrows DEF Waiting
<1>3. GoodStack(g, ks) /\ IsSequence(ks)
  BY StackStays DEF Waiting, GoodStack
<1>4. Held(g, Stock(Base(o, n), ks), ActiveOf(ks))
  BY HeldOn DEF Waiting
<1>5. Bottom \in ActiveOf(ks)
  BY <1>3, ActiveFacts
<1>6. g[Bottom].depth = 0
  BY <1>5 DEF Waiting, Leaves, Keeps
<1>7. QED
  BY <1>1, <1>2, <1>3, <1>4, <1>6 DEF Waiting

LEMMA ReadyOn ==
  ASSUME NEW h, NEW o, NEW n, NEW ks, Ready(h, o, n, ks),
         NEW g, Leaves(h, g, ActiveOf(ks)), Sound(g, Stock(Base(o, n), ks))
  PROVE  Ready(g, o, n, ks) /\ Grows(h, g) /\ \A p : Value(h, p) => Value(g, p)
<1>1. Waiting(h, o, n, ks)
  BY DEF Ready, Waiting
<1>2. Waiting(g, o, n, ks) /\ Grows(h, g) /\ \A p : Value(h, p) => Value(g, p)
  BY <1>1, WaitingOn
<1>3. QED
  BY <1>2 DEF Ready, Waiting

LEMMA ReadyGot ==
  ASSUME NEW h, NEW o, NEW n, NEW ks, Ready(h, o, n, ks),
         NEW r, Got(h, Stock(Base(o, n), ks), r, DOMAIN h)
  PROVE  /\ Ready(r.heap, o, n, ks) /\ Value(r.heap, r.ptr) /\ Grows(h, r.heap)
         /\ \A p : Value(h, p) => Value(r.heap, p)
         /\ \A f \in ActiveOf(ks) : Keeps(h[f], r.heap[f])
<1>1. Leaves(h, r.heap, DOMAIN h) /\ Sound(r.heap, Stock(Base(o, n), ks)) /\ Value(r.heap, r.ptr)
  BY DEF Got
<1>2. Leaves(h, r.heap, ActiveOf(ks))
  BY <1>1, ReadyFacts, LeavesFacts
<1>3. Ready(r.heap, o, n, ks) /\ Grows(h, r.heap) /\ \A p : Value(h, p) => Value(r.heap, p)
  BY <1>1, <1>2, ReadyOn
<1>4. QED
  BY <1>1, <1>2, <1>3 DEF Leaves

LEMMA ReadyMade ==
  ASSUME NEW h, NEW o, NEW n, NEW ks, Ready(h, o, n, ks),
         NEW r, Made(h, Stock(Base(o, n), ks), r, DOMAIN h)
  PROVE  /\ Ready(r.heap, o, n, ks) /\ Value(r.heap, r.ptr) /\ Grows(h, r.heap)
         /\ \A p : Value(h, p) => Value(r.heap, p)
         /\ \A f \in ActiveOf(ks) : Keeps(h[f], r.heap[f])
         /\ Sound(r.heap, Plus(Stock(Base(o, n), ks), r.ptr))
<1>1. Stock(Base(o, n), ks) \in Ledger
  BY ReadyFacts
<1>2. Got(h, Stock(Base(o, n), ks), r, DOMAIN h)
  BY <1>1, MadeGot
<1>3. Sound(r.heap, Plus(Stock(Base(o, n), ks), r.ptr))
  BY DEF Made
<1>4. QED
  BY <1>2, <1>3, ReadyGot

(* An activation without a frame of its own begins to wait. *)
LEMMA PushOther ==
  ASSUME NEW h, NEW o, NEW n, NEW ks, Ready(h, o, n, ks),
         NEW k, k.k \notin Owners, Valued(h, k), Bounded(h, k), k.frame \in ActiveOf(ks),
         k.k = "repl" => ActiveOf(ks) = {Bottom},
         Sound(h, Plus(Stock(Base(o, n), ks), Claim(k)))
  PROVE  Ready(h, o, n, <<k>> \o ks) /\ ActiveOf(<<k>> \o ks) = ActiveOf(ks)
<1> DEFINE w == Stock(Base(o, n), ks)
           u == <<k>> \o ks
<1>1. /\ w \in Ledger /\ IsSequence(ks) /\ DOMAIN h \subseteq Nat /\ ActiveOf(ks) \subseteq Nat
      /\ Held(h, w, ActiveOf(ks)) /\ GoodStack(h, ks)
  BY ReadyFacts DEF Ready
<1>2. ActiveOf(u) = ActiveOf(ks)
  BY <1>1, ActivePush
<1>3. Stock(Base(o, n), u) = Plus(w, Claim(k))
  BY StockFacts DEF Ready
<1>4. GoodStack(h, u)
  BY <1>1, GoodStackPush DEF Placed
<1>5. Value(h, Claim(k))
  BY AtomsAre, AtomValue DEF Claim, Valued
<1> HIDE DEF w, u
<1>6. Held(h, Plus(w, Claim(k)), ActiveOf(ks))
  BY <1>1, <1>5, HeldValue
<1>7. Ready(h, o, n, u)
  BY <1>2, <1>3, <1>4, <1>6 DEF Ready, w
<1>8. QED
  BY <1>2, <1>7 DEF u

LEMMA PushPlain ==
  ASSUME NEW h, NEW o, NEW n, NEW ks, Ready(h, o, n, ks),
         NEW k, k.k \notin Owners, k.k # "mapcar", Valued(h, k), Bounded(h, k),
         k.frame \in ActiveOf(ks), k.k = "repl" => ActiveOf(ks) = {Bottom}
  PROVE  Ready(h, o, n, <<k>> \o ks) /\ ActiveOf(<<k>> \o ks) = ActiveOf(ks)
<1>1. Claim(k) = Nil /\ ~IsObj(Nil)
  BY AtomsAre DEF Claim, IsAtom
<1>2. Sound(h, Plus(Stock(Base(o, n), ks), Claim(k)))
  BY <1>1, ReadyFacts, AtomLedger
<1>3. QED
  BY <1>2, PushOther

(* One that owns its frame. *)
LEMMA PushOwner ==
  ASSUME NEW h, NEW o, NEW n, NEW ks, NEW k, With(h, o, n, k.frame, ks),
         k.k \in Owners, Valued(h, k), Bounded(h, k)
  PROVE  /\ Ready(h, o, n, <<k>> \o ks) /\ k.frame \in ActiveOf(<<k>> \o ks)
         /\ ActiveOf(ks) \subseteq ActiveOf(<<k>> \o ks)
<1> DEFINE u == <<k>> \o ks
<1>1. GoodStack(h, ks) /\ IsSequence(ks) /\ Above(h, k.frame, ActiveOf(ks))
  BY DEF With, GoodStack
<1>2. ActiveOf(u) = ActiveOf(ks) \cup {k.frame}
  BY <1>1, ActivePush
<1>3. Stock(Base(o, n), u) = Plus(Stock(Base(o, n), ks), Obj(k.frame))
  BY StockFacts DEF With, Claim
<1>4. GoodStack(h, u)
  BY <1>1, GoodStackPush DEF Placed
<1> HIDE DEF u
<1>5. Ready(h, o, n, u)
  BY <1>2, <1>3, <1>4 DEF Ready, With
<1>6. QED
  BY <1>2, <1>5 DEF u

(* The innermost activation goes on. *)
LEMMA PopFacts ==
  ASSUME NEW h, NEW o, NEW n, NEW ks, Ready(h, o, n, ks), ks # <<>>
  PROVE  LET k == Head(ks)
             t == Tail(ks)
         IN  /\ ks = <<k>> \o t /\ Valued(h, k) /\ Bounded(h, k) /\ GoodStack(h, t)
             /\ Placed(h, k, ActiveOf(t)) /\ IsSequence(t)
             /\ Stock(Base(o, n), ks) = Plus(Stock(Base(o, n), t), Claim(k))
             /\ ActiveOf(ks) = IF k.k \in Owners THEN ActiveOf(t) \cup {k.frame} ELSE ActiveOf(t)
<1> DEFINE k == Head(ks)
           t == Tail(ks)
<1>1. GoodStack(h, ks) /\ IsSequence(ks) /\ World(h, o, n)
  BY DEF Ready, GoodStack
<1>2. ks = <<k>> \o t /\ IsSequence(t)
  BY <1>1, TailFacts
<1> HIDE DEF k, t
<1>3. GoodStack(h, t) /\ Valued(h, k) /\ Bounded(h, k) /\ Placed(h, k, ActiveOf(t))
  BY <1>1, <1>2, GoodStackPush
<1>4. Stock(Base(o, n), ks) = Plus(Stock(Base(o, n), t), Claim(k))
  BY <1>1, <1>2, <1>3, StockFacts
<1>5. ActiveOf(ks) = IF k.k \in Owners THEN ActiveOf(t) \cup {k.frame} ELSE ActiveOf(t)
  BY <1>2, ActivePush
<1>6. QED
  BY <1>2, <1>3, <1>4, <1>5 DEF k, t

LEMMA PopOther ==
  ASSUME NEW h, NEW o, NEW n, NEW ks, Ready(h, o, n, ks), ks # <<>>, Head(ks).k \notin Owners
  PROVE  LET k == Head(ks)
             t == Tail(ks)
         IN  /\ Ready(h, o, n, t) /\ k.frame \in ActiveOf(t) /\ Valued(h, k) /\ Bounded(h, k)
             /\ Sound(h, Plus(Stock(Base(o, n), t), Claim(k)))
<1> DEFINE k == Head(ks)
           t == Tail(ks)
           w == Stock(Base(o, n), t)
<1>1. /\ ks = <<k>> \o t /\ Valued(h, k) /\ Bounded(h, k) /\ GoodStack(h, t)
      /\ Placed(h, k, ActiveOf(t)) /\ IsSequence(t)
      /\ Stock(Base(o, n), ks) = Plus(w, Claim(k))
      /\ ActiveOf(ks) = IF k.k \in Owners THEN ActiveOf(t) \cup {k.frame} ELSE ActiveOf(t)
  BY PopFacts
<1>2. k.k \notin Owners
  OBVIOUS
<1> HIDE DEF k, t
<1>3. k.frame \in ActiveOf(t) /\ ActiveOf(ks) = ActiveOf(t)
  BY <1>1, <1>2 DEF Placed
<1>4. Sound(h, Plus(w, Claim(k))) /\ Held(h, Plus(w, Claim(k)), ActiveOf(t)) /\ World(h, o, n)
  BY <1>1, <1>3 DEF Ready
<1>5. w \in Ledger
  BY <1>1, <1>4, StockFacts
<1> HIDE DEF w
<1>6. Value(h, Claim(k))
  BY <1>1, <1>2, AtomsAre, AtomValue DEF Claim, Valued
<1>7. Sound(h, w)
  BY <1>4, <1>5, <1>6, NoMore
<1>8. Held(h, w, ActiveOf(t))
  <2>1. Value(h, Claim(k)) /\ ActiveOf(t) \subseteq Nat
    <3>1. ActiveOf(t) \subseteq DOMAIN h /\ DOMAIN h \subseteq Nat
      BY <1>4, SoundFacts DEF Held
    <3>2. QED
      BY <1>6, <3>1
  <2>2. Plus(w, Claim(k)) \in Ledger /\ Minus(Plus(w, Claim(k)), Claim(k)) = w
    BY <1>5, LedgerFacts
  <2>3. Held(h, Minus(Plus(w, Claim(k)), Claim(k)), ActiveOf(t))
    BY <1>4, <2>1, <2>2, HeldValue
  <2>4. QED
    BY <2>2, <2>3
<1>9. Ready(h, o, n, t)
  BY <1>1, <1>4, <1>7, <1>8 DEF Ready, w
<1>10. QED
  BY <1>1, <1>3, <1>4, <1>9 DEF k, t, w

LEMMA PopOwner ==
  ASSUME NEW h, NEW o, NEW n, NEW ks, Ready(h, o, n, ks), ks # <<>>, Head(ks).k \in Owners
  PROVE  LET k == Head(ks)
             t == Tail(ks)
         IN  With(h, o, n, k.frame, t) /\ Valued(h, k) /\ Bounded(h, k)
<1> DEFINE k == Head(ks)
           t == Tail(ks)
           w == Stock(Base(o, n), t)
<1>1. /\ ks = <<k>> \o t /\ Valued(h, k) /\ Bounded(h, k) /\ GoodStack(h, t)
      /\ Placed(h, k, ActiveOf(t)) /\ IsSequence(t)
      /\ Stock(Base(o, n), ks) = Plus(w, Claim(k))
      /\ ActiveOf(ks) = IF k.k \in Owners THEN ActiveOf(t) \cup {k.frame} ELSE ActiveOf(t)
  BY PopFacts
<1>2. k.k \in Owners
  OBVIOUS
<1> HIDE DEF k, t
<1>3. Above(h, k.frame, ActiveOf(t)) /\ ActiveOf(ks) = ActiveOf(t) \cup {k.frame}
      /\ Claim(k) = Obj(k.frame)
  BY <1>1, <1>2 DEF Placed, Claim
<1>4. With(h, o, n, k.frame, t)
  BY <1>1, <1>3 DEF Ready, With, w
<1>5. QED
  BY <1>1, <1>4 DEF k, t

-----------------------------------------------------------------------------
(* A frame on top. *)
LEMMA WithFacts ==
  ASSUME NEW h, NEW o, NEW n, NEW f, NEW ks, With(h, o, n, f, ks)
  PROVE  LET w == Plus(Stock(Base(o, n), ks), Obj(f))
             F == ActiveOf(ks) \cup {f}
         IN  /\ Sound(h, w) /\ Held(h, w, F) /\ w \in Ledger /\ HeapOK(h) /\ F \subseteq DOMAIN h
             /\ DOMAIN h \subseteq Nat /\ Stock(Base(o, n), ks) \in Ledger /\ IsSequence(ks)
             /\ f \notin ActiveOf(ks) /\ h[f].prev \in ActiveOf(ks) /\ IsFrame(h, f) /\ ~h[f].free
             /\ h[f].args \in Nat /\ h[f].depth \in Nat
             /\ Value(h, More(h, f)) /\ \A i \in 1 .. ArgsInFrame : Value(h, Reg(h, f, i))
<1> DEFINE w == Plus(Stock(Base(o, n), ks), Obj(f))
           F == ActiveOf(ks) \cup {f}
<1>1. /\ Sound(h, w) /\ Held(h, w, F) /\ IsSequence(ks) /\ Stock(Base(o, n), ks) \in Ledger
      /\ f \notin ActiveOf(ks) /\ h[f].prev \in ActiveOf(ks) /\ f \in F
  BY StockFacts DEF With, Above, GoodStack
<1> HIDE DEF w, F
<1>2. /\ IsFrame(h, f) /\ ~h[f].free /\ h[f].args \in Nat /\ h[f].depth \in Nat
  BY <1>1, HeldFacts
<1>3. Value(h, More(h, f)) /\ \A i \in 1 .. ArgsInFrame : Value(h, Reg(h, f, i))
  BY <1>1, RegisterValues
<1>4. w \in Ledger /\ HeapOK(h) /\ DOMAIN h \subseteq Nat /\ F \subseteq DOMAIN h
  BY <1>1, SoundFacts, HeldFacts
<1>5. QED
  BY <1>1, <1>2, <1>3, <1>4 DEF w, F

(* Below it, all wait as they did. *)
LEMMA WithWaiting ==
  ASSUME NEW h, NEW o, NEW n, NEW f, NEW ks, With(h, o, n, f, ks)
  PROVE  Waiting(h, o, n, ks)
<1> DEFINE w == Stock(Base(o, n), ks)
<1>1. /\ w \in Ledger /\ f \notin ActiveOf(ks)
      /\ Held(h, Plus(w, Obj(f)), ActiveOf(ks) \cup {f}) /\ ActiveOf(ks) \subseteq Nat
  BY WithFacts
<1> HIDE DEF w
<1>2. \A i \in ActiveOf(ks) : Plus(w, Obj(f))[i] = w[i]
  <2>1. \A i \in ActiveOf(ks) : Is(Obj(f), i) = 0 /\ w[i] \in Int /\ i \in Nat
    BY <1>1, ObjFacts DEF Is, Ledger
  <2>2. QED
    BY <1>1, <2>1, LedgerFacts
<1>3. Held(h, w, ActiveOf(ks))
  BY <1>1, <1>2 DEF Held
<1>4. QED
  BY <1>3 DEF Waiting, With, w

(* It is nobody's any more, which happens only with an exception, or it is
   given back.                                                             *)
LEMMA WithDropped ==
  ASSUME NEW h, NEW o, NEW n, NEW f, NEW ks, With(h, o, n, f, ks), ~NoException(h)
  PROVE  Ready(h, o, n, ks)
<1> DEFINE w == Stock(Base(o, n), ks)
<1>1. w \in Ledger /\ Sound(h, Plus(w, Obj(f))) /\ IsFrame(h, f)
  BY WithFacts
<1>2. Points(h, Obj(f))
  BY <1>1, ObjFacts DEF Points, IsFrame
<1> HIDE DEF w
<1>3. Sound(h, w)
  BY <1>1, <1>2, Dropped
<1>4. QED
  BY <1>3, WithWaiting DEF Ready, Waiting, w

LEMMA WithFreed ==
  ASSUME NEW h, NEW o, NEW n, NEW f, NEW ks, With(h, o, n, f, ks)
  PROVE  /\ Ready(DecRef(h, Obj(f)), o, n, ks)
         /\ \A p : Value(h, p) => Value(DecRef(h, Obj(f)), p)
<1> DEFINE w == Stock(Base(o, n), ks)
           g == DecRef(h, Obj(f))
<1>1. /\ w \in Ledger /\ Sound(h, Plus(w, Obj(f))) /\ IsFrame(h, f)
      /\ Held(h, Plus(w, Obj(f)), ActiveOf(ks) \cup {f})
  BY WithFacts
<1>2. Waiting(h, o, n, ks) /\ Held(h, w, ActiveOf(ks))
  BY WithWaiting DEF Waiting
<1>3. Points(h, Obj(f)) /\ Minus(Plus(w, Obj(f)), Obj(f)) = w
  BY <1>1, ObjFacts, LedgerFacts DEF Points, IsFrame
<1> HIDE DEF w
<1>4. Owed(h, Plus(w, Obj(f)), Obj(f))
  <2>1. Plus(w, Obj(f))[f] > 0 /\ Obj(f)[2] = f /\ IsObj(Obj(f))
    BY <1>1, ObjFacts DEF Held
  <2>2. QED
    BY <2>1 DEF Owed
<1>5. Sound(g, w) /\ Leaves(h, g, ActiveOf(ks))
  BY <1>1, <1>2, <1>3, <1>4, DecRefSound
<1> HIDE DEF g
<1>6. Waiting(g, o, n, ks) /\ \A p : Value(h, p) => Value(g, p)
  BY <1>2, <1>5, WaitingOn
<1>7. QED
  BY <1>5, <1>6 DEF Ready, Waiting, w, g

LEMMA WithOn ==
  ASSUME NEW h, NEW o, NEW n, NEW f, NEW ks, With(h, o, n, f, ks),
         NEW g, Leaves(h, g, ActiveOf(ks) \cup {f}), Sound(g, Plus(Stock(Base(o, n), ks), Obj(f)))
  PROVE  With(g, o, n, f, ks) /\ Grows(h, g) /\ \A p : Value(h, p) => Value(g, p)
<1> DEFINE w == Plus(Stock(Base(o, n), ks), Obj(f))
           F == ActiveOf(ks) \cup {f}
<1>1. Grows(h, g) /\ Leaves(h, g, ActiveOf(ks)) /\ \A i \in F : Keeps(h[i], g[i])
  BY LeavesFacts DEF Leaves
<1>2. World(g, o, n) /\ \A p : Value(h, p) => Value(g, p)
  BY <1>1, GrowsValue, WorldGrows DEF With
<1>3. GoodStack(g, ks) /\ IsSequence(ks)
  BY <1>1, StackStays DEF With, GoodStack
<1>4. Held(g, w, F)
  BY HeldOn DEF With
<1>5. Bottom \in ActiveOf(ks)
  BY <1>3, ActiveFacts
<1>6. g[Bottom].depth = 0
  BY <1>1, <1>5 DEF With, Keeps
<1>7. Above(h, f, ActiveOf(ks))
  BY DEF With
<1>8. Above(g, f, ActiveOf(ks))
  BY <1>1, <1>7 DEF Above, Keeps
<1>9. QED
  BY <1>1, <1>2, <1>3, <1>4, <1>6, <1>8 DEF With

LEMMA WithMade ==
  ASSUME NEW h, NEW o, NEW n, NEW f, NEW ks, With(h, o, n, f, ks),
         NEW r, Made(h, Plus(Stock(Base(o, n), ks), Obj(f)), r, DOMAIN h)
  PROVE  /\ With(r.heap, o, n, f, ks) /\ Value(r.heap, r.ptr)
         /\ \A p : Value(h, p) => Value(r.heap, p)
<1> DEFINE w == Plus(Stock(Base(o, n), ks), Obj(f))
<1>1. w \in Ledger /\ ActiveOf(ks) \cup {f} \subseteq DOMAIN h
  BY WithFacts
<1>2. Sound(r.heap, w) /\ Leaves(h, r.heap, DOMAIN h) /\ Value(r.heap, r.ptr)
  BY <1>1, MadeFacts
<1>3. Leaves(h, r.heap, ActiveOf(ks) \cup {f})
  BY <1>1, <1>2, LeavesFacts
<1>4. QED
  BY <1>2, <1>3, WithOn

(* Its registers are set. *)
LEMMA WithRewritten ==
  ASSUME NEW h, NEW o, NEW n, NEW f, NEW ks, With(h, o, n, f, ks), NEW g, NEW a,
         Rewrites(h, g, Plus(Stock(Base(o, n), ks), Obj(f)), ActiveOf(ks) \cup {f}, f, a)
  PROVE  /\ With(g, o, n, f, ks) /\ g[f].args = a /\ g[f].prev = h[f].prev
         /\ \A p : Value(h, p) => Value(g, p)
<1> DEFINE w == Plus(Stock(Base(o, n), ks), Obj(f))
           F == ActiveOf(ks) \cup {f}
<1>1. /\ Sound(g, w) /\ Leaves(h, g, F \ {f}) /\ Held(g, w, F)
      /\ g[f].prev = h[f].prev /\ g[f].depth = h[f].depth /\ g[f].args = a
  BY DEF Rewrites
<1>2. f \notin ActiveOf(ks) /\ F \ {f} = ActiveOf(ks) /\ h[f].prev \in ActiveOf(ks)
  <2>1. f \notin ActiveOf(ks) /\ h[f].prev \in ActiveOf(ks)
    BY WithFacts
  <2>2. QED
    BY <2>1
<1>3. Grows(h, g) /\ Leaves(h, g, ActiveOf(ks)) /\ \A i \in ActiveOf(ks) : Keeps(h[i], g[i])
  BY <1>1, <1>2 DEF Leaves
<1>4. World(g, o, n) /\ \A p : Value(h, p) => Value(g, p)
  BY <1>3, GrowsValue, WorldGrows DEF With
<1>5. GoodStack(g, ks) /\ IsSequence(ks)
  BY <1>3, StackStays DEF With, GoodStack
<1>6. Bottom \in ActiveOf(ks)
  BY <1>5, ActiveFacts
<1>7. g[Bottom].depth = 0
  BY <1>3, <1>6 DEF With, Keeps
<1>8. Above(h, f, ActiveOf(ks))
  BY DEF With
<1>9. Above(g, f, ActiveOf(ks))
  BY <1>1, <1>2, <1>3, <1>8 DEF Above, Keeps
<1>10. QED
  BY <1>1, <1>4, <1>5, <1>7, <1>9 DEF With

LEMMA WithSetReg ==
  ASSUME NEW h, NEW o, NEW n, NEW f, NEW ks, With(h, o, n, f, ks),
         NEW r \in 1 .. ArgsInFrame, NEW v, Value(h, v)
  PROVE  LET g == SetReg(h, f, r, v)
         IN  /\ With(g, o, n, f, ks) /\ g[f].prev = h[f].prev
             /\ g[f].args = IF r - 1 = h[f].args THEN r ELSE h[f].args
             /\ \A p : Value(h, p) => Value(g, p)
<1> DEFINE w == Plus(Stock(Base(o, n), ks), Obj(f))
           F == ActiveOf(ks) \cup {f}
           a == IF r - 1 = h[f].args THEN r ELSE h[f].args
<1>1. Sound(h, w) /\ Held(h, w, F) /\ f \in F /\ r \in 1 .. ArgsInFrame + 1
  BY WithFacts, WidthFacts
<1> HIDE DEF w, F
<1>2. Rewrites(h, SetReg(h, f, r, v), w, F, f, a)
  BY <1>1, SetRegSound
<1> HIDE DEF a
<1>3. Rewrites(h, SetReg(h, f, r, v), Plus(Stock(Base(o, n), ks), Obj(f)), ActiveOf(ks) \cup {f}, f, a)
  BY <1>2 DEF w, F
<1>4. QED
  BY <1>3, WithRewritten DEF a

(* make_empty_frame, within the limit. *)
LEMMA FrameMade ==
  ASSUME NEW h, NEW o, NEW n, NEW ks, Ready(h, o, n, ks), NEW f \in ActiveOf(ks),
         StackLimit = 0 \/ StackLimit > h[f].depth + 1
  PROVE  LET g == Append(h, FrameCell(f, h[f].depth + 1))
             m == Len(h) + 1
         IN  /\ With(g, o, n, m, ks) /\ g[m].args = 0 /\ g[m].prev = f
             /\ \A p : Value(h, p) => Value(g, p)
<1> DEFINE w == Stock(Base(o, n), ks)
           d == h[f].depth + 1
           g == Append(h, FrameCell(f, d))
           m == Len(h) + 1
           F == ActiveOf(ks) \cup {m}
<1>1. /\ Sound(h, w) /\ w \in Ledger /\ Held(h, w, ActiveOf(ks)) /\ ActiveOf(ks) \subseteq DOMAIN h
      /\ f \in Nat /\ d \in Nat /\ DOMAIN h \subseteq Nat /\ h[f].depth \in Nat /\ HeapOK(h)
  BY ReadyFacts
<1>2. d = h[f].depth + 1
  OBVIOUS
<1> HIDE DEF w, d
<1>3. /\ Sound(g, Plus(w, Obj(m))) /\ Leaves(h, g, DOMAIN h)
      /\ DOMAIN g = (DOMAIN h) \cup {m} /\ m \notin DOMAIN h
      /\ g[m].kind = "FRAME" /\ ~g[m].free /\ g[m].prev = f /\ g[m].depth = d
      /\ g[m].args = 0
  <2>1. Sound(h, w) /\ f \in Nat /\ d \in Nat
    BY <1>1
  <2>2. Framed(h, w, g, m, f, d)
    BY <2>1, FrameSound
  <2> HIDE DEF g, m
  <2>3. QED
    BY <2>2 DEF Framed, IsNew
<1>4. m \in Nat
  BY <1>1, HeapFacts
<1> HIDE DEF g, m
<1>5. Leaves(h, g, ActiveOf(ks)) /\ Waiting(h, o, n, ks)
  BY <1>1, <1>3, LeavesFacts DEF Ready, Waiting
<1>6. Waiting(g, o, n, ks) /\ Grows(h, g) /\ \A p : Value(h, p) => Value(g, p)
  BY <1>5, WaitingOn
<1>7. m \notin ActiveOf(ks) /\ g[f].depth = h[f].depth
  BY <1>1, <1>3 DEF Leaves, Keeps
<1>8. Above(g, m, ActiveOf(ks))
  <2>1. StackLimit > 0 => d < StackLimit
    BY <1>1, <1>2, EvaluatorAssumption
  <2>2. QED
    BY <1>2, <1>3, <1>7, <2>1 DEF Above
<1>9. Held(g, Plus(w, Obj(m)), F)
  <2>1. \A i \in ActiveOf(ks) : i \in DOMAIN g /\ g[i].kind = "FRAME" /\ ~g[i].free /\ w[i] > 0
    BY <1>6 DEF Waiting, Held, w
  <2>2. \A i \in Nat : Is(Obj(m), i) = (IF i = m THEN 1 ELSE 0) /\ w[i] \in Int
    BY <1>1, ObjFacts DEF Is, Ledger
  <2>3. \A i \in Nat : Plus(w, Obj(m))[i] = w[i] + Is(Obj(m), i)
    BY <1>1, LedgerFacts
  <2>4. \A i \in ActiveOf(ks) : Plus(w, Obj(m))[i] > 0
    BY <1>1, <1>7, <2>1, <2>2, <2>3
  <2>5. Plus(w, Obj(m))[m] > 0
    <3>1. w[m] >= 0
      <4>1. w[m] = Base(o, n)[m] + Cardinality({j \in DOMAIN ks : Claim(ks[j]) = Obj(m)})
        BY <1>4 DEF w, Stock
      <4>2. Base(o, n)[m] \in Nat
        BY <1>4, BaseNat DEF Ready
      <4>3. Cardinality({j \in DOMAIN ks : Claim(ks[j]) = Obj(m)}) \in Nat
        <5>1. DOMAIN ks = 1 .. Len(ks) /\ Len(ks) \in Nat
          BY SequenceFacts DEF Ready, GoodStack
        <5>2. IsFiniteSet(DOMAIN ks)
          BY <5>1, FS_Interval
        <5>3. QED
          BY <5>2, FS_Subset, FS_CardinalityType
      <4>4. QED
        BY <4>1, <4>2, <4>3
    <3>2. QED
      BY <1>4, <2>2, <2>3, <3>1
  <2>6. QED
    BY <1>3, <2>1, <2>4, <2>5 DEF Held
<1>10. With(g, o, n, m, ks)
  BY <1>3, <1>6, <1>8, <1>9 DEF With, Waiting, w
<1>11. QED
  BY <1>3, <1>6, <1>10 DEF g, m, d

-----------------------------------------------------------------------------
(* The records of activations. *)
Waits(k, f, env, a, b, c, i) ==
  [k |-> k, frame |-> f, env |-> env, rest |-> a, acc |-> b, fn |-> c, i |-> i]

LEMMA WaitsFacts ==
  ASSUME NEW k, NEW f, NEW env, NEW a, NEW b, NEW c, NEW i
  PROVE  LET w == Waits(k, f, env, a, b, c, i)
         IN  /\ w.k = k /\ w.frame = f /\ w.env = env /\ w.rest = a /\ w.acc = b /\ w.fn = c /\ w.i = i
             /\ w = [k |-> w.k, frame |-> w.frame, env |-> w.env, rest |-> w.rest, acc |-> w.acc,
                     fn |-> w.fn, i |-> w.i]
BY DEF Waits

LEMMA KPlain == \A k, f, env : K(k, f, env) = Waits(k, f, env, Nil, Nil, Nil, 0)
BY DEF K, Waits

LEMMA WaitsExcept ==
  ASSUME NEW k, NEW f, NEW env, NEW a, NEW b, NEW c, NEW i, NEW v
  PROVE  LET w == Waits(k, f, env, a, b, c, i)
         IN  /\ [w EXCEPT !.rest = v] = Waits(k, f, env, v, b, c, i)
             /\ [w EXCEPT !.acc = v] = Waits(k, f, env, a, v, c, i)
             /\ [w EXCEPT !.fn = v] = Waits(k, f, env, a, b, v, i)
             /\ [w EXCEPT !.i = v] = Waits(k, f, env, a, b, c, v)
             /\ [w EXCEPT !.k = v] = Waits(v, f, env, a, b, c, i)
BY DEF Waits

LEMMA KRest ==
  ASSUME NEW k, NEW f, NEW env, NEW a
  PROVE  [K(k, f, env) EXCEPT !.rest = a] = Waits(k, f, env, a, Nil, Nil, 0)
<1> DEFINE e == K(k, f, env)
<1>1. e = Waits(k, f, env, Nil, Nil, Nil, 0)
  BY KPlain
<1> HIDE DEF e
<1> DEFINE e1 == [e EXCEPT !.rest = a]
<1>2. e1 = Waits(k, f, env, a, Nil, Nil, 0)
  <2>1. [Waits(k, f, env, Nil, Nil, Nil, 0) EXCEPT !.rest = a] = Waits(k, f, env, a, Nil, Nil, 0)
    BY DEF Waits
  <2>2. QED
    BY <1>1, <2>1
<1> HIDE DEF e1
<1>3. [e EXCEPT !.rest = a] = e1
  BY DEF e1
<1>4. QED
  BY <1>2, <1>3 DEF e

LEMMA KFn ==
  ASSUME NEW k, NEW f, NEW env, NEW c
  PROVE  [K(k, f, env) EXCEPT !.fn = c] = Waits(k, f, env, Nil, Nil, c, 0)
<1> DEFINE e == K(k, f, env)
<1>1. e = Waits(k, f, env, Nil, Nil, Nil, 0)
  BY KPlain
<1> HIDE DEF e
<1> DEFINE e1 == [e EXCEPT !.fn = c]
<1>2. e1 = Waits(k, f, env, Nil, Nil, c, 0)
  <2>1. [Waits(k, f, env, Nil, Nil, Nil, 0) EXCEPT !.fn = c] = Waits(k, f, env, Nil, Nil, c, 0)
    BY DEF Waits
  <2>2. QED
    BY <1>1, <2>1
<1> HIDE DEF e1
<1>3. [e EXCEPT !.fn = c] = e1
  BY DEF e1
<1>4. QED
  BY <1>2, <1>3 DEF e

LEMMA KRestAcc ==
  ASSUME NEW k, NEW f, NEW env, NEW a, NEW b
  PROVE  [K(k, f, env) EXCEPT !.rest = a, !.acc = b] = Waits(k, f, env, a, b, Nil, 0)
<1> DEFINE e == K(k, f, env)
<1>1. e = Waits(k, f, env, Nil, Nil, Nil, 0)
  BY KPlain
<1> HIDE DEF e
<1> DEFINE e1 == [e EXCEPT !.rest = a]
<1>2. e1 = Waits(k, f, env, a, Nil, Nil, 0)
  <2>1. [Waits(k, f, env, Nil, Nil, Nil, 0) EXCEPT !.rest = a] = Waits(k, f, env, a, Nil, Nil, 0)
    BY DEF Waits
  <2>2. QED
    BY <1>1, <2>1
<1> HIDE DEF e1
<1> DEFINE e2 == [e1 EXCEPT !.acc = b]
<1>3. e2 = Waits(k, f, env, a, b, Nil, 0)
  <2>1. [Waits(k, f, env, a, Nil, Nil, 0) EXCEPT !.acc = b] = Waits(k, f, env, a, b, Nil, 0)
    BY DEF Waits
  <2>2. QED
    BY <1>2, <2>1
<1> HIDE DEF e2
<1>4. [e EXCEPT !.rest = a, !.acc = b] = e2
  BY DEF e1, e2
<1>5. QED
  BY <1>3, <1>4 DEF e

LEMMA KRestFn ==
  ASSUME NEW k, NEW f, NEW env, NEW a, NEW c
  PROVE  [K(k, f, env) EXCEPT !.rest = a, !.fn = c] = Waits(k, f, env, a, Nil, c, 0)
<1> DEFINE e == K(k, f, env)
<1>1. e = Waits(k, f, env, Nil, Nil, Nil, 0)
  BY KPlain
<1> HIDE DEF e
<1> DEFINE e1 == [e EXCEPT !.rest = a]
<1>2. e1 = Waits(k, f, env, a, Nil, Nil, 0)
  <2>1. [Waits(k, f, env, Nil, Nil, Nil, 0) EXCEPT !.rest = a] = Waits(k, f, env, a, Nil, Nil, 0)
    BY DEF Waits
  <2>2. QED
    BY <1>1, <2>1
<1> HIDE DEF e1
<1> DEFINE e2 == [e1 EXCEPT !.fn = c]
<1>3. e2 = Waits(k, f, env, a, Nil, c, 0)
  <2>1. [Waits(k, f, env, a, Nil, Nil, 0) EXCEPT !.fn = c] = Waits(k, f, env, a, Nil, c, 0)
    BY DEF Waits
  <2>2. QED
    BY <1>2, <2>1
<1> HIDE DEF e2
<1>4. [e EXCEPT !.rest = a, !.fn = c] = e2
  BY DEF e1, e2
<1>5. QED
  BY <1>3, <1>4 DEF e

LEMMA KFnRest ==
  ASSUME NEW k, NEW f, NEW env, NEW a, NEW c
  PROVE  [K(k, f, env) EXCEPT !.fn = c, !.rest = a] = Waits(k, f, env, a, Nil, c, 0)
<1> DEFINE e == K(k, f, env)
<1>1. e = Waits(k, f, env, Nil, Nil, Nil, 0)
  BY KPlain
<1> HIDE DEF e
<1> DEFINE e1 == [e EXCEPT !.fn = c]
<1>2. e1 = Waits(k, f, env, Nil, Nil, c, 0)
  <2>1. [Waits(k, f, env, Nil, Nil, Nil, 0) EXCEPT !.fn = c] = Waits(k, f, env, Nil, Nil, c, 0)
    BY DEF Waits
  <2>2. QED
    BY <1>1, <2>1
<1> HIDE DEF e1
<1> DEFINE e2 == [e1 EXCEPT !.rest = a]
<1>3. e2 = Waits(k, f, env, a, Nil, c, 0)
  <2>1. [Waits(k, f, env, Nil, Nil, c, 0) EXCEPT !.rest = a] = Waits(k, f, env, a, Nil, c, 0)
    BY DEF Waits
  <2>2. QED
    BY <1>2, <2>1
<1> HIDE DEF e2
<1>4. [e EXCEPT !.fn = c, !.rest = a] = e2
  BY DEF e1, e2
<1>5. QED
  BY <1>3, <1>4 DEF e

LEMMA KRestAccFn ==
  ASSUME NEW k, NEW f, NEW env, NEW a, NEW b, NEW c
  PROVE  [K(k, f, env) EXCEPT !.rest = a, !.acc = b, !.fn = c] = Waits(k, f, env, a, b, c, 0)
<1> DEFINE e == K(k, f, env)
<1>1. e = Waits(k, f, env, Nil, Nil, Nil, 0)
  BY KPlain
<1> HIDE DEF e
<1> DEFINE e1 == [e EXCEPT !.rest = a]
<1>2. e1 = Waits(k, f, env, a, Nil, Nil, 0)
  <2>1. [Waits(k, f, env, Nil, Nil, Nil, 0) EXCEPT !.rest = a] = Waits(k, f, env, a, Nil, Nil, 0)
    BY DEF Waits
  <2>2. QED
    BY <1>1, <2>1
<1> HIDE DEF e1
<1> DEFINE e2 == [e1 EXCEPT !.acc = b]
<1>3. e2 = Waits(k, f, env, a, b, Nil, 0)
  <2>1. [Waits(k, f, env, a, Nil, Nil, 0) EXCEPT !.acc = b] = Waits(k, f, env, a, b, Nil, 0)
    BY DEF Waits
  <2>2. QED
    BY <1>2, <2>1
<1> HIDE DEF e2
<1> DEFINE e3 == [e2 EXCEPT !.fn = c]
<1>4. e3 = Waits(k, f, env, a, b, c, 0)
  <2>1. [Waits(k, f, env, a, b, Nil, 0) EXCEPT !.fn = c] = Waits(k, f, env, a, b, c, 0)
    BY DEF Waits
  <2>2. QED
    BY <1>3, <2>1
<1> HIDE DEF e3
<1>5. [e EXCEPT !.rest = a, !.acc = b, !.fn = c] = e3
  BY DEF e1, e2, e3
<1>6. QED
  BY <1>4, <1>5 DEF e

LEMMA KIAccFnRest ==
  ASSUME NEW k, NEW f, NEW env, NEW a, NEW b, NEW c, NEW i
  PROVE  [K(k, f, env) EXCEPT !.i = i, !.acc = b, !.fn = c, !.rest = a] = Waits(k, f, env, a, b, c, i)
<1> DEFINE e == K(k, f, env)
<1>1. e = Waits(k, f, env, Nil, Nil, Nil, 0)
  BY KPlain
<1> HIDE DEF e
<1> DEFINE e1 == [e EXCEPT !.i = i]
<1>2. e1 = Waits(k, f, env, Nil, Nil, Nil, i)
  <2>1. [Waits(k, f, env, Nil, Nil, Nil, 0) EXCEPT !.i = i] = Waits(k, f, env, Nil, Nil, Nil, i)
    BY DEF Waits
  <2>2. QED
    BY <1>1, <2>1
<1> HIDE DEF e1
<1> DEFINE e2 == [e1 EXCEPT !.acc = b]
<1>3. e2 = Waits(k, f, env, Nil, b, Nil, i)
  <2>1. [Waits(k, f, env, Nil, Nil, Nil, i) EXCEPT !.acc = b] = Waits(k, f, env, Nil, b, Nil, i)
    BY DEF Waits
  <2>2. QED
    BY <1>2, <2>1
<1> HIDE DEF e2
<1> DEFINE e3 == [e2 EXCEPT !.fn = c]
<1>4. e3 = Waits(k, f, env, Nil, b, c, i)
  <2>1. [Waits(k, f, env, Nil, b, Nil, i) EXCEPT !.fn = c] = Waits(k, f, env, Nil, b, c, i)
    BY DEF Waits
  <2>2. QED
    BY <1>3, <2>1
<1> HIDE DEF e3
<1> DEFINE e4 == [e3 EXCEPT !.rest = a]
<1>5. e4 = Waits(k, f, env, a, b, c, i)
  <2>1. [Waits(k, f, env, Nil, b, c, i) EXCEPT !.rest = a] = Waits(k, f, env, a, b, c, i)
    BY DEF Waits
  <2>2. QED
    BY <1>4, <2>1
<1> HIDE DEF e4
<1>6. [e EXCEPT !.i = i, !.acc = b, !.fn = c, !.rest = a] = e4
  BY DEF e1, e2, e3, e4
<1>7. QED
  BY <1>5, <1>6 DEF e

LEMMA WaitsValued ==
  ASSUME NEW h, NEW k, NEW f, NEW env, Value(h, env), NEW a, Value(h, a), NEW b, Value(h, b),
         NEW c, Value(h, c), NEW i
  PROVE  Valued(h, Waits(k, f, env, a, b, c, i))
BY WaitsFacts DEF Valued

(* Most activations need no more than values. *)
Carefree(k) == k \notin {"arg", "let", "let body", "test", "no clause", "progn", "register"}

LEMMA WaitsBounded ==
  ASSUME NEW h, NEW k, Carefree(k), NEW f, NEW env, NEW a, NEW b, NEW c, NEW i
  PROVE  Bounded(h, Waits(k, f, env, a, b, c, i))
<1> DEFINE w == Waits(k, f, env, a, b, c, i)
<1>1. w.k = k
  BY WaitsFacts
<1> HIDE DEF w
<1>2. Bounded(h, w)
  BY <1>1 DEF Bounded, Carefree
<1>3. QED
  BY <1>2 DEF w

LEMMA PushWaits ==
  ASSUME NEW h, NEW o, NEW n, NEW ks, Ready(h, o, n, ks), NEW f, f \in ActiveOf(ks),
         NEW k, k \notin Owners, k \notin {"mapcar", "repl"}, NEW env, Value(h, env), NEW a, Value(h, a),
         NEW b, Value(h, b), NEW c, Value(h, c), NEW i, Bounded(h, Waits(k, f, env, a, b, c, i))
  PROVE  /\ Ready(h, o, n, <<Waits(k, f, env, a, b, c, i)>> \o ks)
         /\ ActiveOf(<<Waits(k, f, env, a, b, c, i)>> \o ks) = ActiveOf(ks)
<1> DEFINE w == Waits(k, f, env, a, b, c, i)
<1>1. w.k = k /\ w.frame = f /\ Valued(h, w)
  BY WaitsFacts, WaitsValued
<1> HIDE DEF w
<1>2. Bounded(h, w) /\ w.k # "mapcar" /\ w.k # "repl"
  BY <1>1 DEF w
<1>3. Ready(h, o, n, <<w>> \o ks) /\ ActiveOf(<<w>> \o ks) = ActiveOf(ks)
  BY <1>1, <1>2, PushPlain
<1>4. QED
  BY <1>3 DEF w

LEMMA PushOwned ==
  ASSUME NEW h, NEW o, NEW n, NEW f, NEW ks, With(h, o, n, f, ks),
         NEW k, k \in Owners, NEW env, Value(h, env), NEW a, Value(h, a),
         NEW b, Value(h, b), NEW c, Value(h, c), NEW i, Bounded(h, Waits(k, f, env, a, b, c, i))
  PROVE  /\ Ready(h, o, n, <<Waits(k, f, env, a, b, c, i)>> \o ks)
         /\ f \in ActiveOf(<<Waits(k, f, env, a, b, c, i)>> \o ks)
         /\ ActiveOf(ks) \subseteq ActiveOf(<<Waits(k, f, env, a, b, c, i)>> \o ks)
<1> DEFINE w == Waits(k, f, env, a, b, c, i)
<1>1. w.k = k /\ w.frame = f /\ Valued(h, w)
  BY WaitsFacts, WaitsValued
<1> HIDE DEF w
<1>2. Bounded(h, w) /\ With(h, o, n, w.frame, ks) /\ w.k \in Owners
  BY <1>1 DEF w
<1>3. /\ Ready(h, o, n, <<w>> \o ks) /\ w.frame \in ActiveOf(<<w>> \o ks)
      /\ ActiveOf(ks) \subseteq ActiveOf(<<w>> \o ks)
  BY <1>1, <1>2, PushOwner
<1>4. QED
  BY <1>1, <1>3 DEF w

-----------------------------------------------------------------------------
(* Where a step ends. *)
LEMMA Landed ==
  ASSUME NEW h, NEW c, NEW ks, Ready(h, oblist, input, ks), Runs(h, c, ks), Go(h, c, ks)
  PROVE  IInv'
<1>1. heap' = h /\ ctl' = c /\ kont' = ks /\ oblist' = oblist /\ input' = input
  BY DEF Go
<1>2. Ready(heap', oblist', input', kont') /\ Runs(heap', ctl', kont')
  BY <1>1
<1>3. QED
  BY <1>2 DEF IInv

LEMMA LandReturn ==
  ASSUME NEW h, NEW v, NEW ks, Ready(h, oblist, input, ks), Value(h, v), Go(h, Return(v), ks)
  PROVE  IInv'
<1>1. Return(v).mode = "return" /\ Return(v).value = v
  BY DEF Return
<1>2. Runs(h, Return(v), ks)
  BY <1>1 DEF Runs
<1>3. QED
  BY <1>2, Landed

LEMMA LandEval ==
  ASSUME NEW h, NEW form, NEW f, NEW env, NEW ks, Ready(h, oblist, input, ks), Value(h, form),
         Value(h, env), f \in ActiveOf(ks), Go(h, Eval(form, f, env), ks)
  PROVE  IInv'
<1> DEFINE c == Eval(form, f, env)
<1>1. c.mode = "eval" /\ c.form = form /\ c.frame = f /\ c.env = env
  BY DEF Eval
<1>2. c = Eval(c.form, c.frame, c.env)
  BY <1>1
<1> HIDE DEF c
<1>3. Runs(h, c, ks)
  BY <1>1, <1>2 DEF Runs
<1>4. Go(h, c, ks)
  BY DEF c
<1>5. QED
  BY <1>3, <1>4, Landed

LEMMA LandGot ==
  ASSUME NEW h, NEW r, NEW ks, Ready(h, oblist, input, ks),
         Got(h, Stock(Base(oblist, input), ks), r, DOMAIN h), GoReturn(r, ks)
  PROVE  IInv'
<1>1. Ready(r.heap, oblist, input, ks) /\ Value(r.heap, r.ptr)
  BY ReadyGot
<1>2. Go(r.heap, Return(r.ptr), ks)
  BY DEF GoReturn
<1>3. QED
  BY <1>1, <1>2, LandReturn

(* eval_form is called by one who waits. *)
LEMMA LandWaits ==
  ASSUME NEW h, NEW ks, Ready(h, oblist, input, ks), NEW f, f \in ActiveOf(ks),
         NEW k, k \notin Owners, k \notin {"mapcar", "repl"}, NEW env, Value(h, env), NEW a, Value(h, a),
         NEW b, Value(h, b), NEW c, Value(h, c), NEW i, Bounded(h, Waits(k, f, env, a, b, c, i)),
         NEW form, Value(h, form), NEW e, Value(h, e),
         Go(h, Eval(form, f, e), <<Waits(k, f, env, a, b, c, i)>> \o ks)
  PROVE  IInv'
<1> DEFINE u == <<Waits(k, f, env, a, b, c, i)>> \o ks
<1>1. Ready(h, oblist, input, u) /\ ActiveOf(u) = ActiveOf(ks)
  BY PushWaits
<1> HIDE DEF u
<1>2. Go(h, Eval(form, f, e), u)
  BY DEF u
<1>3. QED
  BY <1>1, <1>2, LandEval

-----------------------------------------------------------------------------
(* Lists of forms. *)
LEMMA NilValue == \A h : Value(h, Nil) /\ ~IsObj(Nil)
BY AtomsAre, AtomValue DEF IsAtom

LEMMA EvalFormsLands ==
  ASSUME NEW h, NEW forms, NEW acc, NEW f, NEW env, NEW ks, Ready(h, oblist, input, ks),
         Value(h, forms), Value(h, acc), f \in ActiveOf(ks), Value(h, env),
         EvalForms(h, forms, acc, f, env, ks)
  PROVE  IInv'
<1>1. CASE IsCons(h, forms) /\ Go(h, Eval(Car(h, forms), f, env),
             <<[K("forms", f, env) EXCEPT !.rest = forms, !.acc = acc]>> \o ks)
  <2>1. [K("forms", f, env) EXCEPT !.rest = forms, !.acc = acc] =
          Waits("forms", f, env, forms, acc, Nil, 0)
    BY KRestAcc
  <2>2. Go(h, Eval(Car(h, forms), f, env), <<Waits("forms", f, env, forms, acc, Nil, 0)>> \o ks)
    BY <1>1, <2>1
  <2>3. /\ Value(h, Car(h, forms)) /\ Value(h, Nil) /\ "forms" \notin Owners
        /\ Bounded(h, Waits("forms", f, env, forms, acc, Nil, 0))
    BY ReadyFacts, CarCdrValue, NilValue, WaitsBounded DEF Carefree, Owners
  <2>4. QED
    BY <2>2, <2>3, LandWaits
<1>2. CASE ~IsCons(h, forms) /\ GoReturn(Reverse(h, acc), ks)
  BY <1>2, ReadyFacts, ReverseGot, LandGot
<1>3. QED
  BY <1>1, <1>2 DEF EvalForms

LEMMA EvalBodyLands ==
  ASSUME NEW h, NEW f, NEW env, NEW body, NEW ks, Ready(h, oblist, input, ks),
         Value(h, body), f \in ActiveOf(ks), Value(h, env), EvalBody(h, f, env, body, ks)
  PROVE  IInv'
<1>1. CASE body # Nil /\ Go(h, Eval(Car(h, body), f, env),
             <<[K("body", f, env) EXCEPT !.rest = Cdr(h, body)]>> \o ks)
  <2> DEFINE rest == Cdr(h, body)
  <2>1. [K("body", f, env) EXCEPT !.rest = rest] = Waits("body", f, env, rest, Nil, Nil, 0)
    BY KRest
  <2>2. Go(h, Eval(Car(h, body), f, env), <<Waits("body", f, env, rest, Nil, Nil, 0)>> \o ks)
    BY <1>1, <2>1
  <2>3. /\ Value(h, Car(h, body)) /\ Value(h, rest) /\ Value(h, Nil) /\ "body" \notin Owners
        /\ Bounded(h, Waits("body", f, env, rest, Nil, Nil, 0))
    BY ReadyFacts, CarCdrValue, NilValue, WaitsBounded DEF Carefree, Owners
  <2> HIDE DEF rest
  <2>4. QED
    BY <2>2, <2>3, LandWaits
<1>2. CASE body = Nil /\ Go(h, Return(Nil), ks)
  BY <1>2, NilValue, LandReturn
<1>3. QED
  BY <1>1, <1>2 DEF EvalBody

-----------------------------------------------------------------------------
(* The values of symbols. *)
LEMMA AtomValues ==
  ASSUME NEW h, NEW n
  PROVE  /\ Value(h, Nil) /\ Value(h, T) /\ Value(h, Num(n)) /\ Value(h, Sym(n)) /\ Value(h, Key(n))
         /\ Value(h, Text(n)) /\ Value(h, Prim(n)) /\ Value(h, Special(n))
BY AtomsAre, AtomValue

LEMMA Registers == 1 \in 1 .. ArgsInFrame /\ 2 \in 1 .. ArgsInFrame /\ 3 \in 1 .. ArgsInFrame
BY WidthFacts, EvaluatorAssumption

LEMMA ForemostIn ==
  ASSUME NEW S, S \subseteq Nat, S # {}
  PROVE  Foremost(S) \in S
<1>1. \E j \in S : \A l \in S : j <= l
  BY Least
<1>2. QED
  BY <1>1 DEF Foremost

LEMMA BindingValue ==
  ASSUME NEW h, HeapOK(h), NEW env, Value(h, env), NEW S, S \subseteq DOMAIN Items(h, env), S # {}
  PROVE  Value(h, Cdr(h, Items(h, env)[Foremost(S)]))
<1> DEFINE items == Items(h, env)
           p == items[Foremost(S)]
<1>1. ValuesIn(h, items)
  BY ItemsFacts
<1>2. DOMAIN items \subseteq Nat
  <2>1. DOMAIN items = 1 .. Len(items) /\ Len(items) \in Nat
    BY <1>1, SequenceFacts DEF ValuesIn
  <2>2. QED
    BY <2>1
<1>3. Foremost(S) \in S
  <2>1. S \subseteq Nat
    BY <1>2
  <2>2. QED
    BY <2>1, ForemostIn
<1>4. Value(h, p)
  BY <1>1, <1>3 DEF ValuesIn
<1> HIDE DEF p
<1>5. Value(h, Cdr(h, p))
  BY <1>4, CarCdrValue
<1>6. QED
  BY <1>5 DEF p

LEMMA SymbolValue ==
  ASSUME NEW h, NEW n, World(h, oblist, n), HeapOK(h), NEW env, Value(h, env), NEW name
  PROVE  Value(h, ValueOf(h, name, env))
<1> DEFINE here == BindingsOf(h, Sym(name), env)
           there == GlobalsOf(Sym(name))
<1>1. CASE here # {}
  <2>1. here \subseteq DOMAIN Items(h, env)
    BY DEF BindingsOf
  <2> HIDE DEF here
  <2>2. Value(h, Cdr(h, Items(h, env)[Foremost(here)]))
    BY <1>1, <2>1, BindingValue
  <2>3. QED
    BY <1>1, <2>2 DEF ValueOf, here
<1>2. CASE here = {} /\ there # {}
  <2>1. there \subseteq DOMAIN oblist
    BY DEF GlobalsOf
  <2>2. DOMAIN oblist = 1 .. Len(oblist) /\ Len(oblist) \in Nat
    BY SequenceFacts DEF World
  <2> HIDE DEF there
  <2>3. there \subseteq Nat
    BY <2>1, <2>2
  <2>4. Foremost(there) \in DOMAIN oblist
    BY <1>2, <2>1, <2>3, ForemostIn
  <2>5. Value(h, oblist[Foremost(there)][2])
    BY <2>4 DEF World
  <2>6. QED
    BY <1>2, <2>5 DEF ValueOf, there
<1>3. CASE here = {} /\ there = {}
  <2>1. Value(h, Prim(name)) /\ Value(h, Special(name))
    BY AtomValues
  <2>2. ValueOf(h, name, env) \in {Prim(name), Special(name)}
    BY <1>3 DEF ValueOf
  <2>3. QED
    BY <2>1, <2>2
<1>4. QED
  BY <1>1, <1>2, <1>3

(* An exception is thrown on a frame that is there. *)
LEMMA ThrowLands ==
  ASSUME NEW h, NEW ks, Ready(h, oblist, input, ks), NEW f, f \in ActiveOf(ks),
         NEW where, Value(h, where), NEW what, Value(h, what),
         GoReturn(Throw(h, where, what, f), ks)
  PROVE  IInv'
<1>1. Sound(h, Stock(Base(oblist, input), ks)) /\ IsFrame(h, f)
  BY ReadyFacts
<1>2. Got(h, Stock(Base(oblist, input), ks), Throw(h, where, what, f), DOMAIN h)
  BY <1>1, ThrowGot
<1>3. QED
  BY <1>2, LandGot

LEMMA MessageLands ==
  ASSUME NEW h, NEW ks, Ready(h, oblist, input, ks), NEW f, f \in ActiveOf(ks),
         NEW where, NEW a, Value(h, a), NEW d, Value(h, d),
         GoReturn(Throw(MakeCons(h, a, d).heap, Sym(where), MakeCons(h, a, d).ptr, f), ks)
  PROVE  IInv'
<1> DEFINE m == MakeCons(h, a, d)
<1>1. Sound(h, Stock(Base(oblist, input), ks))
  BY ReadyFacts
<1>2. Made(h, Stock(Base(oblist, input), ks), m, DOMAIN h)
  BY <1>1, MakeConsMade
<1>3. GoReturn(Throw(m.heap, Sym(where), m.ptr, f), ks)
  OBVIOUS
<1> HIDE DEF m
<1>4. Ready(m.heap, oblist, input, ks) /\ Value(m.heap, m.ptr)
  BY <1>2, ReadyMade
<1>5. Value(m.heap, Sym(where))
  BY AtomValues
<1>6. QED
  BY <1>3, <1>4, <1>5, ThrowLands

(* c_apply and lisp_eval, on a frame whose first register has the form. *)
LEMMA ApplyLands ==
  ASSUME NEW h, NEW f, NEW env, NEW ks, Ready(h, oblist, input, ks), f \in ActiveOf(ks),
         Value(h, env), Apply(h, f, env, ks)
  PROVE  IInv'
<1> DEFINE form == Car(h, Reg(h, f, 1))
<1>1. Value(h, Reg(h, f, 1)) /\ HeapOK(h)
  BY ReadyFacts, Registers
<1>2. Value(h, form)
  BY <1>1, CarCdrValue
<1>3. Go(h, Eval(form, f, env), <<Waits("fn", f, env, Nil, Nil, Nil, 0)>> \o ks)
  BY KPlain DEF Apply
<1> HIDE DEF form
<1>4. Bounded(h, Waits("fn", f, env, Nil, Nil, Nil, 0)) /\ "fn" \notin Owners /\ Value(h, Nil)
  BY WaitsBounded, NilValue DEF Carefree, Owners
<1>5. QED
  BY <1>2, <1>3, <1>4, LandWaits

LEMMA LispEvalLands ==
  ASSUME NEW h, NEW f, NEW env, NEW ks, Ready(h, oblist, input, ks), f \in ActiveOf(ks),
         Value(h, env), LispEval(h, f, env, ks)
  PROVE  IInv'
<1> DEFINE form == Reg(h, f, 1)
           name == form[2]
           text == Text("Attempt to take value of unbound symbol.")
<1>1. Value(h, form) /\ HeapOK(h) /\ World(h, oblist, input)
  BY ReadyFacts, Registers DEF Ready
<1>2. CASE Apply(h, f, env, ks)
  BY <1>2, ApplyLands
<1>3. CASE Go(h, Return(ValueOf(h, name, env)), ks)
  <2> DEFINE v == ValueOf(h, name, env)
  <2>1. Value(h, v)
    BY <1>1, SymbolValue
  <2> HIDE DEF v
  <2>2. Go(h, Return(v), ks)
    BY <1>3 DEF v
  <2>3. QED
    BY <2>1, <2>2, LandReturn
<1>4. CASE GoReturn(Throw(MakeCons(h, text, form).heap, Sym("eval"), MakeCons(h, text, form).ptr, f), ks)
  <2>1. Value(h, text)
    BY AtomValues
  <2> HIDE DEF text, form
  <2>2. QED
    BY <1>1, <1>4, <2>1, MessageLands
<1>5. CASE Go(h, Return(form), ks)
  BY <1>1, <1>5, LandReturn
<1>6. QED
  BY <1>2, <1>3, <1>4, <1>5 DEF LispEval

-----------------------------------------------------------------------------
(* The functions set, mapcar. *)
LEMMA NotASymbolLands ==
  ASSUME NEW h, NEW who, NEW f, NEW ks, Ready(h, oblist, input, ks), f \in ActiveOf(ks),
         NotASymbol(h, who, f, ks)
  PROVE  IInv'
<1> DEFINE r == MakeCons(h, Reg(h, f, 1), Nil)
           text == Text("The first argument is not a symbol: ")
<1>1. Value(h, Reg(h, f, 1)) /\ Value(h, Nil) /\ Sound(h, Stock(Base(oblist, input), ks))
  BY ReadyFacts, Registers, NilValue
<1>2. Made(h, Stock(Base(oblist, input), ks), r, DOMAIN h)
  BY <1>1, MakeConsMade
<1>3. GoReturn(Throw(MakeCons(r.heap, text, r.ptr).heap, Sym(who), MakeCons(r.heap, text, r.ptr).ptr, f), ks)
  BY DEF NotASymbol
<1> HIDE DEF r
<1>4. Ready(r.heap, oblist, input, ks) /\ Value(r.heap, r.ptr)
  BY <1>2, ReadyMade
<1>5. Value(r.heap, text)
  BY AtomValues
<1> HIDE DEF text
<1>6. QED
  BY <1>3, <1>4, <1>5, MessageLands

(* A binding, or an expression to be read, more. *)
LEMMA BindingMore ==
  ASSUME NEW h, NEW o, NEW n, World(h, o, n), NEW p
  PROVE  Base(<<p>> \o o, n) = Plus(Base(o, n), p[2])
<1> DEFINE u == <<p>> \o o
           m == Len(o)
           S(i) == {j \in DOMAIN o : o[j][2] = Obj(i)}
           U(i) == {j \in DOMAIN u : u[j][2] = Obj(i)}
           Q(i) == Unread(n)[i] + Is(Obj(Bottom), i)
<1>1. /\ m \in Nat /\ DOMAIN o = 1 .. m /\ DOMAIN u = 1 .. m + 1 /\ u[1] = p
      /\ \A j \in 1 .. m : u[j + 1] = o[j]
  BY SequenceFacts, PrefixedFacts DEF World
<1>2. /\ \A i \in Nat : Base(o, n)[i] = Cardinality(S(i)) + Unread(n)[i] + Is(Obj(Bottom), i)
      /\ Base(u, n) = [i \in Nat |-> Cardinality(U(i)) + Unread(n)[i] + Is(Obj(Bottom), i)]
      /\ Base(o, n) \in Ledger
  BY BaseFacts DEF Base
<1> DEFINE v == p[2]
<1> HIDE DEF u, m
<1>3. ASSUME NEW i \in Nat
      PROVE  /\ Cardinality(S(i)) \in Nat
             /\ Cardinality(U(i)) = Cardinality(S(i)) + Is(v, i)
  <2>1. S(i) \subseteq 1 .. m /\ U(i) \subseteq 1 .. m + 1 /\ (1 \in U(i) <=> v = Obj(i))
    BY <1>1
  <2>2. \A j \in 1 .. m : j + 1 \in 1 .. m + 1
    BY <1>1
  <2>3. \A j \in 1 .. m : j + 1 \in U(i) <=> j \in S(i)
    BY <1>1, <2>2
  <2> HIDE DEF S, U, v
  <2>4. QED
    BY <1>1, <2>1, <2>3, Shifted DEF Is
<1> HIDE DEF S, U, v
<1>4. \A i \in Nat : Unread(n)[i] \in Nat /\ Is(Obj(Bottom), i) \in {0, 1} /\ Is(v, i) \in {0, 1}
  <2>1. DOMAIN n = 1 .. Len(n) /\ Len(n) \in Nat
    BY SequenceFacts DEF World
  <2>2. IsFiniteSet(DOMAIN n)
    BY <2>1, FS_Interval
  <2>3. \A i : Cardinality({j \in DOMAIN n : n[j].expr = Obj(i)}) \in Nat
    BY <2>2, FS_Subset, FS_CardinalityType
  <2>4. QED
    BY <2>3 DEF Unread, Is
<1>5. \A i \in Nat : Cardinality(U(i)) + Unread(n)[i] + Is(Obj(Bottom), i) = Base(o, n)[i] + Is(v, i)
  BY <1>2, <1>3, <1>4
<1>6. Base(u, n) = Plus(Base(o, n), v)
  BY <1>2, <1>5 DEF Plus
<1>7. QED
  BY <1>6 DEF u, v

LEMMA ExpressionMore ==
  ASSUME NEW h, NEW o, NEW n, World(h, o, n), NEW e
  PROVE  Base(o, <<e>> \o n) = Plus(Base(o, n), e.expr)
<1> DEFINE u == <<e>> \o n
           m == Len(n)
           C(i) == Cardinality({j \in DOMAIN o : o[j][2] = Obj(i)})
           S(i) == {j \in DOMAIN n : n[j].expr = Obj(i)}
           U(i) == {j \in DOMAIN u : u[j].expr = Obj(i)}
<1>1. /\ m \in Nat /\ DOMAIN n = 1 .. m /\ DOMAIN u = 1 .. m + 1 /\ u[1] = e
      /\ \A j \in 1 .. m : u[j + 1] = n[j]
  BY SequenceFacts, PrefixedFacts DEF World
<1>2. \A i \in Nat : C(i) \in Nat
  <2>1. DOMAIN o = 1 .. Len(o) /\ Len(o) \in Nat
    BY SequenceFacts DEF World
  <2>2. IsFiniteSet(DOMAIN o)
    BY <2>1, FS_Interval
  <2>3. QED
    BY <2>2, FS_Subset, FS_CardinalityType
<1>3. /\ \A i \in Nat : Base(o, n)[i] = C(i) + Cardinality(S(i)) + Is(Obj(Bottom), i)
      /\ Base(o, n) \in Ledger
  BY BaseFacts
<1>4. Base(o, u) = [i \in Nat |-> C(i) + Cardinality(U(i)) + Is(Obj(Bottom), i)]
  BY DEF Base, Unread
<1> HIDE DEF u, m, C
<1>5. ASSUME NEW i \in Nat
      PROVE  /\ Cardinality(S(i)) \in Nat
             /\ Cardinality(U(i)) = Cardinality(S(i)) + Is(e.expr, i)
  <2>1. S(i) \subseteq 1 .. m /\ U(i) \subseteq 1 .. m + 1 /\ (1 \in U(i) <=> e.expr = Obj(i))
    BY <1>1
  <2>2. \A j \in 1 .. m : j + 1 \in 1 .. m + 1
    BY <1>1
  <2>3. \A j \in 1 .. m : j + 1 \in U(i) <=> j \in S(i)
    BY <1>1, <2>2
  <2> HIDE DEF S, U
  <2>4. QED
    BY <1>1, <2>1, <2>3, Shifted DEF Is
<1> HIDE DEF S, U
<1>6. \A i \in Nat : Is(Obj(Bottom), i) \in {0, 1} /\ Is(e.expr, i) \in {0, 1}
  BY DEF Is
<1>7. \A i \in Nat : C(i) + Cardinality(U(i)) + Is(Obj(Bottom), i) = Base(o, n)[i] + Is(e.expr, i)
  BY <1>2, <1>3, <1>5, <1>6
<1>8. Base(o, u) = Plus(Base(o, n), e.expr)
  BY <1>4, <1>7 DEF Plus
<1>9. QED
  BY <1>8 DEF u

LEMMA StockMore ==
  ASSUME NEW b \in Ledger, NEW ks, IsSequence(ks), NEW p
  PROVE  Stock(Plus(b, p), ks) = Plus(Stock(b, ks), p)
<1> DEFINE C(i) == Cardinality({j \in DOMAIN ks : Claim(ks[j]) = Obj(i)})
<1>1. \A i \in Nat : C(i) \in Nat
  <2>1. DOMAIN ks = 1 .. Len(ks) /\ Len(ks) \in Nat
    BY SequenceFacts
  <2>2. IsFiniteSet(DOMAIN ks)
    BY <2>1, FS_Interval
  <2>3. QED
    BY <2>2, FS_Subset, FS_CardinalityType
<1>2. /\ \A v : Stock(v, ks) = [i \in Nat |-> v[i] + C(i)]
      /\ \A i \in Nat : Plus(b, p)[i] = b[i] + Is(p, i) /\ b[i] \in Int /\ Is(p, i) \in {0, 1}
  BY LedgerFacts DEF Stock, Ledger, Is
<1> HIDE DEF C
<1>3. \A i \in Nat : Plus(b, p)[i] + C(i) = Stock(b, ks)[i] + Is(p, i)
  BY <1>1, <1>2
<1>4. Stock(Plus(b, p), ks) = [i \in Nat |-> Plus(b, p)[i] + C(i)]
  BY <1>2
<1>5. Plus(Stock(b, ks), p) = [i \in Nat |-> Stock(b, ks)[i] + Is(p, i)]
  BY DEF Plus
<1>6. QED
  BY <1>3, <1>4, <1>5

LEMMA DeepBindLands ==
  ASSUME NEW h, NEW name, NEW v, NEW ks, Ready(h, oblist, input, ks), Value(h, v),
         DeepBind(h, name, v, ks)
  PROVE  IInv'
<1> DEFINE g == IncRef(h, v)
           p == <<name, v>>
           o == <<p>> \o oblist
           b == Base(oblist, input)
           w == Stock(b, ks)
<1>1. /\ Sound(h, w) /\ w \in Ledger /\ Held(h, w, ActiveOf(ks)) /\ IsSequence(ks)
      /\ ActiveOf(ks) \subseteq DOMAIN h /\ DOMAIN h \subseteq Nat /\ World(h, oblist, input)
      /\ b \in Ledger
  BY ReadyFacts, BaseFacts DEF Ready
<1>2. Base(o, input) = Plus(b, v)
  BY <1>1, BindingMore
<1>3. oblist' = o /\ heap' = g /\ ctl' = Return(v) /\ kont' = ks /\ input' = input
  BY DEF DeepBind
<1> HIDE DEF b, o
<1>4. Stock(Base(o, input), ks) = Plus(w, v)
  BY <1>1, <1>2, StockMore
<1> HIDE DEF w
<1>5. Sound(g, Plus(w, v)) /\ Leaves(h, g, DOMAIN h)
  BY <1>1, IncRefSound DEF Value
<1> HIDE DEF g
<1>6. Leaves(h, g, ActiveOf(ks)) /\ Grows(h, g) /\ Sound(g, w)
  <2>1. Leaves(h, g, ActiveOf(ks)) /\ Grows(h, g)
    BY <1>1, <1>5, LeavesFacts DEF Leaves
  <2>2. Value(g, v)
    BY <2>1, GrowsValue
  <2>3. QED
    BY <1>1, <1>5, <2>1, <2>2, NoMore
<1>7. Ready(g, oblist, input, ks) /\ Value(g, v)
  BY <1>6, ReadyOn DEF w, b
<1>8. Held(g, Plus(w, v), ActiveOf(ks))
  <2>1. Held(g, w, ActiveOf(ks)) /\ ActiveOf(ks) \subseteq Nat
    BY <1>1, <1>6, HeldOn
  <2>2. QED
    BY <1>1, <1>7, <2>1, HeldValue
<1>9. World(g, o, input)
  <2>1. World(g, oblist, input) /\ IsSequence(oblist)
    BY <1>7 DEF Ready, World
  <2>2. /\ IsSequence(o) /\ Len(oblist) \in Nat /\ DOMAIN o = 1 .. Len(oblist) + 1 /\ o[1] = p
        /\ DOMAIN oblist = 1 .. Len(oblist) /\ \A j \in DOMAIN oblist : o[j + 1] = oblist[j]
    BY <2>1, PrefixedFacts, SequenceFacts DEF o
  <2>3. \A j \in DOMAIN o : j = 1 \/ (j - 1 \in DOMAIN oblist /\ (j - 1) + 1 = j)
    BY <2>2
  <2>4. \A j \in DOMAIN o : o[j] = p \/ \E l \in DOMAIN oblist : o[j] = oblist[l]
    BY <2>2, <2>3
  <2>5. p[2] = v
    OBVIOUS
  <2> HIDE DEF p
  <2>6. \A j \in DOMAIN o : Value(g, o[j][2])
    BY <1>7, <2>1, <2>4, <2>5 DEF World
  <2>7. QED
    BY <2>1, <2>2, <2>6 DEF World
<1>10. Ready(g, o, input, ks)
  BY <1>4, <1>5, <1>7, <1>8, <1>9 DEF Ready
<1>11. Return(v).mode = "return" /\ Return(v).value = v
  BY DEF Return
<1>12. Runs(g, Return(v), ks)
  BY <1>7, <1>11 DEF Runs
<1>13. Ready(heap', oblist', input', kont') /\ Runs(heap', ctl', kont')
  BY <1>3, <1>10, <1>12
<1>14. QED
  BY <1>13 DEF IInv

LEMMA MapNextLands ==
  ASSUME NEW h, NEW f, NEW list, NEW acc, NEW env, NEW ks, Ready(h, oblist, input, ks),
         f \in ActiveOf(ks), Value(h, list), Value(h, acc), Value(h, env),
         MapNext(h, f, list, acc, env, ks)
  PROVE  IInv'
<1> DEFINE a == MakeCons(h, Car(h, list), Nil)
           e == MakeCons(a.heap, Reg(a.heap, f, 1), a.ptr)
           g == e.heap
           k == Waits("mapcar", f, env, list, acc, e.ptr, 0)
<1>1. CASE list # Nil /\ Go(e.heap, Eval(e.ptr, f, env),
               <<[K("mapcar", f, env) EXCEPT !.rest = list, !.acc = acc, !.fn = e.ptr]>> \o ks)
  <2>1. [K("mapcar", f, env) EXCEPT !.rest = list, !.acc = acc, !.fn = e.ptr] = k
    <3> HIDE DEF e
    <3>1. QED
      BY KRestAccFn
  <2>2. Go(g, Eval(e.ptr, f, env), <<k>> \o ks)
    BY <1>1, <2>1
  <2>3. Value(h, Car(h, list)) /\ Value(h, Nil) /\ Sound(h, Stock(Base(oblist, input), ks))
    BY ReadyFacts, CarCdrValue, NilValue
  <2>4. Made(h, Stock(Base(oblist, input), ks), a, DOMAIN h)
    BY <2>3, MakeConsMade
  <2> HIDE DEF a
  <2>5. /\ Ready(a.heap, oblist, input, ks) /\ Value(a.heap, a.ptr)
        /\ Value(a.heap, list) /\ Value(a.heap, acc) /\ Value(a.heap, env)
    BY <2>4, ReadyMade
  <2>6. Value(a.heap, Reg(a.heap, f, 1)) /\ Sound(a.heap, Stock(Base(oblist, input), ks))
    BY <2>5, ReadyFacts, Registers
  <2>7. Made(a.heap, Stock(Base(oblist, input), ks), e, DOMAIN a.heap)
    BY <2>5, <2>6, MakeConsMade
  <2> HIDE DEF e
  <2>8. /\ Ready(g, oblist, input, ks) /\ Value(g, e.ptr)
        /\ Value(g, list) /\ Value(g, acc) /\ Value(g, env)
        /\ Sound(g, Plus(Stock(Base(oblist, input), ks), e.ptr))
    BY <2>5, <2>7, ReadyMade
  <2> HIDE DEF g
  <2>9. k.k = "mapcar" /\ k.frame = f /\ k.fn = e.ptr /\ Valued(g, k)
    BY <2>8, WaitsFacts, WaitsValued
  <2>10. Bounded(g, k)
    BY WaitsBounded DEF Carefree
  <2> HIDE DEF k
  <2>11. k.k \notin Owners /\ k.k # "repl" /\ Claim(k) = e.ptr /\ k.frame \in ActiveOf(ks)
    BY <2>9 DEF Claim, Owners
  <2>12. Ready(g, oblist, input, <<k>> \o ks) /\ ActiveOf(<<k>> \o ks) = ActiveOf(ks)
    BY <2>8, <2>9, <2>10, <2>11, PushOther
  <2> DEFINE u == <<k>> \o ks
  <2>13. Ready(g, oblist, input, u) /\ f \in ActiveOf(u) /\ Go(g, Eval(e.ptr, f, env), u)
    BY <2>2, <2>12
  <2> HIDE DEF u
  <2>14. QED
    BY <2>8, <2>13, LandEval
<1>2. CASE list = Nil /\ GoReturn(Reverse(h, acc), ks)
  BY <1>2, ReadyFacts, ReverseGot, LandGot
<1>3. QED
  <2> HIDE DEF k
  <2>1. QED
    BY <1>1, <1>2 DEF MapNext

-----------------------------------------------------------------------------
(* Lambdas: names are bound to arguments, one after the other. *)
LEMMA RegisterBounded ==
  ASSUME NEW h, NEW k, k \in {"progn", "register"}, NEW f, NEW env, NEW a, NEW b, NEW c, NEW i,
         i \in 1 .. ArgsInFrame
  PROVE  Bounded(h, Waits(k, f, env, a, b, c, i))
<1> DEFINE w == Waits(k, f, env, a, b, c, i)
<1>1. w.k = k /\ w.i = i
  BY WaitsFacts
<1> HIDE DEF w
<1>2. Bounded(h, w)
  BY <1>1 DEF Bounded
<1>3. QED
  BY <1>2 DEF w

NextBound(names, f, n, g, p) == Bind(g, names[n], RawArg(g, f, n), p)
Binds(h, f, names, env, N) ==
  CHOOSE run : run = [i \in 0 .. N |->
    IF i = 0 THEN [heap |-> h, ptr |-> env]
    ELSE LET b == run[i - 1] IN Bind(b.heap, names[i], RawArg(b.heap, f, i), b.ptr)]

LEMMA BindsFacts ==
  ASSUME NEW h, NEW f, NEW names, NEW env, NEW N \in Nat
  PROVE  LET F == Binds(h, f, names, env, N)
         IN  F[0] = [heap |-> h, ptr |-> env] /\ \A n \in 1 .. N : F[n] = NextBound(names, f, n, F[n - 1].heap, F[n - 1].ptr)
<1> DEFINE start == [heap |-> h, ptr |-> env]
           step(s, n) == NextBound(names, f, n, s.heap, s.ptr)
           stage(u, n) == IF n = 0 THEN start ELSE step(u[n - 1], n)
           P == {m \in 0 .. N : \E u : u = [n \in 0 .. m |-> stage(u, n)]}
           F == Binds(h, f, names, env, N)
<1>1. (\E u : u = [n \in 0 .. N |-> stage(u, n)]) => F = [n \in 0 .. N |-> stage(F, n)]
  BY DEF Binds, NextBound
<1> HIDE DEF step, F
<1>2. 0 \in P
  <2> DEFINE u == [n \in 0 .. 0 |-> start]
  <2>1. u = [n \in 0 .. 0 |-> stage(u, n)]
    OBVIOUS
  <2> HIDE DEF u, stage
  <2>2. QED
    BY <2>1
<1>3. ASSUME NEW m \in 1 .. N, m - 1 \in P
      PROVE  m \in P
  <2>1. PICK u : u = [n \in 0 .. m - 1 |-> stage(u, n)]
    BY <1>3
  <2> DEFINE e == [n \in 0 .. m |-> IF n = m THEN step(u[m - 1], m) ELSE u[n]]
  <2>2. ASSUME NEW n \in 0 .. m
        PROVE  e[n] = stage(e, n)
    <3>1. CASE n = m
      <4>1. n # 0 /\ n - 1 \in 0 .. m /\ n - 1 # m
        BY <3>1
      <4>2. e[n - 1] = u[n - 1] /\ e[n] = step(u[m - 1], m)
        BY <3>1, <4>1
      <4> HIDE DEF e
      <4>3. QED
        BY <3>1, <4>1, <4>2
    <3>2. CASE n # m
      <4>1. n \in 0 .. m - 1 /\ (n # 0 => n - 1 \in 0 .. m - 1 /\ n - 1 \in 0 .. m /\ n - 1 # m)
        BY <3>2
      <4>2. e[n] = u[n] /\ (n # 0 => e[n - 1] = u[n - 1])
        BY <3>2, <4>1
      <4>3. u[n] = stage(u, n)
        <5> HIDE DEF stage
        <5>1. QED
          BY <2>1, <4>1
      <4> HIDE DEF e
      <4>4. QED
        BY <4>2, <4>3
    <3>3. QED
      BY <3>1, <3>2
  <2>3. e = [n \in 0 .. m |-> e[n]]
    OBVIOUS
  <2> HIDE DEF e, stage
  <2>4. e = [n \in 0 .. m |-> stage(e, n)]
    BY <2>2, <2>3
  <2>5. QED
    BY <2>4
<1> HIDE DEF P
<1>4. N \in P
  <2>1. \A m \in 0 .. N : m \in P
    BY <1>2, <1>3, UpTo
  <2>2. QED
    BY <2>1
<1>5. F = [n \in 0 .. N |-> stage(F, n)]
  BY <1>1, <1>4 DEF P
<1>6. F[0] = start /\ \A n \in 1 .. N : F[n] = step(F[n - 1], n)
  BY <1>5
<1>7. QED
  BY <1>6 DEF F, step


LEMMA GrowsOn ==
  ASSUME NEW h, NEW g, Grows(h, g), NEW k, Grows(g, k)
  PROVE  Grows(h, k)
BY DEF Grows

LEMMA RawArgValue ==
  ASSUME NEW h, NEW o, NEW n, NEW ks, Ready(h, o, n, ks), NEW f, f \in ActiveOf(ks),
         NEW i, i \in Nat \ {0}
  PROVE  Value(h, RawArg(h, f, i))
<1>1. Value(h, More(h, f)) /\ \A r \in 1 .. ArgsInFrame : Value(h, Reg(h, f, r))
  BY ReadyFacts
<1>2. Value(h, Nil) /\ ArgsInFrame \in Nat
  BY NilValue, WidthFacts
<1>3. CASE i <= ArgsInFrame
  <2>1. i \in 1 .. ArgsInFrame /\ i <= ArgsInFrame + 1
    BY <1>2, <1>3
  <2>2. QED
    BY <1>1, <2>1 DEF RawArg, Reg
<1>4. CASE i = ArgsInFrame + 1
  BY <1>1, <1>4 DEF RawArg, More
<1>5. CASE i > ArgsInFrame + 1
  BY <1>2, <1>5 DEF RawArg
<1>6. QED
  BY <1>2, <1>3, <1>4, <1>5

LEMMA BindNamesReady ==
  ASSUME NEW h, NEW o, NEW n, NEW ks, Ready(h, o, n, ks), NEW f, f \in ActiveOf(ks),
         NEW names, ValuesIn(h, names), NEW env, Value(h, env)
  PROVE  LET r == BindNames(h, f, names, env)
         IN  /\ Ready(r.heap, o, n, ks) /\ Value(r.heap, r.ptr)
             /\ \A p : Value(h, p) => Value(r.heap, p)
<1> DEFINE N == IF h[f].args < Len(names) THEN h[f].args ELSE Len(names)
           R == Binds(h, f, names, env, N)
           P == {i \in 0 .. N : /\ Ready(R[i].heap, o, n, ks) /\ Value(R[i].heap, R[i].ptr)
                                /\ Grows(h, R[i].heap)}
<1>1. N \in Nat /\ \A i \in 1 .. N : Value(h, names[i])
  <2>1. Len(names) \in Nat /\ DOMAIN names = 1 .. Len(names) /\ h[f].args \in Nat
    BY ReadyFacts, SequenceFacts DEF ValuesIn
  <2>2. N \in Nat /\ N <= Len(names)
    BY <2>1
  <2> HIDE DEF N
  <2>3. \A i \in 1 .. N : i \in DOMAIN names
    BY <2>1, <2>2
  <2>4. QED
    BY <2>2, <2>3 DEF ValuesIn
<1>2. BindNames(h, f, names, env) = R[N]
  BY DEF BindNames, Binds
<1> HIDE DEF N
<1>3. /\ R[0] = [heap |-> h, ptr |-> env]
      /\ \A i \in 1 .. N : R[i] = NextBound(names, f, i, R[i - 1].heap, R[i - 1].ptr)
  BY <1>1, BindsFacts
<1> HIDE DEF R
<1>4. 0 \in P
  <2>1. Grows(h, h)
    BY DEF Grows
  <2>2. QED
    BY <1>1, <1>3, <2>1
<1>5. ASSUME NEW i \in 1 .. N, i - 1 \in P
      PROVE  i \in P
  <2> DEFINE l == R[i - 1]
             g == l.heap
             v == RawArg(g, f, i)
             r == R[i]
  <2>1. /\ Ready(g, o, n, ks) /\ Value(g, l.ptr) /\ Grows(h, g)
        /\ r = Bind(g, names[i], v, l.ptr)
    BY <1>3, <1>5 DEF NextBound
  <2>2. i \in Nat \ {0}
    BY <1>1
  <2> HIDE DEF l
  <2>3. Value(g, names[i]) /\ Value(g, v) /\ Sound(g, Stock(Base(o, n), ks))
    BY <1>1, <2>1, <2>2, GrowsValue, RawArgValue, ReadyFacts
  <2> HIDE DEF g, v
  <2>4. Made(g, Stock(Base(o, n), ks), Bind(g, names[i], v, l.ptr), DOMAIN g)
    BY <2>1, <2>3, BindMade
  <2> HIDE DEF r
  <2>5. Made(g, Stock(Base(o, n), ks), r, DOMAIN g)
    BY <2>1, <2>4
  <2>6. Ready(r.heap, o, n, ks) /\ Value(r.heap, r.ptr) /\ Grows(g, r.heap)
    BY <2>1, <2>5, ReadyMade
  <2>7. Grows(h, r.heap)
    BY <2>1, <2>6, GrowsOn
  <2>8. QED
    BY <2>6, <2>7 DEF r
<1> HIDE DEF P
<1>6. \A i \in 0 .. N : i \in P
  BY <1>1, <1>4, <1>5, UpTo
<1>7. /\ Ready(R[N].heap, o, n, ks) /\ Value(R[N].heap, R[N].ptr)
      /\ Grows(h, R[N].heap)
  BY <1>1, <1>6 DEF P
<1>8. \A p : Value(h, p) => Value(R[N].heap, p)
  BY <1>7, GrowsValue
<1>9. QED
  BY <1>2, <1>7, <1>8

LEMMA EvalLambdaLands ==
  ASSUME NEW h, NEW fn, NEW f, NEW env, NEW ks, Ready(h, oblist, input, ks), f \in ActiveOf(ks),
         Value(h, env), Value(h, fn), Tag(h, fn) \in {"LAMBDA", "NLAMBDA"},
         EvalLambda(h, fn, f, env, ks)
  PROVE  IInv'
<1> DEFINE names == h[fn[2]].part[1]
           body == h[fn[2]].part[2]
<1>1. HeapOK(h)
  BY ReadyFacts
<1>2. Value(h, names) /\ Value(h, body)
  <2>1. Tag(h, fn) \in {"CONS", "STRG", "LAMBDA", "NLAMBDA"} /\ 1 \in {1, 2} /\ 2 \in {1, 2}
    OBVIOUS
  <2>2. QED
    BY <1>1, <2>1, PartValue
<1>3. \/ LET e == BindNames(h, f, Items(h, names), env) IN EvalBody(e.heap, f, e.ptr, body, ks)
      \/ EvalForms(h, More(h, f), Nil, f, env,
                   <<[K("varargs", f, env) EXCEPT !.fn = names, !.rest = body]>> \o ks)
      \/ EvalBody(h, f, env, body, ks)
  BY DEF EvalLambda
<1> HIDE DEF names, body
<1>4. CASE LET e == BindNames(h, f, Items(h, names), env) IN EvalBody(e.heap, f, e.ptr, body, ks)
  <2> DEFINE e == BindNames(h, f, Items(h, names), env)
  <2>1. ValuesIn(h, Items(h, names))
    BY <1>1, <1>2, ItemsFacts
  <2>2. Ready(e.heap, oblist, input, ks) /\ Value(e.heap, e.ptr) /\ Value(e.heap, body)
    BY <1>2, <2>1, BindNamesReady
  <2>3. EvalBody(e.heap, f, e.ptr, body, ks)
    BY <1>4
  <2> HIDE DEF e
  <2>4. QED
    BY <2>2, <2>3, EvalBodyLands
<1>5. CASE EvalForms(h, More(h, f), Nil, f, env,
                     <<[K("varargs", f, env) EXCEPT !.fn = names, !.rest = body]>> \o ks)
  <2> DEFINE u == <<Waits("varargs", f, env, body, Nil, names, 0)>> \o ks
  <2>1. [K("varargs", f, env) EXCEPT !.fn = names, !.rest = body] =
          Waits("varargs", f, env, body, Nil, names, 0)
    BY KFnRest
  <2>2. EvalForms(h, More(h, f), Nil, f, env, u)
    BY <1>5, <2>1
  <2>3. /\ Value(h, Nil) /\ Value(h, More(h, f)) /\ "varargs" \notin Owners
        /\ Bounded(h, Waits("varargs", f, env, body, Nil, names, 0))
    BY ReadyFacts, NilValue, WaitsBounded DEF Carefree, Owners
  <2>4. Ready(h, oblist, input, u) /\ ActiveOf(u) = ActiveOf(ks)
    BY <1>2, <2>3, PushWaits
  <2> HIDE DEF u
  <2>5. QED
    BY <2>2, <2>3, <2>4, EvalFormsLands
<1>6. CASE EvalBody(h, f, env, body, ks)
  BY <1>2, <1>6, EvalBodyLands
<1>7. QED
  BY <1>3, <1>4, <1>5, <1>6

LEMMA EvalRegistersLands ==
  ASSUME NEW h, NEW i, i \in 0 .. ArgsInFrame, NEW vals, NEW names, NEW body, NEW f, NEW env, NEW ks,
         Ready(h, oblist, input, ks), f \in ActiveOf(ks), Value(h, vals), Value(h, names),
         Value(h, body), Value(h, env), EvalRegisters(h, i, vals, names, body, f, env, ks)
  PROVE  IInv'
<1>1. CASE i > 0 /\ Go(h, Eval(Reg(h, f, i), f, env),
             <<[K("register", f, env) EXCEPT !.i = i, !.acc = vals, !.fn = names, !.rest = body]>> \o ks)
  <2>1. [K("register", f, env) EXCEPT !.i = i, !.acc = vals, !.fn = names, !.rest = body] =
          Waits("register", f, env, body, vals, names, i)
    BY KIAccFnRest
  <2>2. Go(h, Eval(Reg(h, f, i), f, env), <<Waits("register", f, env, body, vals, names, i)>> \o ks)
    BY <1>1, <2>1
  <2>3. i \in 1 .. ArgsInFrame
    BY <1>1, WidthFacts
  <2>4. /\ Value(h, Reg(h, f, i)) /\ "register" \notin Owners
        /\ Bounded(h, Waits("register", f, env, body, vals, names, i))
    BY <2>3, ReadyFacts, RegisterBounded DEF Owners
  <2>5. QED
    BY <2>2, <2>4, LandWaits
<1>2. CASE LET e == Bind(h, names, vals, env) IN EvalBody(e.heap, f, e.ptr, body, ks)
  <2> DEFINE e == Bind(h, names, vals, env)
  <2>1. EvalBody(e.heap, f, e.ptr, body, ks) /\ Sound(h, Stock(Base(oblist, input), ks))
    BY <1>2, ReadyFacts
  <2>2. Made(h, Stock(Base(oblist, input), ks), e, DOMAIN h)
    BY <2>1, BindMade
  <2> HIDE DEF e
  <2>3. Ready(e.heap, oblist, input, ks) /\ Value(e.heap, e.ptr) /\ Value(e.heap, body)
    BY <2>2, ReadyMade
  <2>4. QED
    BY <2>1, <2>3, EvalBodyLands
<1>3. QED
  BY <1>1, <1>2 DEF EvalRegisters

-----------------------------------------------------------------------------
(* The functions that evaluate nothing, on a frame that is held. *)
LEMMA OnFrame ==
  ASSUME NEW h, NEW w, Sound(h, w), NEW F, Held(h, w, F), NEW f, f \in F
  PROVE  /\ HeapOK(h) /\ w \in Ledger /\ IsFrame(h, f) /\ h[f].args \in Nat
         /\ Value(h, Reg(h, f, 1)) /\ Value(h, Reg(h, f, 2)) /\ Value(h, Reg(h, f, 3))
         /\ Value(h, More(h, f)) /\ \A r \in 1 .. ArgsInFrame : Value(h, Reg(h, f, r))
         /\ \A n \in Nat \ {0} : Value(h, Arg(h, f, n))
<1>1. HeapOK(h) /\ w \in Ledger
  BY SoundFacts
<1>2. IsFrame(h, f) /\ h[f].args \in Nat
  BY HeldFacts
<1>3. /\ \A r \in 1 .. ArgsInFrame : Value(h, Reg(h, f, r))
      /\ Value(h, More(h, f)) /\ \A n \in Nat \ {0} : Value(h, Arg(h, f, n))
  BY RegisterValues
<1>4. QED
  BY <1>1, <1>2, <1>3, Registers

LEMMA SameGot ==
  ASSUME NEW h, NEW w, Sound(h, w), NEW p, Value(h, p)
  PROVE  Got(h, w, Same(h, p), DOMAIN h)
BY NothingGot DEF Same

LEMMA ListGot ==
  ASSUME NEW h, NEW w, Sound(h, w), NEW F, Held(h, w, F), NEW f, f \in F
  PROVE  Got(h, w, LispList(h, f), DOMAIN h)
<1> DEFINE n == h[f].args
           s == Args(h, f)
           b == Backwards(s)
           r == [i \in 1 .. ArgsInFrame |-> Reg(h, f, ArgsInFrame + 1 - i)]
<1>1. /\ n \in Nat /\ Value(h, More(h, f)) /\ \A i \in 1 .. ArgsInFrame : Value(h, Reg(h, f, i))
      /\ \A i \in Nat \ {0} : Value(h, Arg(h, f, i))
  BY OnFrame
<1>2. s = [i \in 1 .. n |-> Arg(h, f, i)]
  BY DEF Args
<1> HIDE DEF n, s
<1>3. IsSequence(s) /\ Len(s) = n /\ DOMAIN s = 1 .. n
  <2>1. s = [i \in 1 .. n |-> s[i]]
    BY <1>2
  <2>2. QED
    BY <1>1, <2>1, MadeSequence
<1>4. ValuesIn(h, b)
  <2>1. b = [i \in 1 .. n |-> s[n + 1 - i]]
    BY <1>3 DEF Backwards
  <2> HIDE DEF b
  <2>2. b = [i \in 1 .. n |-> b[i]]
    BY <2>1
  <2>3. IsSequence(b) /\ DOMAIN b = 1 .. n
    BY <1>1, <2>2, MadeSequence
  <2>4. ASSUME NEW i \in 1 .. n
        PROVE  Value(h, b[i])
    <3>1. n + 1 - i \in 1 .. n /\ n + 1 - i \in Nat \ {0}
      BY <1>1
    <3>2. b[i] = Arg(h, f, n + 1 - i)
      BY <1>2, <2>1, <3>1
    <3>3. QED
      BY <1>1, <3>1, <3>2
  <2>5. QED
    BY <2>3, <2>4 DEF ValuesIn
<1>5. ValuesIn(h, r)
  <2>1. r = [i \in 1 .. ArgsInFrame |-> r[i]]
    OBVIOUS
  <2>2. \A i \in 1 .. ArgsInFrame : ArgsInFrame + 1 - i \in 1 .. ArgsInFrame
    BY WidthFacts
  <2>3. \A i \in 1 .. ArgsInFrame : Value(h, r[i])
    BY <1>1, <2>2
  <2> HIDE DEF r
  <2>4. IsSequence(r) /\ DOMAIN r = 1 .. ArgsInFrame
    BY <2>1, MadeSequence, WidthFacts
  <2>5. QED
    BY <2>3, <2>4 DEF ValuesIn
<1>6. LispList(h, f) = ConsAll(h, IF More(h, f) = Nil THEN b ELSE r, More(h, f))
  BY DEF LispList, s
<1> HIDE DEF b, r
<1>7. Got(h, w, ConsAll(h, b, More(h, f)), DOMAIN h)
  BY <1>1, <1>4, ConsAllGot
<1>8. Got(h, w, ConsAll(h, r, More(h, f)), DOMAIN h)
  BY <1>1, <1>5, ConsAllGot
<1>9. QED
  BY <1>6, <1>7, <1>8

LEMMA ConsGot ==
  ASSUME NEW h, NEW w, Sound(h, w), NEW F, Held(h, w, F), NEW f, f \in F
  PROVE  Got(h, w, LispCons(h, f), DOMAIN h)
<1> DEFINE a == Reg(h, f, 1)
           d == Reg(h, f, 2)
           c == h[a[2]].part[1]
           g == Lend(h, d)
<1>1. Value(h, a) /\ Value(h, d) /\ HeapOK(h) /\ w \in Ledger
  BY OnFrame
<1>2. \/ LispCons(h, f) = Same(h, Nil)
      \/ Tag(h, a) = "STRG" /\ LispCons(h, f) = MakeString(g, c, d)
      \/ LispCons(h, f) = MakeCons(h, a, d)
  BY DEF LispCons
<1> HIDE DEF a, d
<1>3. CASE LispCons(h, f) = Same(h, Nil)
  BY <1>3, SameGot, NilValue
<1>4. CASE Tag(h, a) = "STRG" /\ LispCons(h, f) = MakeString(g, c, d)
  <2>1. Value(h, c) /\ ~IsObj(c)
    <3>1. Tag(h, a) \in {"CONS", "STRG", "LAMBDA", "NLAMBDA"} /\ 1 \in {1, 2}
      BY <1>4
    <3>2. QED
      BY <1>1, <1>4, <3>1, PartValue
  <2> HIDE DEF c
  <2>2. Sound(g, Plus(w, d)) /\ Leaves(h, g, DOMAIN h)
    BY <1>1, LendSound
  <2> HIDE DEF g
  <2>3. Value(g, d) /\ Value(g, c)
    BY <1>1, <2>1, <2>2, GrowsValue DEF Leaves
  <2>4. Made(g, w, MakeString(g, c, d), DOMAIN g)
    BY <1>1, <2>1, <2>2, <2>3, MakeStringMade
  <2>5. Got(g, w, MakeString(g, c, d), DOMAIN g)
    BY <1>1, <2>4, MadeGot
  <2>6. QED
    BY <1>4, <2>2, <2>5, ThenMade
<1>5. CASE LispCons(h, f) = MakeCons(h, a, d)
  BY <1>1, <1>5, MakeConsMade, MadeGot
<1>6. QED
  BY <1>2, <1>3, <1>4, <1>5

LEMMA CarGot ==
  ASSUME NEW h, NEW w, Sound(h, w), NEW F, Held(h, w, F), NEW f, f \in F
  PROVE  Got(h, w, LispCar(h, f), DOMAIN h)
<1> DEFINE a == Reg(h, f, 1)
           c == h[a[2]].part[1]
           text == Text("Attempt to take CAR of non sequence")
<1>1. Value(h, a) /\ HeapOK(h) /\ w \in Ledger /\ IsFrame(h, f)
  BY OnFrame
<1>2. \/ LispCar(h, f) = Same(h, Car(h, a))
      \/ Tag(h, a) = "STRG" /\ LispCar(h, f) = MakeString(h, c, Nil)
      \/ LispCar(h, f) = Throw(h, Sym("car"), text, f)
  BY DEF LispCar
<1>3. Value(h, Sym("car")) /\ Value(h, text) /\ Value(h, Nil) /\ ~IsObj(Nil)
  BY AtomValues, NilValue
<1> HIDE DEF a, text
<1>4. CASE LispCar(h, f) = Same(h, Car(h, a))
  BY <1>1, <1>4, SameGot, CarCdrValue
<1>5. CASE Tag(h, a) = "STRG" /\ LispCar(h, f) = MakeString(h, c, Nil)
  <2>1. Value(h, c) /\ ~IsObj(c)
    <3>1. Tag(h, a) \in {"CONS", "STRG", "LAMBDA", "NLAMBDA"} /\ 1 \in {1, 2}
      BY <1>5
    <3>2. QED
      BY <1>1, <1>5, <3>1, PartValue
  <2> HIDE DEF c
  <2>2. Sound(h, Plus(w, Nil))
    BY <1>1, <1>3, AtomLedger
  <2>3. Made(h, w, MakeString(h, c, Nil), DOMAIN h)
    BY <1>1, <1>3, <2>1, <2>2, MakeStringMade
  <2>4. QED
    BY <1>1, <1>5, <2>3, MadeGot
<1>6. CASE LispCar(h, f) = Throw(h, Sym("car"), text, f)
  BY <1>1, <1>3, <1>6, ThrowGot
<1>7. QED
  BY <1>2, <1>4, <1>5, <1>6

LEMMA CdrGot ==
  ASSUME NEW h, NEW w, Sound(h, w), NEW F, Held(h, w, F), NEW f, f \in F
  PROVE  Got(h, w, LispCdr(h, f), DOMAIN h)
<1> DEFINE a == Reg(h, f, 1)
           text == Text("Attempt to take CDR of non sequence")
<1>1. Value(h, a) /\ HeapOK(h) /\ IsFrame(h, f)
  BY OnFrame
<1>2. \/ LispCdr(h, f) = Same(h, Cdr(h, a))
      \/ LispCdr(h, f) = Throw(h, Sym("cdr"), text, f)
  BY DEF LispCdr
<1>3. Value(h, Sym("cdr")) /\ Value(h, text)
  BY AtomValues
<1> HIDE DEF a, text
<1>4. CASE LispCdr(h, f) = Same(h, Cdr(h, a))
  BY <1>1, <1>4, SameGot, CarCdrValue
<1>5. CASE LispCdr(h, f) = Throw(h, Sym("cdr"), text, f)
  BY <1>1, <1>3, <1>5, ThrowGot
<1>6. QED
  BY <1>2, <1>4, <1>5

LEMMA SourceGot ==
  ASSUME NEW h, NEW w, Sound(h, w), NEW F, Held(h, w, F), NEW f, f \in F
  PROVE  Got(h, w, LispSource(h, f), DOMAIN h)
<1> DEFINE fn == Reg(h, f, 1)
           a == h[fn[2]].part[1]
           b == h[fn[2]].part[2]
           rest == MakeCons(h, a, b)
           g == rest.heap
           s == IF Tag(h, fn) = "LAMBDA" THEN Sym("lambda") ELSE Sym("nlambda")
           whole == MakeCons(g, s, rest.ptr)
           r == Same(IncRef(whole.heap, whole.ptr), whole.ptr)
<1>1. Value(h, fn) /\ HeapOK(h) /\ w \in Ledger
  BY OnFrame
<1>2. LispSource(h, f) = IF Tag(h, fn) \in {"LAMBDA", "NLAMBDA"} THEN r ELSE Same(h, Nil)
  BY DEF LispSource
<1>3. \A k : Value(k, s)
  BY AtomValues
<1> HIDE DEF fn, s
<1>4. ASSUME Tag(h, fn) \in {"LAMBDA", "NLAMBDA"}
      PROVE  Got(h, w, r, DOMAIN h)
  <2>1. Value(h, a) /\ Value(h, b)
    <3>1. Tag(h, fn) \in {"CONS", "STRG", "LAMBDA", "NLAMBDA"} /\ 1 \in {1, 2} /\ 2 \in {1, 2}
      BY <1>4
    <3>2. QED
      BY <1>1, <3>1, PartValue
  <2> HIDE DEF a, b
  <2>2. Made(h, w, rest, DOMAIN h)
    BY <2>1, MakeConsMade
  <2> HIDE DEF rest
  <2>3. Sound(g, w) /\ Value(g, rest.ptr) /\ Leaves(h, g, DOMAIN h) /\ Value(g, s)
    BY <1>1, <1>3, <2>2, MadeFacts
  <2> HIDE DEF g
  <2>4. Made(g, w, whole, DOMAIN g)
    BY <2>3, MakeConsMade
  <2> HIDE DEF whole
  <2>5. Made(h, w, whole, DOMAIN h)
    BY <2>3, <2>4, ThenMade
  <2> DEFINE k == whole.heap
             p == whole.ptr
             m == IncRef(k, p)
  <2>6. Sound(k, w) /\ Value(k, p) /\ Leaves(h, k, DOMAIN h)
    BY <1>1, <2>5, MadeFacts
  <2>7. r = Same(m, p)
    OBVIOUS
  <2> HIDE DEF k, p, r
  <2>8. Sound(m, Plus(w, p)) /\ Leaves(k, m, DOMAIN k)
    BY <2>6, IncRefSound DEF Value
  <2> HIDE DEF m
  <2>9. Sound(m, w) /\ Value(m, p)
    BY <1>1, <2>6, <2>8, NoMore, GrowsValue DEF Leaves
  <2>10. Got(m, w, r, DOMAIN m)
    BY <2>7, <2>9, SameGot
  <2>11. Leaves(h, m, DOMAIN h)
    <3>1. Leaves(k, m, DOMAIN h)
      BY <2>6, <2>8, LeavesFacts DEF Leaves, Grows
    <3>2. QED
      BY <2>6, <3>1, LeavesFacts
  <2>12. QED
    BY <2>10, <2>11, ThenMade
<1> HIDE DEF r
<1>5. Got(h, w, Same(h, Nil), DOMAIN h)
  BY SameGot, NilValue
<1>6. QED
  BY <1>2, <1>4, <1>5

LEMMA PrimitiveGot ==
  ASSUME NEW h, NEW w, Sound(h, w), NEW F, Held(h, w, F), NEW f, f \in F, h[f].prev \in F,
         NEW name, name \in Functions \ Evaluating
  PROVE  Got(h, w, Primitive(h, name, f), DOMAIN h)
<1>1. /\ HeapOK(h) /\ Value(h, Reg(h, f, 1)) /\ Value(h, Reg(h, f, 2)) /\ Value(h, Reg(h, f, 3))
  BY OnFrame
<1>2. IsFrame(h, h[f].prev)
  BY OnFrame
<1>3. \A b : Got(h, w, Same(h, Truth(b)), DOMAIN h)
  <2>1. Got(h, w, Same(h, T), DOMAIN h) /\ Got(h, w, Same(h, Nil), DOMAIN h)
    BY SameGot, AtomValues
  <2>2. QED
    BY <2>1 DEF Truth
<1>4. CASE name = "list"
  BY <1>4, ListGot DEF Primitive
<1>5. CASE name = "cons"
  BY <1>5, ConsGot DEF Primitive
<1>6. CASE name = "car"
  BY <1>6, CarGot DEF Primitive
<1>7. CASE name = "cdr"
  BY <1>7, CdrGot DEF Primitive
<1>8. CASE name \in {"not", "and", "or"}
  <2>1. \E b : Primitive(h, name, f) = Same(h, Truth(b))
    BY <1>8 DEF Primitive
  <2>2. QED
    BY <1>3, <2>1
<1>9. CASE name = "reverse"
  <2>1. Primitive(h, name, f) = Reverse(h, Reg(h, f, 1))
    BY <1>9 DEF Primitive
  <2>2. QED
    BY <1>1, <2>1, ReverseGot
<1>10. CASE name = "count"
  <2> DEFINE n == Len(Chain(h, Reg(h, f, 1), {"CONS", "STRG"}))
  <2>1. Primitive(h, name, f) = Same(h, Num(n))
    BY <1>10 DEF Primitive
  <2> HIDE DEF n
  <2>2. Value(h, Num(n))
    BY AtomValues
  <2>3. QED
    BY <2>1, <2>2, SameGot
<1>11. CASE name = "source"
  BY <1>11, SourceGot DEF Primitive
<1>12. CASE name = "exception"
  <2>1. Primitive(h, name, f) =
          ThrowWithCause(h, Reg(h, f, 1), Reg(h, f, 2), Reg(h, f, 3), h[f].prev)
    BY <1>12 DEF Primitive, LispException
  <2>2. QED
    BY <1>1, <1>2, <2>1, ThrowWithCauseGot
<1>13. name \in {"list", "cons", "car", "cdr", "not", "and", "or", "reverse", "count", "source",
                 "exception"}
  BY DEF Functions, Evaluating
<1>14. QED
  BY <1>4, <1>5, <1>6, <1>7, <1>8, <1>9, <1>10, <1>11, <1>12, <1>13

-----------------------------------------------------------------------------
(* Functions are called on a frame that is theirs from then on. *)
LEMMA CalledReady ==
  ASSUME NEW h, NEW o, NEW n, NEW f, NEW ks, With(h, o, n, f, ks),
         NEW k, k \in {"function", "special", "lambda", "nlambda"}, NEW env, Value(h, env),
         NEW fn, Value(h, fn)
  PROVE  LET u == <<Waits(k, f, env, Nil, Nil, fn, 0)>> \o ks
         IN  Ready(h, o, n, u) /\ f \in ActiveOf(u) /\ h[f].prev \in ActiveOf(u)
<1> DEFINE u == <<Waits(k, f, env, Nil, Nil, fn, 0)>> \o ks
<1>1. /\ Value(h, Nil) /\ k \in Owners /\ Bounded(h, Waits(k, f, env, Nil, Nil, fn, 0))
  BY NilValue, WaitsBounded DEF Carefree, Owners
<1>2. Ready(h, o, n, u) /\ f \in ActiveOf(u) /\ ActiveOf(ks) \subseteq ActiveOf(u)
  BY <1>1, PushOwned
<1> HIDE DEF u
<1>3. h[f].prev \in ActiveOf(u)
  BY <1>2, WithFacts
<1>4. QED
  BY <1>2, <1>3 DEF u

LEMMA CallLands ==
  ASSUME NEW h, NEW f, NEW env, NEW fn, NEW ks, With(h, oblist, input, f, ks),
         Value(h, env), Value(h, fn), Call(h, f, env, fn, ks)
  PROVE  IInv'
<1> DEFINE called == <<[K("function", f, env) EXCEPT !.fn = fn]>> \o ks
           u == <<Waits("function", f, env, Nil, Nil, fn, 0)>> \o ks
           lambda == <<K("lambda", f, env)>> \o ks
           form == MakeCons(h, Reg(h, f, 1), Reg(h, f, 2))
           g1 == form.heap
           g2 == SetReg(g1, f, 1, form.ptr)
           g3 == SetReg(g2, f, 2, Nil)
<1>1. called = u
  BY KFn
<1>2. Ready(h, oblist, input, u) /\ f \in ActiveOf(u) /\ h[f].prev \in ActiveOf(u)
  BY CalledReady
<1>3. /\ Value(h, Reg(h, f, 1)) /\ Value(h, Reg(h, f, 2)) /\ Value(h, Nil)
      /\ Sound(h, Plus(Stock(Base(oblist, input), ks), Obj(f)))
  BY WithFacts, Registers, NilValue
<1>4. \/ Tag(h, fn) = "LAMBDA" /\ EvalLambda(h, fn, f, env, lambda)
      \/ fn[2] \in Functions \ Evaluating /\ GoReturn(Primitive(h, fn[2], f), called)
      \/ LispEval(h, f, env, called)
      \/ Apply(g3, f, env, called)
      \/ MapNext(h, f, Reg(h, f, 2), Nil, env, called)
      \/ DeepBind(h, Reg(h, f, 1), Reg(h, f, 2), called)
      \/ NotASymbol(h, "set", f, called)
  BY DEF Call
<1> HIDE DEF called
<1>5. CASE Tag(h, fn) = "LAMBDA" /\ EvalLambda(h, fn, f, env, lambda)
  <2>1. K("lambda", f, env) = Waits("lambda", f, env, Nil, Nil, Nil, 0)
    BY KPlain
  <2>2. Ready(h, oblist, input, lambda) /\ f \in ActiveOf(lambda)
    BY <1>3, <2>1, CalledReady
  <2> HIDE DEF lambda
  <2>3. QED
    BY <1>5, <2>2, EvalLambdaLands
<1>6. CASE fn[2] \in Functions \ Evaluating /\ GoReturn(Primitive(h, fn[2], f), called)
  <2> DEFINE w == Stock(Base(oblist, input), u)
             F == ActiveOf(u)
             name == fn[2]
  <2>1. Sound(h, w) /\ Held(h, w, F) /\ f \in F /\ h[f].prev \in F
    BY <1>2, ReadyFacts
  <2>2. name \in Functions \ Evaluating
    BY <1>6
  <2> HIDE DEF w, F, name
  <2>3. Got(h, w, Primitive(h, name, f), DOMAIN h)
    BY <2>1, <2>2, PrimitiveGot
  <2>4. GoReturn(Primitive(h, name, f), u)
    BY <1>1, <1>6 DEF name
  <2> HIDE DEF u
  <2>5. QED
    BY <1>2, <2>3, <2>4, LandGot DEF w
<1>7. CASE LispEval(h, f, env, called)
  <2> HIDE DEF u
  <2>1. QED
    BY <1>1, <1>2, <1>7, LispEvalLands
<1>8. CASE Apply(g3, f, env, called)
  <2>1. Made(h, Plus(Stock(Base(oblist, input), ks), Obj(f)), form, DOMAIN h)
    BY <1>3, MakeConsMade
  <2> HIDE DEF form
  <2>2. With(g1, oblist, input, f, ks) /\ Value(g1, form.ptr) /\ Value(g1, env) /\ Value(g1, fn)
    BY <2>1, WithMade
  <2> HIDE DEF g1
  <2>3. With(g2, oblist, input, f, ks) /\ Value(g2, env) /\ Value(g2, fn)
    BY <2>2, WithSetReg, Registers
  <2> HIDE DEF g2
  <2>4. With(g3, oblist, input, f, ks) /\ Value(g3, env) /\ Value(g3, fn)
    BY <2>3, WithSetReg, Registers, NilValue
  <2> HIDE DEF g3
  <2>5. Ready(g3, oblist, input, u) /\ f \in ActiveOf(u)
    BY <2>4, CalledReady
  <2> HIDE DEF u
  <2>6. QED
    BY <1>1, <1>8, <2>4, <2>5, ApplyLands
<1>9. CASE MapNext(h, f, Reg(h, f, 2), Nil, env, called)
  <2> HIDE DEF u
  <2>1. QED
    BY <1>1, <1>2, <1>3, <1>9, MapNextLands
<1>10. CASE DeepBind(h, Reg(h, f, 1), Reg(h, f, 2), called)
  <2> HIDE DEF u
  <2>1. QED
    BY <1>1, <1>2, <1>3, <1>10, DeepBindLands
<1>11. CASE NotASymbol(h, "set", f, called)
  <2> HIDE DEF u
  <2>1. QED
    BY <1>1, <1>2, <1>11, NotASymbolLands
<1>12. QED
  BY <1>4, <1>5, <1>6, <1>7, <1>8, <1>9, <1>10, <1>11

LEMMA ArgBounded ==
  ASSUME NEW h, NEW f, h[f].args < ArgsInFrame, NEW env, NEW a, NEW b, NEW c, NEW i
  PROVE  Bounded(h, Waits("arg", f, env, a, b, c, i))
<1> DEFINE w == Waits("arg", f, env, a, b, c, i)
<1>1. w.k = "arg" /\ w.frame = f
  BY WaitsFacts
<1> HIDE DEF w
<1>2. Bounded(h, w)
  BY <1>1 DEF Bounded
<1>3. QED
  BY <1>2 DEF w

LEMMA FillFrameLands ==
  ASSUME NEW h, NEW f, NEW args, NEW env, NEW fn, NEW ks, With(h, oblist, input, f, ks),
         Value(h, args), Value(h, env), Value(h, fn), FillFrame(h, f, args, env, fn, ks)
  PROVE  IInv'
<1> DEFINE rest == Cdr(h, args)
           arg == Waits("arg", f, env, rest, Nil, fn, 0)
           more == Waits("more", f, env, args, Nil, fn, 0)
<1>1. Value(h, Nil) /\ Value(h, Car(h, args)) /\ Value(h, rest)
  BY WithFacts, NilValue, CarCdrValue
<1>2. \/ /\ h[f].args < ArgsInFrame
         /\ Go(h, Eval(Car(h, args), f, env),
               <<[K("arg", f, env) EXCEPT !.rest = rest, !.fn = fn]>> \o ks)
      \/ EvalForms(h, args, Nil, h[f].prev, env,
                   <<[K("more", f, env) EXCEPT !.fn = fn, !.rest = args]>> \o ks)
      \/ Call(h, f, env, fn, ks)
  BY DEF FillFrame
<1> HIDE DEF rest
<1>3. [K("arg", f, env) EXCEPT !.rest = rest, !.fn = fn] = arg
  BY KRestFn
<1>4. [K("more", f, env) EXCEPT !.fn = fn, !.rest = args] = more
  BY KFnRest
<1>5. CASE /\ h[f].args < ArgsInFrame
           /\ Go(h, Eval(Car(h, args), f, env),
                 <<[K("arg", f, env) EXCEPT !.rest = rest, !.fn = fn]>> \o ks)
  <2> DEFINE u == <<arg>> \o ks
  <2>1. Bounded(h, arg) /\ "arg" \in Owners
    BY <1>5, ArgBounded DEF Owners
  <2>2. Ready(h, oblist, input, u) /\ f \in ActiveOf(u)
    BY <1>1, <2>1, PushOwned
  <2>3. Go(h, Eval(Car(h, args), f, env), u)
    BY <1>3, <1>5
  <2> HIDE DEF u
  <2>4. QED
    BY <1>1, <2>2, <2>3, LandEval
<1>6. CASE EvalForms(h, args, Nil, h[f].prev, env,
                     <<[K("more", f, env) EXCEPT !.fn = fn, !.rest = args]>> \o ks)
  <2> DEFINE u == <<more>> \o ks
  <2>1. Bounded(h, more) /\ "more" \in Owners
    BY WaitsBounded DEF Owners, Carefree
  <2>2. Ready(h, oblist, input, u) /\ ActiveOf(ks) \subseteq ActiveOf(u)
    BY <1>1, <2>1, PushOwned
  <2>3. EvalForms(h, args, Nil, h[f].prev, env, u)
    BY <1>6, <1>4
  <2> HIDE DEF u
  <2> DEFINE e == h[f].prev
  <2>4. e \in ActiveOf(u)
    BY <2>2, WithFacts
  <2> HIDE DEF e
  <2>5. EvalForms(h, args, Nil, e, env, u)
    BY <2>3 DEF e
  <2>6. QED
    BY <1>1, <2>2, <2>4, <2>5, EvalFormsLands
<1>7. CASE Call(h, f, env, fn, ks)
  BY <1>7, CallLands
<1>8. QED
  BY <1>2, <1>5, <1>6, <1>7

-----------------------------------------------------------------------------
(* The list `more' of a frame on top. *)
LEMMA WithMore ==
  ASSUME NEW h, NEW o, NEW n, NEW f, NEW ks, With(h, o, n, f, ks),
         NEW v, Value(h, v), NEW m, m \in Nat
  PROVE  LET g == IncRef(MoreSet(h, f, ArgsInFrame + 1, v, m), v)
         IN  /\ With(g, o, n, f, ks) /\ g[f].args = h[f].args + m
             /\ \A p : Value(h, p) => Value(g, p)
<1> DEFINE w == Plus(Stock(Base(o, n), ks), Obj(f))
           F == ActiveOf(ks) \cup {f}
           g == IncRef(MoreSet(h, f, ArgsInFrame + 1, v, m), v)
           a == h[f].args + m
<1>1. Sound(h, w) /\ Held(h, w, F) /\ f \in F
  BY WithFacts
<1> HIDE DEF w, F
<1>2. Rewrites(h, g, w, F, f, a)
  BY <1>1, SetMoreSound
<1> HIDE DEF g, a
<1>3. Rewrites(h, g, Plus(Stock(Base(o, n), ks), Obj(f)), ActiveOf(ks) \cup {f}, f, a)
  BY <1>2 DEF w, F
<1>4. With(g, o, n, f, ks) /\ g[f].args = a /\ \A p : Value(h, p) => Value(g, p)
  BY <1>3, WithRewritten
<1>5. QED
  BY <1>4 DEF g, a

LEMMA WithForms ==
  ASSUME NEW h, NEW o, NEW n, NEW f, NEW ks, With(h, o, n, f, ks), NEW v, Value(h, v)
  PROVE  LET g == IncRef(PartSet(h, f, ArgsInFrame + 1, v), v)
         IN  /\ With(g, o, n, f, ks) /\ g[f].args = h[f].args
             /\ \A p : Value(h, p) => Value(g, p)
<1>1. f \in DOMAIN h /\ CellOK(h[f]) /\ h[f].args \in Nat
  <2>1. HeapOK(h) /\ IsFrame(h, f) /\ h[f].args \in Nat
    BY WithFacts
  <2>2. QED
    BY <2>1, HeapFacts DEF IsFrame
<1> DEFINE m == ArgsInFrame + 1
<1>2. h[f].args + 0 = h[f].args
  BY <1>1
<1> HIDE DEF m
<1>3. PartSet(h, f, m, v) = [h EXCEPT ![f] = Filled(h[f], m, v, h[f].args)]
  BY <1>1, PartSetFacts
<1>4. MoreSet(h, f, m, v, 0) = [h EXCEPT ![f] = Filled(h[f], m, v, h[f].args + 0)]
  BY <1>1, MoreSetFacts
<1>5. PartSet(h, f, ArgsInFrame + 1, v) = MoreSet(h, f, ArgsInFrame + 1, v, 0)
  BY <1>2, <1>3, <1>4 DEF m
<1> DEFINE g == IncRef(MoreSet(h, f, ArgsInFrame + 1, v, 0), v)
<1>6. With(g, o, n, f, ks) /\ g[f].args = h[f].args + 0 /\ \A p : Value(h, p) => Value(g, p)
  BY WithMore
<1>7. g = IncRef(PartSet(h, f, ArgsInFrame + 1, v), v)
  BY <1>5
<1> HIDE DEF g
<1>8. QED
  BY <1>2, <1>6, <1>7

-----------------------------------------------------------------------------
(* Special forms: the frame gets the forms themselves. *)
NextLoaded(f, i, s) ==
  IF s.args = Nil THEN s
  ELSE [heap |-> SetReg(s.heap, f, i, Car(s.heap, s.args)), args |-> Cdr(s.heap, s.args)]
Loads(h, f, args, N) ==
  CHOOSE run : run = [i \in 0 .. N |->
    IF i = 0 THEN [heap |-> h, args |-> args]
    ELSE LET s == run[i - 1]
         IN  IF s.args = Nil THEN s
             ELSE [heap |-> SetReg(s.heap, f, i, Car(s.heap, s.args)),
                   args |-> Cdr(s.heap, s.args)]]

LEMMA LoadsFacts ==
  ASSUME NEW h, NEW f, NEW args, NEW N \in Nat
  PROVE  LET F == Loads(h, f, args, N)
         IN  F[0] = [heap |-> h, args |-> args] /\ \A n \in 1 .. N : F[n] = NextLoaded(f, n, F[n - 1])
<1> DEFINE start == [heap |-> h, args |-> args]
           step(s, n) == NextLoaded(f, n, s)
           stage(u, n) == IF n = 0 THEN start ELSE step(u[n - 1], n)
           P == {m \in 0 .. N : \E u : u = [n \in 0 .. m |-> stage(u, n)]}
           F == Loads(h, f, args, N)
<1>1. (\E u : u = [n \in 0 .. N |-> stage(u, n)]) => F = [n \in 0 .. N |-> stage(F, n)]
  BY DEF Loads, NextLoaded
<1> HIDE DEF step, F
<1>2. 0 \in P
  <2> DEFINE u == [n \in 0 .. 0 |-> start]
  <2>1. u = [n \in 0 .. 0 |-> stage(u, n)]
    OBVIOUS
  <2> HIDE DEF u, stage
  <2>2. QED
    BY <2>1
<1>3. ASSUME NEW m \in 1 .. N, m - 1 \in P
      PROVE  m \in P
  <2>1. PICK u : u = [n \in 0 .. m - 1 |-> stage(u, n)]
    BY <1>3
  <2> DEFINE e == [n \in 0 .. m |-> IF n = m THEN step(u[m - 1], m) ELSE u[n]]
  <2>2. ASSUME NEW n \in 0 .. m
        PROVE  e[n] = stage(e, n)
    <3>1. CASE n = m
      <4>1. n # 0 /\ n - 1 \in 0 .. m /\ n - 1 # m
        BY <3>1
      <4>2. e[n - 1] = u[n - 1] /\ e[n] = step(u[m - 1], m)
        BY <3>1, <4>1
      <4> HIDE DEF e
      <4>3. QED
        BY <3>1, <4>1, <4>2
    <3>2. CASE n # m
      <4>1. n \in 0 .. m - 1 /\ (n # 0 => n - 1 \in 0 .. m - 1 /\ n - 1 \in 0 .. m /\ n - 1 # m)
        BY <3>2
      <4>2. e[n] = u[n] /\ (n # 0 => e[n - 1] = u[n - 1])
        BY <3>2, <4>1
      <4>3. u[n] = stage(u, n)
        <5> HIDE DEF stage
        <5>1. QED
          BY <2>1, <4>1
      <4> HIDE DEF e
      <4>4. QED
        BY <4>2, <4>3
    <3>3. QED
      BY <3>1, <3>2
  <2>3. e = [n \in 0 .. m |-> e[n]]
    OBVIOUS
  <2> HIDE DEF e, stage
  <2>4. e = [n \in 0 .. m |-> stage(e, n)]
    BY <2>2, <2>3
  <2>5. QED
    BY <2>4
<1> HIDE DEF P
<1>4. N \in P
  <2>1. \A m \in 0 .. N : m \in P
    BY <1>2, <1>3, UpTo
  <2>2. QED
    BY <2>1
<1>5. F = [n \in 0 .. N |-> stage(F, n)]
  BY <1>1, <1>4 DEF P
<1>6. F[0] = start /\ \A n \in 1 .. N : F[n] = step(F[n - 1], n)
  BY <1>5
<1>7. QED
  BY <1>6 DEF F, step


(* What is true of the frame while it is loaded. *)
Loaded(h, o, n, f, ks, s) ==
  /\ With(s.heap, o, n, f, ks) /\ s.heap[f].args <= ArgsInFrame /\ Value(s.heap, s.args)
  /\ \A p : Value(h, p) => Value(s.heap, p)

LEMMA LoadedNext ==
  ASSUME NEW h, NEW o, NEW n, NEW f, NEW ks, NEW s, Loaded(h, o, n, f, ks, s),
         NEW i, i \in 1 .. ArgsInFrame
  PROVE  Loaded(h, o, n, f, ks, NextLoaded(f, i, s))
<1> DEFINE g == s.heap
           v == Car(g, s.args)
           d == Cdr(g, s.args)
           k == SetReg(g, f, i, v)
           r == NextLoaded(f, i, s)
<1>1. /\ With(g, o, n, f, ks) /\ g[f].args <= ArgsInFrame /\ Value(g, s.args)
      /\ \A p : Value(h, p) => Value(g, p)
  BY DEF Loaded
<1>2. r = IF s.args = Nil THEN s ELSE [heap |-> k, args |-> d]
  BY DEF NextLoaded
<1> HIDE DEF g
<1>3. Value(g, v) /\ Value(g, d)
  BY <1>1, WithFacts, CarCdrValue
<1> HIDE DEF v, d, r
<1>4. /\ With(k, o, n, f, ks) /\ k[f].args = (IF i - 1 = g[f].args THEN i ELSE g[f].args)
      /\ \A p : Value(g, p) => Value(k, p)
  BY <1>1, <1>3, WithSetReg
<1> HIDE DEF k
<1>5. k[f].args <= ArgsInFrame
  BY <1>1, <1>4, WidthFacts
<1>6. CASE s.args = Nil
  BY <1>2, <1>6 DEF r
<1>7. CASE s.args # Nil
  <2>1. r.heap = k /\ r.args = d
    BY <1>2, <1>7
  <2>2. Value(k, d) /\ \A p : Value(h, p) => Value(k, p)
    BY <1>1, <1>3, <1>4
  <2>3. Loaded(h, o, n, f, ks, r)
    BY <1>4, <1>5, <2>1, <2>2 DEF Loaded
  <2>4. QED
    BY <2>3 DEF r
<1>8. QED
  BY <1>6, <1>7

LEMMA SpecialFrameWith ==
  ASSUME NEW h, NEW o, NEW n, NEW f, NEW ks, With(h, o, n, f, ks), h[f].args <= ArgsInFrame,
         NEW args, Value(h, args)
  PROVE  LET g == SpecialFrame(h, f, args)
         IN  /\ With(g, o, n, f, ks) /\ g[f].args <= ArgsInFrame
             /\ \A p : Value(h, p) => Value(g, p)
<1> DEFINE N == ArgsInFrame
           R == Loads(h, f, args, N)
           P == {i \in 0 .. N : Loaded(h, o, n, f, ks, R[i])}
           full == R[N]
           g == full.heap
           k == IncRef(PartSet(g, f, ArgsInFrame + 1, full.args), full.args)
           r == SpecialFrame(h, f, args)
<1>1. N \in Nat
  BY WidthFacts
<1>2. r = IF IsCons(g, full.args) THEN k ELSE g
  BY DEF SpecialFrame, Loads, PartSet
<1>3. R[0] = [heap |-> h, args |-> args] /\ \A i \in 1 .. N : R[i] = NextLoaded(f, i, R[i - 1])
  BY <1>1, LoadsFacts
<1> HIDE DEF R
<1>4. 0 \in P
  <2>1. R[0].heap = h /\ R[0].args = args
    BY <1>3
  <2>2. Loaded(h, o, n, f, ks, R[0])
    BY <2>1 DEF Loaded
  <2>3. QED
    BY <1>1, <2>2
<1>5. ASSUME NEW i \in 1 .. N, i - 1 \in P
      PROVE  i \in P
  <2>1. Loaded(h, o, n, f, ks, R[i - 1])
    BY <1>5
  <2>2. Loaded(h, o, n, f, ks, NextLoaded(f, i, R[i - 1]))
    BY <2>1, LoadedNext
  <2>3. QED
    BY <1>1, <1>3, <2>2
<1> HIDE DEF P
<1>6. \A i \in 0 .. N : i \in P
  BY <1>1, <1>4, <1>5, UpTo
<1>7. Loaded(h, o, n, f, ks, full)
  BY <1>1, <1>6 DEF P
<1> HIDE DEF full
<1>8. /\ With(g, o, n, f, ks) /\ g[f].args <= ArgsInFrame /\ Value(g, full.args)
      /\ \A p : Value(h, p) => Value(g, p)
  BY <1>7 DEF Loaded
<1> HIDE DEF g
<1>9. With(k, o, n, f, ks) /\ k[f].args = g[f].args /\ \A p : Value(g, p) => Value(k, p)
  BY <1>8, WithForms
<1> HIDE DEF k, r
<1>10. With(r, o, n, f, ks) /\ r[f].args <= ArgsInFrame /\ \A p : Value(h, p) => Value(r, p)
  BY <1>2, <1>8, <1>9
<1>11. QED
  BY <1>10 DEF r

-----------------------------------------------------------------------------
(* The special forms. *)
Numbered(i) == i \in 1 .. ArgsInFrame
Turn(i)     == i \in 1 .. ArgsInFrame + 1
Few(h, f)   == h[f].args <= ArgsInFrame

OfFrame(k, i) == \/ k = "let"
                 \/ k \in {"let body", "test", "no clause"} /\ Numbered(i)

(* The records of activations that count registers. *)
AtRegister(k, f, env, i)        == [K(k, f, env) EXCEPT !.i = i]
AtRegisterWith(k, f, env, i, b) == [K(k, f, env) EXCEPT !.i = i, !.acc = b]

LEMMA AtRegisterFacts ==
  ASSUME NEW k, NEW f, NEW env, NEW i, NEW b
  PROVE  /\ AtRegister(k, f, env, i) = Waits(k, f, env, Nil, Nil, Nil, i)
         /\ AtRegisterWith(k, f, env, i, b) = Waits(k, f, env, Nil, b, Nil, i)
<1> DEFINE e == K(k, f, env)
           e1 == [e EXCEPT !.i = i]
           e2 == [e1 EXCEPT !.acc = b]
<1>1. e = Waits(k, f, env, Nil, Nil, Nil, 0)
  BY KPlain
<1>2. AtRegister(k, f, env, i) = e1 /\ AtRegisterWith(k, f, env, i, b) = e2
  BY DEF AtRegister, AtRegisterWith
<1> HIDE DEF e
<1>3. [Waits(k, f, env, Nil, Nil, Nil, 0) EXCEPT !.i = i] = Waits(k, f, env, Nil, Nil, Nil, i)
  BY DEF Waits
<1>4. [Waits(k, f, env, Nil, Nil, Nil, i) EXCEPT !.acc = b] = Waits(k, f, env, Nil, b, Nil, i)
  BY DEF Waits
<1>5. e1 = Waits(k, f, env, Nil, Nil, Nil, i)
  BY <1>1, <1>3
<1> HIDE DEF e1
<1>6. e2 = Waits(k, f, env, Nil, b, Nil, i)
  BY <1>4, <1>5
<1> HIDE DEF e2
<1>7. QED
  BY <1>2, <1>5, <1>6

LEMMA FrameBounded ==
  ASSUME NEW h, NEW f, Few(h, f), NEW k, NEW i, OfFrame(k, i), NEW env, NEW a, NEW b, NEW c
  PROVE  Bounded(h, Waits(k, f, env, a, b, c, i))
<1> DEFINE w == Waits(k, f, env, a, b, c, i)
<1>1. w.k = k /\ w.frame = f /\ w.i = i
  BY WaitsFacts
<1> HIDE DEF w
<1>2. Bounded(h, w)
  BY <1>1 DEF Bounded, OfFrame, Numbered, Few
<1>3. QED
  BY <1>2 DEF w

LEMMA CPrognLands ==
  ASSUME NEW h, NEW forms, NEW r, NEW f, NEW env, NEW ks, Ready(h, oblist, input, ks),
         Value(h, forms), Value(h, r), f \in ActiveOf(ks), Value(h, env),
         CProgn(h, forms, r, f, env, ks)
  PROVE  IInv'
<1>1. CASE Go(h, Eval(Car(h, forms), f, env),
             <<[K("c_progn", f, env) EXCEPT !.rest = forms, !.acc = r]>> \o ks)
  <2>1. [K("c_progn", f, env) EXCEPT !.rest = forms, !.acc = r] =
          Waits("c_progn", f, env, forms, r, Nil, 0)
    BY KRestAcc
  <2>2. Go(h, Eval(Car(h, forms), f, env), <<Waits("c_progn", f, env, forms, r, Nil, 0)>> \o ks)
    BY <1>1, <2>1
  <2>3. /\ Value(h, Car(h, forms)) /\ Value(h, Nil) /\ "c_progn" \notin Owners
        /\ Bounded(h, Waits("c_progn", f, env, forms, r, Nil, 0))
    BY ReadyFacts, CarCdrValue, NilValue, WaitsBounded DEF Carefree, Owners
  <2>4. QED
    BY <2>2, <2>3, LandWaits
<1>2. CASE Go(h, Return(r), ks)
  BY <1>2, LandReturn
<1>3. QED
  BY <1>1, <1>2 DEF CProgn

LEMMA PrognLands ==
  ASSUME NEW h, NEW i, Turn(i), NEW r, NEW f, NEW env, NEW ks,
         Ready(h, oblist, input, ks), Value(h, r), f \in ActiveOf(ks), Value(h, env),
         Progn(h, i, r, f, env, ks)
  PROVE  IInv'
<1>1. Value(h, More(h, f)) /\ Value(h, Nil)
  BY ReadyFacts, NilValue
<1>2. CASE /\ ~(i > ArgsInFrame)
           /\ Go(h, Eval(Reg(h, f, i), f, env),
                 <<[K("progn", f, env) EXCEPT !.i = i, !.acc = r]>> \o ks)
  <2>1. Go(h, Eval(Reg(h, f, i), f, env), <<AtRegisterWith("progn", f, env, i, r)>> \o ks)
    BY <1>2 DEF AtRegisterWith
  <2>2. Go(h, Eval(Reg(h, f, i), f, env), <<Waits("progn", f, env, Nil, r, Nil, i)>> \o ks)
    BY <2>1, AtRegisterFacts
  <2>3. i \in 1 .. ArgsInFrame
    BY <1>2, WidthFacts DEF Turn
  <2>4. /\ Value(h, Reg(h, f, i)) /\ "progn" \notin Owners
        /\ Bounded(h, Waits("progn", f, env, Nil, r, Nil, i))
    BY <2>3, ReadyFacts, RegisterBounded DEF Owners
  <2>5. QED
    BY <1>1, <2>2, <2>4, LandWaits
<1>3. CASE CProgn(h, More(h, f), Nil, f, env, ks)
  BY <1>1, <1>3, CPrognLands
<1>4. CASE Go(h, Return(r), ks)
  BY <1>4, LandReturn
<1>5. QED
  BY <1>2, <1>3, <1>4 DEF Progn

LEMMA CondLands ==
  ASSUME NEW h, NEW i, Turn(i), NEW r, NEW f, NEW env, NEW ks,
         Ready(h, oblist, input, ks), Value(h, r), f \in ActiveOf(ks), Value(h, env),
         Few(h, f), Cond(h, i, r, f, env, ks)
  PROVE  IInv'
<1> DEFINE text == Text("Arguments to cond must be lists")
           clause == Car(h, Reg(h, f, i))
           u == <<Waits("no clause", f, env, Nil, Nil, Nil, i)>> \o ks
<1>1. Value(h, Nil) /\ h[f].args \in Nat
  BY ReadyFacts, NilValue
<1>2. \/ i <= h[f].args /\ Go(h, Eval(clause, f, env), <<[K("test", f, env) EXCEPT !.i = i]>> \o ks)
      \/ i <= h[f].args /\ GoReturn(Throw(h, Sym("cond"), text, f),
                                    <<[K("no clause", f, env) EXCEPT !.i = i]>> \o ks)
      \/ Go(h, Return(r), ks)
  BY DEF Cond
<1>3. ASSUME i <= h[f].args
      PROVE  Numbered(i)
  BY <1>1, <1>3, WidthFacts DEF Numbered, Turn, Few
<1>4. CASE i <= h[f].args /\ Go(h, Eval(clause, f, env), <<[K("test", f, env) EXCEPT !.i = i]>> \o ks)
  <2>1. Go(h, Eval(clause, f, env), <<AtRegister("test", f, env, i)>> \o ks)
    BY <1>4 DEF AtRegister
  <2>2. Go(h, Eval(clause, f, env), <<Waits("test", f, env, Nil, Nil, Nil, i)>> \o ks)
    BY <2>1, AtRegisterFacts
  <2>3. Value(h, clause)
    BY <1>3, <1>4, ReadyFacts, CarCdrValue DEF Numbered
  <2> HIDE DEF clause
  <2>4. "test" \notin Owners /\ Bounded(h, Waits("test", f, env, Nil, Nil, Nil, i))
    BY <1>3, <1>4, FrameBounded DEF OfFrame, Owners
  <2>5. QED
    BY <1>1, <2>2, <2>3, <2>4, LandWaits
<1>5. CASE i <= h[f].args /\ GoReturn(Throw(h, Sym("cond"), text, f),
                                      <<[K("no clause", f, env) EXCEPT !.i = i]>> \o ks)
  <2>1. GoReturn(Throw(h, Sym("cond"), text, f), <<AtRegister("no clause", f, env, i)>> \o ks)
    BY <1>5 DEF AtRegister
  <2>2. GoReturn(Throw(h, Sym("cond"), text, f), u)
    BY <2>1, AtRegisterFacts
  <2> DEFINE k == "no clause"
             v == <<Waits(k, f, env, Nil, Nil, Nil, i)>> \o ks
  <2>3. k \notin Owners /\ k \notin {"mapcar", "repl"} /\ Bounded(h, Waits(k, f, env, Nil, Nil, Nil, i))
    BY <1>3, <1>5, FrameBounded DEF OfFrame, Owners
  <2>4. Value(h, Nil) /\ v = u
    BY NilValue
  <2> HIDE DEF k, u
  <2>5. Ready(h, oblist, input, v) /\ ActiveOf(v) = ActiveOf(ks)
    BY <2>3, <2>4, PushWaits
  <2> HIDE DEF v
  <2>6. Ready(h, oblist, input, u) /\ ActiveOf(u) = ActiveOf(ks)
    BY <2>4, <2>5
  <2>7. Value(h, Sym("cond")) /\ Value(h, text)
    BY AtomValues
  <2> HIDE DEF text
  <2>8. QED
    BY <2>2, <2>6, <2>7, ThrowLands
<1>6. CASE Go(h, Return(r), ks)
  BY <1>6, LandReturn
<1>7. QED
  BY <1>2, <1>4, <1>5, <1>6

LEMMA LetBodyLands ==
  ASSUME NEW h, NEW i, Turn(i), NEW r, NEW f, NEW env, NEW ks,
         Ready(h, oblist, input, ks), Value(h, r), f \in ActiveOf(ks), Value(h, env),
         Few(h, f), LetBody(h, i, r, f, env, ks)
  PROVE  IInv'
<1>1. CASE i <= h[f].args /\ Go(h, Eval(Reg(h, f, i), f, env),
                                <<[K("let body", f, env) EXCEPT !.i = i]>> \o ks)
  <2>1. Go(h, Eval(Reg(h, f, i), f, env), <<AtRegister("let body", f, env, i)>> \o ks)
    BY <1>1 DEF AtRegister
  <2>2. Go(h, Eval(Reg(h, f, i), f, env), <<Waits("let body", f, env, Nil, Nil, Nil, i)>> \o ks)
    BY <2>1, AtRegisterFacts
  <2>3. h[f].args \in Nat
    BY ReadyFacts
  <2>4. Numbered(i)
    <3> DEFINE m == h[f].args
    <3>1. m \in Nat /\ i <= m /\ m <= ArgsInFrame
      BY <1>1, <2>3 DEF Few
    <3>2. i \in 1 .. ArgsInFrame + 1 /\ ArgsInFrame \in Nat
      BY WidthFacts DEF Turn
    <3> HIDE DEF m
    <3>3. i \in 1 .. ArgsInFrame
      BY <3>1, <3>2
    <3>4. QED
      BY <3>3 DEF Numbered
  <2>5. Value(h, Reg(h, f, i)) /\ Value(h, Nil)
    BY <2>4, ReadyFacts, NilValue DEF Numbered
  <2>6. "let body" \notin Owners /\ Bounded(h, Waits("let body", f, env, Nil, Nil, Nil, i))
    BY <2>4, FrameBounded DEF OfFrame, Owners
  <2>7. QED
    BY <2>2, <2>5, <2>6, LandWaits
<1>2. CASE Go(h, Return(r), ks)
  BY <1>2, LandReturn
<1>3. QED
  BY <1>1, <1>2 DEF LetBody

LEMMA LetLands ==
  ASSUME NEW h, NEW cursor, NEW f, NEW env, NEW ks,
         Ready(h, oblist, input, ks), Value(h, cursor), f \in ActiveOf(ks), Value(h, env),
         Few(h, f), Let(h, cursor, f, env, ks)
  PROVE  IInv'
<1> DEFINE pair == Car(h, cursor)
           name == Car(h, pair)
           form == Cdr(h, pair)
           text == Text("Let: cannot bind, not a symbol")
<1>1. Value(h, name) /\ Value(h, form) /\ Value(h, Nil)
  <2>1. HeapOK(h)
    BY ReadyFacts
  <2>2. Value(h, pair)
    BY <2>1, CarCdrValue
  <2> HIDE DEF pair
  <2>3. QED
    BY <2>1, <2>2, CarCdrValue, NilValue
<1>2. \/ Go(h, Eval(form, f, env),
            <<[K("let", f, env) EXCEPT !.rest = cursor, !.acc = name]>> \o ks)
      \/ GoReturn(Throw(h, Sym("let"), text, f), ks)
      \/ LetBody(h, 2, Nil, f, env, ks)
  BY DEF Let
<1> HIDE DEF name, form
<1>3. CASE Go(h, Eval(form, f, env),
              <<[K("let", f, env) EXCEPT !.rest = cursor, !.acc = name]>> \o ks)
  <2>1. [K("let", f, env) EXCEPT !.rest = cursor, !.acc = name] =
          Waits("let", f, env, cursor, name, Nil, 0)
    BY KRestAcc
  <2>2. Go(h, Eval(form, f, env), <<Waits("let", f, env, cursor, name, Nil, 0)>> \o ks)
    BY <1>3, <2>1
  <2>3. "let" \notin Owners /\ Bounded(h, Waits("let", f, env, cursor, name, Nil, 0))
    BY FrameBounded DEF OfFrame, Owners
  <2>4. QED
    BY <1>1, <2>2, <2>3, LandWaits
<1>4. CASE GoReturn(Throw(h, Sym("let"), text, f), ks)
  <2>1. Value(h, Sym("let")) /\ Value(h, text)
    BY AtomValues
  <2> HIDE DEF text
  <2>2. QED
    BY <1>4, <2>1, ThrowLands
<1>5. CASE LetBody(h, 2, Nil, f, env, ks)
  <2>1. Turn(2)
    BY WidthFacts, EvaluatorAssumption DEF Turn
  <2>2. QED
    BY <1>1, <1>5, <2>1, LetBodyLands
<1>6. QED
  BY <1>2, <1>3, <1>4, <1>5

(* lambda and nlambda. *)
NextForm(h, f, i, b) ==
  LET arg == Reg(h, f, ArgsInFrame + 1 - i)
  IN  IF b.ptr = Nil /\ arg = Nil THEN b ELSE MakeCons(b.heap, arg, b.ptr)
Composes(h, f, N) ==
  CHOOSE run : run = [i \in 0 .. N |->
    IF i = 0 THEN [heap |-> h, ptr |-> More(h, f)]
    ELSE LET b   == run[i - 1]
             arg == Reg(h, f, ArgsInFrame + 1 - i)
         IN  IF b.ptr = Nil /\ arg = Nil THEN b ELSE MakeCons(b.heap, arg, b.ptr)]

LEMMA ComposesFacts ==
  ASSUME NEW h, NEW f, NEW N \in Nat
  PROVE  LET F == Composes(h, f, N)
         IN  F[0] = [heap |-> h, ptr |-> More(h, f)] /\ \A n \in 1 .. N : F[n] = NextForm(h, f, n, F[n - 1])
<1> DEFINE start == [heap |-> h, ptr |-> More(h, f)]
           step(s, n) == NextForm(h, f, n, s)
           stage(u, n) == IF n = 0 THEN start ELSE step(u[n - 1], n)
           P == {m \in 0 .. N : \E u : u = [n \in 0 .. m |-> stage(u, n)]}
           F == Composes(h, f, N)
<1>1. (\E u : u = [n \in 0 .. N |-> stage(u, n)]) => F = [n \in 0 .. N |-> stage(F, n)]
  BY DEF Composes, NextForm
<1> HIDE DEF step, F
<1>2. 0 \in P
  <2> DEFINE u == [n \in 0 .. 0 |-> start]
  <2>1. u = [n \in 0 .. 0 |-> stage(u, n)]
    OBVIOUS
  <2> HIDE DEF u, stage
  <2>2. QED
    BY <2>1
<1>3. ASSUME NEW m \in 1 .. N, m - 1 \in P
      PROVE  m \in P
  <2>1. PICK u : u = [n \in 0 .. m - 1 |-> stage(u, n)]
    BY <1>3
  <2> DEFINE e == [n \in 0 .. m |-> IF n = m THEN step(u[m - 1], m) ELSE u[n]]
  <2>2. ASSUME NEW n \in 0 .. m
        PROVE  e[n] = stage(e, n)
    <3>1. CASE n = m
      <4>1. n # 0 /\ n - 1 \in 0 .. m /\ n - 1 # m
        BY <3>1
      <4>2. e[n - 1] = u[n - 1] /\ e[n] = step(u[m - 1], m)
        BY <3>1, <4>1
      <4> HIDE DEF e
      <4>3. QED
        BY <3>1, <4>1, <4>2
    <3>2. CASE n # m
      <4>1. n \in 0 .. m - 1 /\ (n # 0 => n - 1 \in 0 .. m - 1 /\ n - 1 \in 0 .. m /\ n - 1 # m)
        BY <3>2
      <4>2. e[n] = u[n] /\ (n # 0 => e[n - 1] = u[n - 1])
        BY <3>2, <4>1
      <4>3. u[n] = stage(u, n)
        <5> HIDE DEF stage
        <5>1. QED
          BY <2>1, <4>1
      <4> HIDE DEF e
      <4>4. QED
        BY <4>2, <4>3
    <3>3. QED
      BY <3>1, <3>2
  <2>3. e = [n \in 0 .. m |-> e[n]]
    OBVIOUS
  <2> HIDE DEF e, stage
  <2>4. e = [n \in 0 .. m |-> stage(e, n)]
    BY <2>2, <2>3
  <2>5. QED
    BY <2>4
<1> HIDE DEF P
<1>4. N \in P
  <2>1. \A m \in 0 .. N : m \in P
    BY <1>2, <1>3, UpTo
  <2>2. QED
    BY <2>1
<1>5. F = [n \in 0 .. N |-> stage(F, n)]
  BY <1>1, <1>4 DEF P
<1>6. F[0] = start /\ \A n \in 1 .. N : F[n] = step(F[n - 1], n)
  BY <1>5
<1>7. QED
  BY <1>6 DEF F, step


LEMMA ComposeBodyGot ==
  ASSUME NEW h, NEW w, Sound(h, w), NEW F, Held(h, w, F), NEW f, f \in F
  PROVE  Got(h, w, ComposeBody(h, f), DOMAIN h)
<1> DEFINE N == ArgsInFrame - 1
           R == Composes(h, f, N)
           P == {i \in 0 .. N : Got(h, w, R[i], DOMAIN h)}
<1>1. /\ N \in Nat /\ w \in Ledger /\ Value(h, More(h, f))
      /\ \A i \in 1 .. N : Value(h, Reg(h, f, ArgsInFrame + 1 - i))
  <2>1. \A i \in 1 .. N : ArgsInFrame + 1 - i \in 1 .. ArgsInFrame
    BY WidthFacts
  <2>2. N \in Nat
    BY WidthFacts
  <2> HIDE DEF N
  <2>3. QED
    BY <2>1, <2>2, OnFrame
<1>2. ComposeBody(h, f) = R[N]
  BY DEF ComposeBody, Composes
<1> HIDE DEF N
<1>3. /\ R[0] = [heap |-> h, ptr |-> More(h, f)]
      /\ \A i \in 1 .. N : R[i] = NextForm(h, f, i, R[i - 1])
  BY <1>1, ComposesFacts
<1> HIDE DEF R
<1>4. 0 \in P
  BY <1>1, <1>3, NothingGot
<1>5. ASSUME NEW i \in 1 .. N, i - 1 \in P
      PROVE  i \in P
  <2> DEFINE b == R[i - 1]
             g == b.heap
             v == Reg(h, f, ArgsInFrame + 1 - i)
  <2>1. Got(h, w, b, DOMAIN h) /\ (R[i] = b \/ R[i] = MakeCons(g, v, b.ptr)) /\ Value(h, v)
    BY <1>1, <1>3, <1>5 DEF NextForm
  <2> HIDE DEF b, v
  <2>2. Sound(g, w) /\ Leaves(h, g, DOMAIN h) /\ Value(g, b.ptr) /\ Value(g, v)
    BY <2>1, GrowsValue DEF Got, Leaves
  <2> HIDE DEF g
  <2>3. Got(g, w, MakeCons(g, v, b.ptr), DOMAIN g)
    BY <2>2, MakeConsMade, MadeGot, SoundFacts
  <2>4. QED
    BY <2>1, <2>2, <2>3, ThenMade
<1> HIDE DEF P
<1>6. \A i \in 0 .. N : i \in P
  BY <1>1, <1>4, <1>5, UpTo
<1>7. QED
  BY <1>1, <1>2, <1>6 DEF P

LEMMA LambdaGot ==
  ASSUME NEW h, NEW w, Sound(h, w), NEW F, Held(h, w, F), NEW f, f \in F,
         NEW kind, kind \in {"LAMBDA", "NLAMBDA"}
  PROVE  Got(h, w, LispLambda(h, kind, f), DOMAIN h)
<1> DEFINE b == ComposeBody(h, f)
           g == b.heap
           a == Reg(h, f, 1)
           r == LispLambda(h, kind, f)
<1>1. Got(h, w, b, DOMAIN h) /\ Value(h, Reg(h, f, 1)) /\ w \in Ledger
  BY ComposeBodyGot, OnFrame
<1>2. r = MakeExecutable(g, kind, Reg(h, f, 1), b.ptr)
  BY DEF LispLambda
<1> HIDE DEF b, r
<1>3. Sound(g, w) /\ Leaves(h, g, DOMAIN h) /\ Value(g, b.ptr) /\ Value(g, Reg(h, f, 1))
  BY <1>1, GrowsValue DEF Got, Leaves
<1> HIDE DEF g
<1>4. Made(g, w, r, DOMAIN g)
  BY <1>2, <1>3, MakeExecutableMade
<1>5. Got(g, w, r, DOMAIN g)
  BY <1>1, <1>4, MadeGot
<1>6. Got(h, w, r, DOMAIN h)
  BY <1>3, <1>5, ThenMade
<1>7. QED
  BY <1>6 DEF r

LEMMA LambdaLands ==
  ASSUME NEW h, NEW ks, Ready(h, oblist, input, ks), NEW f, f \in ActiveOf(ks),
         NEW kind, kind \in {"LAMBDA", "NLAMBDA"}, GoReturn(LispLambda(h, kind, f), ks)
  PROVE  IInv'
<1> DEFINE w == Stock(Base(oblist, input), ks)
           F == ActiveOf(ks)
<1>1. Sound(h, w) /\ Held(h, w, F) /\ f \in F
  BY ReadyFacts
<1> HIDE DEF w, F
<1>2. Got(h, w, LispLambda(h, kind, f), DOMAIN h)
  BY <1>1, LambdaGot
<1>3. QED
  BY <1>2, LandGot DEF w

LEMMA CallSpecialLands ==
  ASSUME NEW h, NEW f, NEW env, NEW fn, NEW ks, With(h, oblist, input, f, ks),
         Few(h, f), Value(h, env), Value(h, fn), CallSpecial(h, f, env, fn, ks)
  PROVE  IInv'
<1> DEFINE called == <<[K("special", f, env) EXCEPT !.fn = fn]>> \o ks
           u == <<Waits("special", f, env, Nil, Nil, fn, 0)>> \o ks
           lambda == <<K("nlambda", f, env)>> \o ks
<1>1. called = u
  BY KFn
<1>2. Ready(h, oblist, input, u) /\ f \in ActiveOf(u)
  BY CalledReady
<1>3. Value(h, Reg(h, f, 1)) /\ Value(h, Reg(h, f, 2)) /\ Value(h, Nil)
  BY WithFacts, Registers, NilValue
<1>4. \/ Tag(h, fn) = "NLAMBDA" /\ EvalLambda(h, fn, f, env, lambda)
      \/ Go(h, Return(Reg(h, f, 1)), called)
      \/ Progn(h, 1, Nil, f, env, called)
      \/ Cond(h, 1, Nil, f, env, called)
      \/ Let(h, Reg(h, f, 1), f, env, called)
      \/ CProgn(h, Reg(h, f, 1), Nil, f, env, <<K("try", f, env)>> \o called)
      \/ Go(h, Eval(Reg(h, f, 2), f, env), <<K("set!", f, env)>> \o called)
      \/ NotASymbol(h, "set!", f, called)
      \/ GoReturn(LispLambda(h, "LAMBDA", f), called)
      \/ GoReturn(LispLambda(h, "NLAMBDA", f), called)
  BY DEF CallSpecial
<1> HIDE DEF called
<1>5. CASE Tag(h, fn) = "NLAMBDA" /\ EvalLambda(h, fn, f, env, lambda)
  <2>1. K("nlambda", f, env) = Waits("nlambda", f, env, Nil, Nil, Nil, 0)
    BY KPlain
  <2>2. Ready(h, oblist, input, lambda) /\ f \in ActiveOf(lambda)
    BY <1>3, <2>1, CalledReady
  <2> HIDE DEF lambda
  <2>3. QED
    BY <1>5, <2>2, EvalLambdaLands
<1> HIDE DEF u
<1>6. Turn(1)
  BY WidthFacts DEF Turn
<1>7. CASE Go(h, Return(Reg(h, f, 1)), called)
  BY <1>1, <1>2, <1>3, <1>7, LandReturn
<1>8. CASE Progn(h, 1, Nil, f, env, called)
  BY <1>1, <1>2, <1>3, <1>6, <1>8, PrognLands
<1>9. CASE Cond(h, 1, Nil, f, env, called)
  BY <1>1, <1>2, <1>3, <1>6, <1>9, CondLands
<1>10. CASE Let(h, Reg(h, f, 1), f, env, called)
  BY <1>1, <1>2, <1>3, <1>10, LetLands
<1>11. CASE CProgn(h, Reg(h, f, 1), Nil, f, env, <<K("try", f, env)>> \o called)
  <2> DEFINE v == <<Waits("try", f, env, Nil, Nil, Nil, 0)>> \o u
  <2>1. K("try", f, env) = Waits("try", f, env, Nil, Nil, Nil, 0)
    BY KPlain
  <2>2. CProgn(h, Reg(h, f, 1), Nil, f, env, v)
    BY <1>1, <1>11, <2>1
  <2>3. "try" \notin Owners /\ Bounded(h, Waits("try", f, env, Nil, Nil, Nil, 0))
    BY WaitsBounded DEF Owners, Carefree
  <2>4. Ready(h, oblist, input, v) /\ ActiveOf(v) = ActiveOf(u)
    BY <1>2, <1>3, <2>3, PushWaits
  <2> HIDE DEF v
  <2>5. QED
    BY <1>2, <1>3, <2>2, <2>4, CPrognLands
<1>12. CASE Go(h, Eval(Reg(h, f, 2), f, env), <<K("set!", f, env)>> \o called)
  <2>1. K("set!", f, env) = Waits("set!", f, env, Nil, Nil, Nil, 0)
    BY KPlain
  <2>2. Go(h, Eval(Reg(h, f, 2), f, env), <<Waits("set!", f, env, Nil, Nil, Nil, 0)>> \o u)
    BY <1>1, <1>12, <2>1
  <2>3. "set!" \notin Owners /\ Bounded(h, Waits("set!", f, env, Nil, Nil, Nil, 0))
    BY WaitsBounded DEF Owners, Carefree
  <2>4. QED
    BY <1>2, <1>3, <2>2, <2>3, LandWaits
<1>13. CASE NotASymbol(h, "set!", f, called)
  BY <1>1, <1>2, <1>13, NotASymbolLands
<1>14. CASE GoReturn(LispLambda(h, "LAMBDA", f), called)
  BY <1>1, <1>2, <1>14, LambdaLands
<1>15. CASE GoReturn(LispLambda(h, "NLAMBDA", f), called)
  BY <1>1, <1>2, <1>15, LambdaLands
<1>16. QED
  BY <1>4, <1>5, <1>7, <1>8, <1>9, <1>10, <1>11, <1>12, <1>13, <1>14, <1>15

-----------------------------------------------------------------------------
(* maybe_fixup_exception_location. *)
LEMMA ExceptionFacts ==
  ASSUME NEW h, HeapOK(h), NEW p, Value(h, p), IsException(h, p)
  PROVE  /\ p = Obj(p[2]) /\ p[2] \in DOMAIN h /\ ~h[p[2]].free /\ h[p[2]].kind = "EXEP"
         /\ Value(h, h[p[2]].part[1]) /\ 1 \in DOMAIN h[p[2]].part
<1>1. IsObj(p)
  BY AtomValue DEF IsException, Tag, Value, Points, IsAtom, Atoms
<1>2. p = Obj(p[2]) /\ p[2] \in DOMAIN h
  BY <1>1 DEF Value, Points
<1>3. ~h[p[2]].free /\ h[p[2]].kind = "EXEP"
  BY <1>1 DEF IsException, Tag
<1>4. DOMAIN h[p[2]].part = 1 .. 2 /\ PartsOK(h, h[p[2]])
  BY <1>2, <1>3, HeapFacts DEF Arity
<1>5. 1 \in DOMAIN h[p[2]].part
  BY <1>4
<1>6. Value(h, h[p[2]].part[1])
  BY <1>3, <1>4, <1>5 DEF PartsOK
<1>7. QED
  BY <1>2, <1>3, <1>5, <1>6

LEMMA LocatedMade ==
  ASSUME NEW h, NEW w, Sound(h, w), NEW payload, Value(h, payload), NEW where
  PROVE  LET wrapped == Bind(h, Key("payload"), payload, Nil)
         IN  /\ Made(h, w, Bind(h, Key("location"), Sym(where), payload), DOMAIN h)
             /\ Made(h, w, Bind(wrapped.heap, Key("location"), Sym(where), wrapped.ptr), DOMAIN h)
<1> DEFINE a == Key("location")
           b == Sym(where)
           c == Key("payload")
           r == Bind(h, c, payload, Nil)
           g == r.heap
<1>1. (\A k : Value(k, a) /\ Value(k, b) /\ Value(k, c) /\ Value(k, Nil)) /\ w \in Ledger
  BY AtomValues, SoundFacts
<1> HIDE DEF a, b, c
<1>2. Made(h, w, Bind(h, a, b, payload), DOMAIN h)
  BY <1>1, BindMade
<1>3. Made(h, w, r, DOMAIN h)
  BY <1>1, BindMade
<1> HIDE DEF r
<1>4. Sound(g, w) /\ Leaves(h, g, DOMAIN h) /\ Value(g, r.ptr)
  BY <1>1, <1>3, MadeFacts
<1> HIDE DEF g
<1>5. Made(g, w, Bind(g, a, b, r.ptr), DOMAIN g)
  BY <1>1, <1>4, BindMade
<1>6. Made(h, w, Bind(g, a, b, r.ptr), DOMAIN h)
  BY <1>4, <1>5, ThenMade
<1>7. QED
  BY <1>2, <1>6 DEF a, b, c, r, g

LEMMA RelocatedSound ==
  ASSUME NEW h, NEW w, Sound(h, w), NEW F, Held(h, w, F), NEW p, Value(h, p), IsException(h, p),
         NEW r, Made(h, w, r, DOMAIN h)
  PROVE  LET g == PartSet(r.heap, p[2], 1, r.ptr)
         IN  Sound(g, w) /\ Leaves(h, g, F)
<1> DEFINE g == r.heap
           v == r.ptr
           e == p[2]
           k == PartSet(g, e, 1, v)
           a == g[e].args
           old == g[e].part[1]
<1>1. /\ w \in Ledger /\ HeapOK(h) /\ e \in DOMAIN h /\ ~h[e].free /\ h[e].kind = "EXEP"
      /\ 1 \in DOMAIN h[e].part
  BY SoundFacts, ExceptionFacts
<1>2. Sound(g, Plus(w, v)) /\ Leaves(h, g, DOMAIN h) /\ Value(g, v)
  BY DEF Made
<1> HIDE DEF g, v, e
<1>3. e \in DOMAIN g /\ ~g[e].free /\ g[e].kind = "EXEP" /\ 1 \in DOMAIN g[e].part
  BY <1>1, <1>2 DEF Leaves, Keeps, Grows
<1>4. Writable(g, e, 1)
  BY <1>3 DEF Writable
<1>5. HeapOK(g) /\ CellOK(g[e]) /\ a \in Nat
  <2>1. HeapOK(g)
    BY <1>2, SoundFacts
  <2>2. QED
    BY <1>3, <2>1, HeapFacts
<1>6. Written(g, k, e, 1, v, a)
  BY <1>3, <1>5, PartSetFacts DEF Written
<1> HIDE DEF k, a
<1>7. Sound(k, Minus(Plus(Plus(w, v), old), v))
  BY <1>2, <1>4, <1>5, <1>6, WriteSound
<1>8. Leaves(g, k, (DOMAIN g) \ {e})
  BY <1>2, <1>4, <1>5, <1>6, WrittenOK
<1>9. Value(g, old)
  <2>1. PartsOK(g, g[e])
    BY <1>3, <1>5, HeapFacts
  <2>2. QED
    BY <1>3, <2>1 DEF PartsOK
<1> HIDE DEF old
<1>10. Sound(k, w)
  <2> DEFINE u == Minus(Plus(Plus(w, v), old), v)
  <2>1. \A i \in Nat : w[i] \in Int /\ Is(v, i) \in {0, 1} /\ Is(old, i) \in {0, 1}
    BY <1>1 DEF Ledger, Is
  <2>2. Plus(w, v) \in Ledger /\ Plus(Plus(w, v), old) \in Ledger
    BY <1>1, LedgerFacts
  <2>3. \A i \in Nat : u[i] = ((w[i] + Is(v, i)) + Is(old, i)) - Is(v, i)
    BY <1>1, <2>2, LedgerFacts
  <2> HIDE DEF u
  <2>4. \A i \in Nat : w[i] <= u[i] /\ (Is(v, i) = 0 /\ Is(old, i) = 0 => w[i] = u[i])
    BY <2>1, <2>3
  <2>5. \A i : i \notin DOMAIN g => Is(v, i) = 0 /\ Is(old, i) = 0
    <3>1. Points(g, v) /\ Points(g, old)
      BY <1>2, <1>9 DEF Value
    <3>2. QED
      BY <3>1, ObjFacts DEF Points, Is
  <2>6. DOMAIN k = DOMAIN g /\ ~NoException(k)
    <3>1. DOMAIN k = DOMAIN g /\ k[e].kind = "EXEP"
      BY <1>3, <1>5, <1>6, FilledCell DEF Written
    <3>2. QED
      BY <1>3, <3>1 DEF NoException
  <2>7. Fewer(k, w, u)
    BY <2>4, <2>5, <2>6 DEF Fewer
  <2>8. QED
    BY <1>1, <1>7, <2>7, Weaken DEF u
<1>11. e \notin F /\ F \subseteq DOMAIN h
  BY <1>1 DEF Held
<1>12. Leaves(h, k, F)
  <2>1. Leaves(h, g, F)
    BY <1>2, <1>11, LeavesFacts
  <2>2. F \subseteq (DOMAIN g) \ {e}
    BY <1>2, <1>11 DEF Leaves, Grows
  <2>3. Leaves(g, k, F)
    BY <1>8, <2>2, LeavesFacts
  <2>4. QED
    BY <2>1, <2>3, LeavesFacts
<1>13. QED
  BY <1>10, <1>12 DEF k, g, e, v

LEMMA FixedSound ==
  ASSUME NEW h, NEW w, Sound(h, w), NEW F, Held(h, w, F), NEW p, Value(h, p), IsException(h, p),
         NEW fn
  PROVE  Sound(Fixed(h, p, fn), w) /\ Leaves(h, Fixed(h, p, fn), F)
<1> DEFINE payload == h[p[2]].part[1]
           wrapped == Bind(h, Key("payload"), payload, Nil)
           r1 == Bind(h, Key("location"), Sym(fn[2]), payload)
           r2 == Bind(wrapped.heap, Key("location"), Sym(fn[2]), wrapped.ptr)
<1>1. HeapOK(h)
  BY SoundFacts
<1>2. Value(h, payload)
  BY <1>1, ExceptionFacts
<1>3. \/ Fixed(h, p, fn) = h
      \/ Fixed(h, p, fn) = PartSet(r1.heap, p[2], 1, r1.ptr)
      \/ Fixed(h, p, fn) = PartSet(r2.heap, p[2], 1, r2.ptr)
  BY DEF Fixed, PartSet
<1>4. Made(h, w, r1, DOMAIN h) /\ Made(h, w, r2, DOMAIN h)
  <2> HIDE DEF payload
  <2>1. QED
    BY <1>2, LocatedMade
<1> HIDE DEF r1, r2
<1>5. CASE Fixed(h, p, fn) = h
  BY <1>5, LeavesFacts DEF Held
<1>6. CASE Fixed(h, p, fn) = PartSet(r1.heap, p[2], 1, r1.ptr)
  BY <1>4, <1>6, RelocatedSound
<1>7. CASE Fixed(h, p, fn) = PartSet(r2.heap, p[2], 1, r2.ptr)
  BY <1>4, <1>7, RelocatedSound
<1>8. QED
  BY <1>3, <1>5, <1>6, <1>7

-----------------------------------------------------------------------------
(* What each step starts from. *)
LEMMA ModesDiffer ==
  /\ Done.mode = "done" /\ Idle.mode = "idle"
  /\ \A v : Return(v).mode = "return" /\ Return(v).value = v
  /\ \A form, f, env : LET c == Eval(form, f, env)
                       IN  c.mode = "eval" /\ c.form = form /\ c.frame = f /\ c.env = env
BY DEF Done, Idle, Return, Eval

LEMMA ToEvaluate ==
  ASSUME IInv, ctl.mode = "eval"
  PROVE  /\ Ready(heap, oblist, input, kont) /\ ctl.frame \in ActiveOf(kont)
         /\ Value(heap, ctl.form) /\ Value(heap, ctl.env)
<1>1. ctl # Done /\ ctl # Idle
  BY ModesDiffer
<1>2. Ready(heap, oblist, input, kont) /\ Runs(heap, ctl, kont)
  BY <1>1 DEF IInv
<1>3. QED
  BY <1>2 DEF Runs

LEMMA Wanted ==
  ASSUME IInv, NEW k, Wants(k)
  PROVE  /\ Ready(heap, oblist, input, kont) /\ kont # <<>> /\ Top.k = k
         /\ ctl = Return(ctl.value) /\ Value(heap, ctl.value)
<1>1. ctl.mode = "return" /\ kont # <<>> /\ Top.k = k
  BY DEF Wants, Top
<1>2. ctl # Done /\ ctl # Idle
  BY <1>1, ModesDiffer
<1>3. Ready(heap, oblist, input, kont) /\ Runs(heap, ctl, kont)
  BY <1>2 DEF IInv
<1>4. QED
  BY <1>1, <1>3 DEF Runs

LEMMA WantedOther ==
  ASSUME IInv, NEW k, Wants(k), k \notin Owners
  PROVE  /\ Ready(heap, oblist, input, Below) /\ Top.frame \in ActiveOf(Below) /\ Top.k = k
         /\ Value(heap, Top.env) /\ Value(heap, Top.rest) /\ Value(heap, Top.acc)
         /\ Value(heap, Top.fn) /\ Valued(heap, Top) /\ Bounded(heap, Top)
         /\ Sound(heap, Plus(Stock(Base(oblist, input), Below), Claim(Top)))
         /\ ctl = Return(ctl.value) /\ Value(heap, ctl.value)
<1>1. /\ Ready(heap, oblist, input, kont) /\ kont # <<>> /\ Head(kont).k = k
      /\ ctl = Return(ctl.value) /\ Value(heap, ctl.value)
  BY Wanted DEF Top
<1>2. /\ Ready(heap, oblist, input, Below) /\ Top.frame \in ActiveOf(Below)
      /\ Valued(heap, Top) /\ Bounded(heap, Top)
      /\ Sound(heap, Plus(Stock(Base(oblist, input), Below), Claim(Top)))
  BY <1>1, PopOther DEF Top, Below
<1>3. QED
  BY <1>1, <1>2 DEF Valued, Top

LEMMA WantedOwner ==
  ASSUME IInv, NEW k, Wants(k), k \in Owners
  PROVE  /\ With(heap, oblist, input, Top.frame, Below) /\ Top.k = k
         /\ Value(heap, Top.env) /\ Value(heap, Top.rest) /\ Value(heap, Top.acc)
         /\ Value(heap, Top.fn) /\ Bounded(heap, Top)
         /\ ctl = Return(ctl.value) /\ Value(heap, ctl.value)
<1>1. /\ Ready(heap, oblist, input, kont) /\ kont # <<>> /\ Head(kont).k = k
      /\ ctl = Return(ctl.value) /\ Value(heap, ctl.value)
  BY Wanted DEF Top
<1>2. /\ With(heap, oblist, input, Top.frame, Below) /\ Valued(heap, Top) /\ Bounded(heap, Top)
  BY <1>1, PopOwner DEF Top, Below
<1>3. QED
  BY <1>1, <1>2 DEF Valued, Top

LEMMA LandValue ==
  ASSUME NEW h, NEW ks, Ready(h, oblist, input, ks), ctl = Return(ctl.value), Value(h, ctl.value),
         Go(h, ctl, ks)
  PROVE  IInv'
<1> DEFINE v == ctl.value
<1>1. Go(h, Return(v), ks) /\ Value(h, v)
  OBVIOUS
<1> HIDE DEF v
<1>2. QED
  BY <1>1, LandReturn

-----------------------------------------------------------------------------
(* Each step keeps the invariant: eval_form. *)
LEMMA EvalAtomStep ==
  ASSUME IInv, EvalAtom
  PROVE  IInv'
<1> DEFINE form == ctl.form
<1>1. ctl.mode = "eval" /\ Go(heap, Return(form), kont)
  BY DEF EvalAtom
<1>2. Ready(heap, oblist, input, kont) /\ Value(heap, form)
  BY <1>1, ToEvaluate
<1> HIDE DEF form
<1>3. QED
  BY <1>1, <1>2, LandReturn

LEMMA EvalFormStep ==
  ASSUME IInv, EvalForm
  PROVE  IInv'
<1> DEFINE form == ctl.form
           env == ctl.env
           f == ctl.frame
           g == Append(heap, FrameCell(f, heap[f].depth + 1))
           m == Len(heap) + 1
           h == SetReg(g, m, 1, form)
           k == "form"
           ks == <<Waits(k, m, env, Nil, Nil, Nil, 0)>> \o kont
<1>1. ctl.mode = "eval" /\ (StackLimit = 0 \/ StackLimit > heap[f].depth + 1)
      /\ LispEval(h, m, env, <<K(k, m, env)>> \o kont)
  BY DEF EvalForm, MayCall, EmptyFrame, NextFrame
<1>2. LispEval(h, m, env, ks)
  BY <1>1, KPlain
<1>3. Ready(heap, oblist, input, kont) /\ Value(heap, form) /\ Value(heap, env) /\ f \in ActiveOf(kont)
  BY <1>1, ToEvaluate
<1>4. k \in Owners /\ Carefree(k)
  BY DEF Owners, Carefree
<1> HIDE DEF form, env, f, k
<1>5. With(g, oblist, input, m, kont) /\ Value(g, form) /\ Value(g, env)
  BY <1>1, <1>3, FrameMade
<1> HIDE DEF g, m
<1>6. With(h, oblist, input, m, kont) /\ \A p : Value(g, p) => Value(h, p)
  BY <1>5, Registers, WithSetReg
<1>7. Value(h, env) /\ Value(h, Nil) /\ Bounded(h, Waits(k, m, env, Nil, Nil, Nil, 0))
  BY <1>4, <1>5, <1>6, NilValue, WaitsBounded
<1> HIDE DEF h
<1>8. Ready(h, oblist, input, ks) /\ m \in ActiveOf(ks)
  BY <1>4, <1>6, <1>7, PushOwned
<1> HIDE DEF ks
<1>9. QED
  BY <1>2, <1>7, <1>8, LispEvalLands

(* An exception in the place of a frame. *)
LEMMA TooDeepLands ==
  ASSUME NEW f, NEW ks, Ready(heap, oblist, input, ks), f \in ActiveOf(ks),
         GoReturn(TooDeep(f), ks)
  PROVE  IInv'
<1> DEFINE w == Stock(Base(oblist, input), ks)
           message == Text("Stack limit exceeded.")
           r == MakeException(heap, message, f)
<1>1. Sound(heap, w) /\ w \in Ledger /\ IsFrame(heap, f)
  BY ReadyFacts
<1>2. ~IsObj(message) /\ Value(heap, message)
  BY AtomsAre, AtomValues DEF IsAtom
<1>3. GoReturn(r, ks)
  BY DEF TooDeep
<1> HIDE DEF w, message
<1>4. Sound(heap, Plus(w, message))
  BY <1>1, <1>2, AtomLedger
<1>5. Made(heap, w, r, DOMAIN heap)
  BY <1>1, <1>2, <1>4, MakeExceptionMade
<1> HIDE DEF r
<1>6. Got(heap, w, r, DOMAIN heap)
  BY <1>1, <1>5, MadeGot
<1>7. QED
  BY <1>3, <1>6, LandGot DEF w

LEMMA EvalTooDeepStep ==
  ASSUME IInv, EvalTooDeep
  PROVE  IInv'
<1> DEFINE f == ctl.frame
<1>1. ctl.mode = "eval" /\ GoReturn(TooDeep(f), kont)
  BY DEF EvalTooDeep
<1>2. Ready(heap, oblist, input, kont) /\ f \in ActiveOf(kont)
  BY <1>1, ToEvaluate
<1> HIDE DEF f
<1>3. QED
  BY <1>1, <1>2, TooDeepLands

(* A value that is an exception is one in the heap. *)
LEMMA ThrewException ==
  ASSUME ctl = Return(ctl.value), Value(heap, ctl.value), Threw
  PROVE  ~NoException(heap)
<1> DEFINE p == ctl.value
<1>1. Value(heap, p) /\ IsException(heap, p)
  BY DEF Threw
<1> HIDE DEF p
<1>2. IsObj(p)
  BY <1>1, AtomValue DEF IsException, Tag, Value, Points, IsAtom, Atoms
<1>3. p[2] \in DOMAIN heap /\ heap[p[2]].kind = "EXEP"
  BY <1>1, <1>2 DEF IsException, Tag, Value, Points
<1>4. QED
  BY <1>3 DEF NoException

(* The frame of an activation that returns: kept, or freed. *)
LEMMA OwnerReturns ==
  ASSUME IInv, NEW k, Wants(k), k \in Owners,
         (Threw /\ Go(heap, ctl, Below)) \/ Go(DecRef(heap, Obj(Top.frame)), ctl, Below)
  PROVE  IInv'
<1> DEFINE f == Top.frame
           g == DecRef(heap, Obj(f))
           v == ctl.value
           ks == Below
<1>1. With(heap, oblist, input, f, ks) /\ ctl = Return(v) /\ Value(heap, v)
  BY WantedOwner
<1>2. Threw => Ready(heap, oblist, input, ks)
  <2>1. Threw => ~NoException(heap)
    BY <1>1, ThrewException
  <2> HIDE DEF f, ks
  <2>2. QED
    BY <1>1, <2>1, WithDropped
<1>3. Ready(g, oblist, input, ks) /\ Value(g, v)
  <2> HIDE DEF f, v, ks
  <2>1. QED
    BY <1>1, WithFreed
<1>4. CASE Threw /\ Go(heap, ctl, ks)
  BY <1>1, <1>2, <1>4, LandValue
<1>5. CASE Go(g, ctl, ks)
  <2> HIDE DEF g, ks
  <2>1. QED
    BY <1>1, <1>3, <1>5, LandValue
<1>6. QED
  BY <1>4, <1>5

LEMMA FormValueStep ==
  ASSUME IInv, FormValue
  PROVE  IInv'
<1> DEFINE k == "form"
<1>1. Wants(k) /\ ((Threw /\ Go(heap, ctl, Below)) \/ Go(DecRef(heap, Obj(Top.frame)), ctl, Below))
  BY DEF FormValue
<1>2. k \in Owners
  BY DEF Owners
<1> HIDE DEF k
<1>3. QED
  BY <1>1, <1>2, OwnerReturns

LEMMA LambdaValueStep ==
  ASSUME IInv, LambdaValue
  PROVE  IInv'
<1> DEFINE k == "lambda"
<1>1. Wants(k) /\ ((Threw /\ Go(heap, ctl, Below)) \/ Go(DecRef(heap, Obj(Top.frame)), ctl, Below))
  BY DEF LambdaValue
<1>2. k \in Owners
  BY DEF Owners
<1> HIDE DEF k
<1>3. QED
  BY <1>1, <1>2, OwnerReturns

LEMMA NlambdaValueStep ==
  ASSUME IInv, NlambdaValue
  PROVE  IInv'
<1> DEFINE k == "nlambda"
<1>1. Wants(k) /\ ((Threw /\ Go(heap, ctl, Below)) \/ Go(DecRef(heap, Obj(Top.frame)), ctl, Below))
  BY DEF NlambdaValue
<1>2. k \in Owners
  BY DEF Owners
<1> HIDE DEF k
<1>3. QED
  BY <1>1, <1>2, OwnerReturns

LEMMA FunctionValueStep ==
  ASSUME IInv, FunctionValue
  PROVE  IInv'
<1> DEFINE f == Top.frame
           fn == Top.fn
           v == ctl.value
           ks == Below
           w == Plus(Stock(Base(oblist, input), ks), Obj(f))
           F == ActiveOf(ks) \cup {f}
           g == IF Threw THEN Fixed(heap, v, fn) ELSE heap
           d == DecRef(g, Obj(f))
<1>1. PICK k \in {"function", "special"} : Wants(k)
  BY DEF FunctionValue
<1>2. k \in Owners
  BY DEF Owners
<1>3. Go(d, ctl, ks)
  BY DEF FunctionValue
<1>4. With(heap, oblist, input, f, ks) /\ ctl = Return(v) /\ Value(heap, v)
  BY <1>1, <1>2, WantedOwner
<1>5. g = heap \/ (g = Fixed(heap, v, fn) /\ IsException(heap, v))
  BY DEF Threw
<1> HIDE DEF f, fn, v, ks, g
<1>6. Sound(heap, w) /\ Held(heap, w, F)
  BY <1>4, WithFacts
<1>7. With(g, oblist, input, f, ks) /\ Value(g, v)
  <2>1. CASE g = heap
    BY <1>4, <2>1
  <2>2. CASE g = Fixed(heap, v, fn) /\ IsException(heap, v)
    <3> HIDE DEF w, F
    <3>1. Sound(g, w) /\ Leaves(heap, g, F)
      BY <1>4, <1>6, <2>2, FixedSound
    <3>2. QED
      BY <1>4, <3>1, WithOn DEF w, F
  <2>3. QED
    BY <1>5, <2>1, <2>2
<1>8. Ready(d, oblist, input, ks) /\ Value(d, v)
  BY <1>7, WithFreed
<1> HIDE DEF d
<1>9. ctl = Return(ctl.value) /\ Value(d, ctl.value)
  BY <1>4, <1>8 DEF v
<1>10. QED
  BY <1>3, <1>8, <1>9, LandValue

(* An activation that goes on waiting. *)
LEMMA ValuedExcept ==
  ASSUME NEW h, NEW k, Valued(h, k), NEW v
  PROVE  /\ [k EXCEPT !.rest = v] = Waits(k.k, k.frame, k.env, v, k.acc, k.fn, k.i)
         /\ [k EXCEPT !.k = v] = Waits(v, k.frame, k.env, k.rest, k.acc, k.fn, k.i)
<1>1. k = [k |-> k.k, frame |-> k.frame, env |-> k.env, rest |-> k.rest, acc |-> k.acc,
           fn |-> k.fn, i |-> k.i]
  BY DEF Valued
<1>2. /\ [k EXCEPT !.rest = v] =
            [k |-> k.k, frame |-> k.frame, env |-> k.env, rest |-> v, acc |-> k.acc,
             fn |-> k.fn, i |-> k.i]
      /\ [k EXCEPT !.k = v] =
            [k |-> v, frame |-> k.frame, env |-> k.env, rest |-> k.rest, acc |-> k.acc,
             fn |-> k.fn, i |-> k.i]
  BY <1>1
<1>3. QED
  BY <1>2 DEF Waits

LEMMA ReadyCons ==
  ASSUME NEW h, NEW o, NEW n, NEW ks, Ready(h, o, n, ks), NEW a, Value(h, a), NEW d, Value(h, d)
  PROVE  LET l == MakeCons(h, a, d)
         IN  /\ Ready(l.heap, o, n, ks) /\ Value(l.heap, l.ptr)
             /\ \A p : Value(h, p) => Value(l.heap, p)
<1> DEFINE l == MakeCons(h, a, d)
           w == Stock(Base(o, n), ks)
<1>1. Sound(h, w)
  BY ReadyFacts
<1>2. Made(h, w, l, DOMAIN h)
  <2> HIDE DEF w
  <2>1. QED
    BY <1>1, MakeConsMade
<1> HIDE DEF l
<1>3. QED
  BY <1>2, ReadyMade DEF l

LEMMA ReadyBind ==
  ASSUME NEW h, NEW o, NEW n, NEW ks, Ready(h, o, n, ks), NEW name, Value(h, name),
         NEW v, Value(h, v), NEW env, Value(h, env)
  PROVE  LET l == Bind(h, name, v, env)
         IN  /\ Ready(l.heap, o, n, ks) /\ Value(l.heap, l.ptr)
             /\ \A p : Value(h, p) => Value(l.heap, p)
             /\ \A f \in ActiveOf(ks) : Keeps(h[f], l.heap[f])
<1> DEFINE l == Bind(h, name, v, env)
           w == Stock(Base(o, n), ks)
<1>1. Sound(h, w)
  BY ReadyFacts
<1>2. Made(h, w, l, DOMAIN h)
  <2> HIDE DEF w
  <2>1. QED
    BY <1>1, BindMade
<1> HIDE DEF l
<1>3. QED
  BY <1>2, ReadyMade DEF l

LEMMA ReadyGiveUp ==
  ASSUME NEW h, NEW o, NEW n, NEW ks, Ready(h, o, n, ks), NEW p, Value(h, p)
  PROVE  /\ Ready(GiveUp(h, p), o, n, ks) /\ \A q : Value(h, q) => Value(GiveUp(h, p), q)
         /\ \A f \in ActiveOf(ks) : Keeps(h[f], GiveUp(h, p)[f])
<1> DEFINE w == Stock(Base(o, n), ks)
           F == ActiveOf(ks)
           g == GiveUp(h, p)
<1>1. Sound(h, w) /\ Held(h, w, F)
  BY ReadyFacts
<1>2. Sound(g, w) /\ Leaves(h, g, F)
  <2> HIDE DEF w, F
  <2>1. QED
    BY <1>1, GiveUpSound
<1> HIDE DEF g
<1>3. Ready(g, o, n, ks) /\ \A q : Value(h, q) => Value(g, q)
  BY <1>2, ReadyOn
<1>4. QED
  BY <1>2, <1>3 DEF g, Leaves

(* eval_forms, eval_lambda, mapcar. *)
LEMMA FormsValueStep ==
  ASSUME IInv, FormsValue
  PROVE  IInv'
<1> DEFINE k == "forms"
           f == Top.frame
           env == Top.env
           rest == Top.rest
           acc == Top.acc
           v == ctl.value
           ks == Below
           l == MakeCons(heap, v, acc)
           forms == Cdr(l.heap, rest)
<1>1. Wants(k) /\ EvalForms(l.heap, forms, l.ptr, f, env, ks)
  BY DEF FormsValue
<1>2. k \notin Owners
  BY DEF Owners
<1> HIDE DEF k
<1>3. /\ Ready(heap, oblist, input, ks) /\ f \in ActiveOf(ks) /\ Value(heap, env)
      /\ Value(heap, rest) /\ Value(heap, acc) /\ Value(heap, v)
  BY <1>1, <1>2, WantedOther
<1> HIDE DEF f, env, rest, acc, v, ks
<1>4. /\ Ready(l.heap, oblist, input, ks) /\ Value(l.heap, l.ptr) /\ Value(l.heap, env)
      /\ Value(l.heap, rest)
  BY <1>3, ReadyCons
<1> HIDE DEF l
<1>5. Value(l.heap, forms)
  BY <1>4, ReadyFacts, CarCdrValue
<1> HIDE DEF forms
<1>6. QED
  BY <1>1, <1>3, <1>4, <1>5, EvalFormsLands

LEMMA BodyValueStep ==
  ASSUME IInv, BodyValue
  PROVE  IInv'
<1> DEFINE k == "body"
           f == Top.frame
           env == Top.env
           rest == Top.rest
           acc == Top.acc
           fn == Top.fn
           i == Top.i
           v == ctl.value
           ks == Below
           g == GiveUp(heap, v)
           form == Car(heap, rest)
           more == Cdr(heap, rest)
<1>1. Wants(k) /\ (\/ Go(heap, ctl, ks)
                   \/ Go(g, Eval(form, f, env), <<[Top EXCEPT !.rest = more]>> \o ks))
  BY DEF BodyValue
<1>2. k \notin Owners /\ Carefree(k) /\ k \notin {"mapcar", "repl"}
  BY DEF Owners, Carefree
<1> HIDE DEF k
<1>3. /\ Ready(heap, oblist, input, ks) /\ f \in ActiveOf(ks) /\ Top.k = k
      /\ Value(heap, env) /\ Value(heap, rest) /\ Value(heap, acc) /\ Value(heap, fn)
      /\ Valued(heap, Top) /\ ctl = Return(v) /\ Value(heap, v)
  BY <1>1, <1>2, WantedOther
<1>4. CASE Go(heap, ctl, ks)
  BY <1>3, <1>4, LandValue
<1>5. CASE Go(g, Eval(form, f, env), <<[Top EXCEPT !.rest = more]>> \o ks)
  <2> HIDE DEF more
  <2>1. [Top EXCEPT !.rest = more] = Waits(k, f, env, more, acc, fn, i)
    BY <1>3, ValuedExcept
  <2>2. Go(g, Eval(form, f, env), <<Waits(k, f, env, more, acc, fn, i)>> \o ks)
    BY <1>5, <2>1
  <2> HIDE DEF f, env, rest, acc, fn, i, v, ks
  <2>3. HeapOK(heap)
    BY <1>3, ReadyFacts
  <2>4. Value(heap, form) /\ Value(heap, more)
    BY <1>3, <2>3, CarCdrValue DEF more
  <2>5. Ready(g, oblist, input, ks) /\ \A q : Value(heap, q) => Value(g, q)
    BY <1>3, ReadyGiveUp
  <2> HIDE DEF g, form
  <2>6. /\ Value(g, env) /\ Value(g, acc) /\ Value(g, fn) /\ Value(g, form) /\ Value(g, more)
        /\ Bounded(g, Waits(k, f, env, more, acc, fn, i))
    BY <1>2, <1>3, <2>4, <2>5, WaitsBounded
  <2>7. QED
    BY <1>2, <1>3, <2>2, <2>5, <2>6, LandWaits
<1>6. QED
  BY <1>1, <1>4, <1>5

LEMMA MoreEvaluatedStep ==
  ASSUME IInv, MoreEvaluated
  PROVE  IInv'
<1> DEFINE k == "varargs"
           f == Top.frame
           env == Top.env
           rest == Top.rest
           fn == Top.fn
           v == ctl.value
           ks == Below
           i == ArgsInFrame
<1>1. Wants(k) /\ EvalRegisters(heap, i, v, fn, rest, f, env, ks)
  BY DEF MoreEvaluated
<1>2. k \notin Owners
  BY DEF Owners
<1>3. i \in 0 .. ArgsInFrame
  BY WidthFacts
<1> HIDE DEF k, i
<1>4. /\ Ready(heap, oblist, input, ks) /\ f \in ActiveOf(ks) /\ Value(heap, env)
      /\ Value(heap, rest) /\ Value(heap, fn) /\ Value(heap, v)
  BY <1>1, <1>2, WantedOther
<1> HIDE DEF f, env, rest, fn, v, ks
<1>5. QED
  BY <1>1, <1>3, <1>4, EvalRegistersLands

LEMMA RegisterValueStep ==
  ASSUME IInv, RegisterValue
  PROVE  IInv'
<1> DEFINE k == "register"
           f == Top.frame
           env == Top.env
           rest == Top.rest
           acc == Top.acc
           fn == Top.fn
           v == ctl.value
           ks == Below
           i == Top.i - 1
           c == MakeCons(heap, v, acc)
           l == IF v = Nil /\ acc = Nil THEN [heap |-> heap, ptr |-> Nil] ELSE c
<1>1. Wants(k) /\ EvalRegisters(l.heap, i, l.ptr, fn, rest, f, env, ks)
  BY DEF RegisterValue
<1>2. k \notin Owners
  BY DEF Owners
<1>3. /\ Ready(heap, oblist, input, ks) /\ f \in ActiveOf(ks) /\ Top.k = k
      /\ Value(heap, env) /\ Value(heap, rest) /\ Value(heap, acc) /\ Value(heap, fn)
      /\ Bounded(heap, Top) /\ Value(heap, v)
  <2> HIDE DEF k
  <2>1. QED
    BY <1>1, <1>2, WantedOther
<1>4. Top.i \in 1 .. ArgsInFrame
  BY <1>3 DEF Bounded
<1>5. i \in 0 .. ArgsInFrame
  BY <1>4, WidthFacts
<1> HIDE DEF f, env, rest, acc, fn, v, ks, i
<1>6. /\ Ready(c.heap, oblist, input, ks) /\ Value(c.heap, c.ptr) /\ Value(c.heap, env)
      /\ Value(c.heap, rest) /\ Value(c.heap, fn)
  BY <1>3, ReadyCons
<1> HIDE DEF c
<1>7. l = c \/ (l.heap = heap /\ l.ptr = Nil)
  OBVIOUS
<1> HIDE DEF l
<1>8. /\ Ready(l.heap, oblist, input, ks) /\ Value(l.heap, l.ptr) /\ Value(l.heap, env)
      /\ Value(l.heap, rest) /\ Value(l.heap, fn)
  BY <1>3, <1>6, <1>7, NilValue
<1>9. QED
  BY <1>1, <1>3, <1>5, <1>8, EvalRegistersLands

LEMMA MapValueStep ==
  ASSUME IInv, MapValue
  PROVE  IInv'
<1> DEFINE k == "mapcar"
           f == Top.frame
           env == Top.env
           rest == Top.rest
           acc == Top.acc
           fn == Top.fn
           v == ctl.value
           ks == Below
           w == Stock(Base(oblist, input), ks)
           F == ActiveOf(ks)
           g == IncRef(heap, fn)
           l == MakeCons(heap, v, acc)
           h == DecRef(l.heap, fn)
           list == Cdr(h, rest)
<1>1. Wants(k) /\ (Go(g, ctl, ks) \/ MapNext(h, f, list, l.ptr, env, ks))
  BY DEF MapValue
<1>2. k \notin Owners
  BY DEF Owners
<1>3. /\ Ready(heap, oblist, input, ks) /\ f \in F /\ Top.k = k
      /\ Value(heap, env) /\ Value(heap, rest) /\ Value(heap, acc) /\ Value(heap, fn)
      /\ ctl = Return(v) /\ Value(heap, v) /\ Sound(heap, Plus(w, Claim(Top)))
  <2> HIDE DEF k
  <2>1. QED
    BY <1>1, <1>2, WantedOther
<1>4. Claim(Top) = fn
  BY <1>2, <1>3 DEF Claim
<1>5. Sound(heap, Plus(w, fn))
  BY <1>3, <1>4
<1> HIDE DEF f, env, rest, acc, fn, v, ks, k
<1>6. w \in Ledger /\ DOMAIN heap \subseteq Nat /\ F \subseteq DOMAIN heap /\ Held(heap, w, F)
  BY <1>3, ReadyFacts
<1>7. CASE Go(g, ctl, ks)
  <2>1. Value(heap, fn)
    BY <1>3
  <2> DEFINE u == Plus(w, fn)
  <2>2. u \in Ledger
    BY <1>6, LedgerFacts
  <2>3. Sound(g, Plus(u, fn)) /\ Leaves(heap, g, DOMAIN heap)
    <3> HIDE DEF u
    <3>1. Sound(heap, u)
      BY <1>5 DEF u
    <3>2. QED
      BY <2>1, <3>1, IncRefSound
  <2> HIDE DEF g
  <2>4. Value(g, fn)
    BY <2>1, <2>3, GrowsValue DEF Leaves
  <2>5. Sound(g, u)
    <3> HIDE DEF u
    <3>1. QED
      BY <2>2, <2>3, <2>4, NoMore
  <2>6. Sound(g, w) /\ Leaves(heap, g, F)
    BY <1>6, <2>3, <2>5, <2>4, NoMore, LeavesFacts
  <2>7. Ready(g, oblist, input, ks) /\ Value(g, v)
    BY <1>3, <2>6, ReadyOn
  <2>8. ctl = Return(ctl.value) /\ Value(g, ctl.value)
    BY <1>3, <2>7 DEF v
  <2>9. QED
    BY <1>7, <2>7, <2>8, LandValue
<1>8. CASE MapNext(h, f, list, l.ptr, env, ks)
  <2> DEFINE u == Plus(w, fn)
  <2>1. u \in Ledger /\ Minus(u, fn) = w
    BY <1>6, LedgerFacts
  <2>2. Made(heap, u, l, DOMAIN heap)
    <3> HIDE DEF u
    <3>1. Sound(heap, u)
      BY <1>5 DEF u
    <3>2. QED
      BY <1>3, <3>1, MakeConsMade
  <2> HIDE DEF u, l
  <2>3. /\ Sound(l.heap, u) /\ Value(l.heap, l.ptr) /\ Leaves(heap, l.heap, DOMAIN heap)
        /\ \A p : Value(heap, p) => Value(l.heap, p)
    BY <2>1, <2>2, MadeFacts
  <2>4. Leaves(heap, l.heap, F) /\ Held(l.heap, w, F)
    BY <1>6, <2>3, LeavesFacts, HeldOn
  <2>5. Points(l.heap, fn) /\ Owed(l.heap, u, fn)
    BY <1>3, <2>3 DEF Value, Owed
  <2>6. Sound(h, w) /\ Leaves(l.heap, h, F)
    <3>1. Held(l.heap, Minus(u, fn), F)
      BY <2>1, <2>4
    <3>2. Sound(h, Minus(u, fn)) /\ Leaves(l.heap, h, F)
      BY <2>3, <2>5, <3>1, DecRefSound
    <3>3. QED
      BY <2>1, <3>2
  <2>7. Leaves(heap, h, F)
    BY <2>4, <2>6, LeavesFacts
  <2> HIDE DEF h
  <2>8. Ready(h, oblist, input, ks) /\ \A p : Value(heap, p) => Value(h, p)
    BY <1>3, <2>6, <2>7, ReadyOn
  <2>9. Value(h, l.ptr)
    BY <2>3, <2>6, GrowsValue DEF Leaves
  <2>10. Value(h, list) /\ Value(h, env)
    BY <1>3, <2>8, ReadyFacts, CarCdrValue
  <2> HIDE DEF list
  <2>11. QED
    BY <1>3, <1>8, <2>8, <2>9, <2>10, MapNextLands
<1>9. QED
  BY <1>1, <1>7, <1>8

(* The arguments of a function. *)
LEMMA ArgValueStep ==
  ASSUME IInv, ArgValue
  PROVE  IInv'
<1> DEFINE k == "arg"
           f == Top.frame
           env == Top.env
           rest == Top.rest
           fn == Top.fn
           v == ctl.value
           ks == Below
           r == heap[f].args + 1
           h == SetReg(heap, f, r, v)
<1>1. Wants(k) /\ ((Threw /\ Go(heap, ctl, ks)) \/ FillFrame(h, f, rest, env, fn, ks))
  BY DEF ArgValue
<1>2. k \in Owners
  BY DEF Owners
<1>3. /\ With(heap, oblist, input, f, ks) /\ Top.k = k
      /\ Value(heap, env) /\ Value(heap, rest) /\ Value(heap, fn)
      /\ Bounded(heap, Top) /\ ctl = Return(v) /\ Value(heap, v)
  <2> HIDE DEF k
  <2>1. QED
    BY <1>1, <1>2, WantedOwner
<1>4. heap[f].args < ArgsInFrame
  BY <1>3 DEF Bounded
<1> HIDE DEF f, env, rest, fn, v, ks, k
<1>5. heap[f].args \in Nat
  BY <1>3, WithFacts
<1>6. r \in 1 .. ArgsInFrame
  BY <1>4, <1>5, WidthFacts
<1> HIDE DEF r
<1>7. CASE Threw /\ Go(heap, ctl, ks)
  <2>1. ctl = Return(ctl.value) /\ Value(heap, ctl.value)
    BY <1>3 DEF v
  <2>2. Ready(heap, oblist, input, ks)
    BY <1>3, <1>7, <2>1, ThrewException, WithDropped
  <2>3. QED
    BY <1>7, <2>2, <2>1, LandValue
<1>8. CASE FillFrame(h, f, rest, env, fn, ks)
  <2>1. With(h, oblist, input, f, ks) /\ \A p : Value(heap, p) => Value(h, p)
    BY <1>3, <1>6, WithSetReg
  <2> HIDE DEF h
  <2>2. Value(h, rest) /\ Value(h, env) /\ Value(h, fn)
    BY <1>3, <2>1
  <2>3. QED
    BY <1>8, <2>1, <2>2, FillFrameLands
<1>9. QED
  BY <1>1, <1>7, <1>8

LEMMA MoreValueStep ==
  ASSUME IInv, MoreValue
  PROVE  IInv'
<1> DEFINE k == "more"
           f == Top.frame
           env == Top.env
           rest == Top.rest
           fn == Top.fn
           v == ctl.value
           ks == Below
           items == Items(heap, rest)
           m == Len(items)
           g == MoreSet(heap, f, ArgsInFrame + 1, v, m)
           h == IncRef(g, v)
<1>1. Wants(k) /\ Call(h, f, env, fn, ks)
  BY DEF MoreValue, MoreSet
<1>2. k \in Owners
  BY DEF Owners
<1> HIDE DEF k
<1>3. /\ With(heap, oblist, input, f, ks)
      /\ Value(heap, env) /\ Value(heap, rest) /\ Value(heap, fn) /\ Value(heap, v)
  BY <1>1, <1>2, WantedOwner
<1> HIDE DEF f, env, rest, fn, v, ks
<1>4. HeapOK(heap)
  BY <1>3, WithFacts
<1>5. ValuesIn(heap, items)
  BY <1>3, <1>4, ItemsFacts
<1> HIDE DEF items
<1>6. m \in Nat
  BY <1>5, SequenceFacts DEF ValuesIn
<1> HIDE DEF m
<1>7. With(h, oblist, input, f, ks) /\ \A p : Value(heap, p) => Value(h, p)
  BY <1>3, <1>6, WithMore
<1> HIDE DEF h, g
<1>8. Value(h, env) /\ Value(h, fn)
  BY <1>3, <1>7
<1>9. QED
  BY <1>1, <1>7, <1>8, CallLands

(* progn. *)
LEMMA CPrognValueStep ==
  ASSUME IInv, CPrognValue
  PROVE  IInv'
<1> DEFINE k == "c_progn"
           f == Top.frame
           env == Top.env
           rest == Top.rest
           acc == Top.acc
           v == ctl.value
           ks == Below
           h == GiveUp(heap, acc)
           forms == IF Threw THEN Nil ELSE Cdr(h, rest)
<1>1. Wants(k) /\ CProgn(h, forms, v, f, env, ks)
  BY DEF CPrognValue
<1>2. k \notin Owners
  BY DEF Owners
<1> HIDE DEF k
<1>3. /\ Ready(heap, oblist, input, ks) /\ f \in ActiveOf(ks) /\ Value(heap, env)
      /\ Value(heap, rest) /\ Value(heap, acc) /\ Value(heap, v)
  BY <1>1, <1>2, WantedOther
<1>4. forms \in {Nil, Cdr(h, rest)}
  OBVIOUS
<1> HIDE DEF f, env, rest, acc, v, ks, forms
<1>5. Ready(h, oblist, input, ks) /\ \A q : Value(heap, q) => Value(h, q)
  BY <1>3, ReadyGiveUp
<1> HIDE DEF h
<1>6. Value(h, env) /\ Value(h, rest) /\ Value(h, v) /\ HeapOK(h)
  BY <1>3, <1>5, ReadyFacts
<1>7. Value(h, forms)
  BY <1>4, <1>6, CarCdrValue, NilValue
<1>8. QED
  BY <1>1, <1>3, <1>5, <1>6, <1>7, CPrognLands

LEMMA PrognValueStep ==
  ASSUME IInv, PrognValue
  PROVE  IInv'
<1> DEFINE k == "progn"
           f == Top.frame
           env == Top.env
           acc == Top.acc
           v == ctl.value
           ks == Below
           h == GiveUp(heap, acc)
           i == Top.i + 1
<1>1. Wants(k) /\ Progn(h, i, v, f, env, ks)
  BY DEF PrognValue
<1>2. k \notin Owners
  BY DEF Owners
<1>3. /\ Ready(heap, oblist, input, ks) /\ f \in ActiveOf(ks) /\ Value(heap, env)
      /\ Value(heap, acc) /\ Value(heap, v) /\ Bounded(heap, Top) /\ Top.k = k
  <2> HIDE DEF k
  <2>1. QED
    BY <1>1, <1>2, WantedOther
<1>4. Top.i \in 1 .. ArgsInFrame
  BY <1>3 DEF Bounded
<1>5. Turn(i)
  BY <1>4, WidthFacts DEF Turn
<1> HIDE DEF f, env, acc, v, ks, i
<1>6. Ready(h, oblist, input, ks) /\ \A q : Value(heap, q) => Value(h, q)
  BY <1>3, ReadyGiveUp
<1> HIDE DEF h
<1>7. Value(h, env) /\ Value(h, v)
  BY <1>3, <1>6
<1>8. QED
  BY <1>1, <1>3, <1>5, <1>6, <1>7, PrognLands

(* The frame and the register of an activation that has both. *)
LEMMA TurnAfter ==
  ASSUME NEW i, i \in 1 .. ArgsInFrame
  PROVE  Turn(i + 1)
BY WidthFacts DEF Turn

LEMMA NextTurn ==
  ASSUME NEW h, NEW k, Bounded(h, k), k.k \in {"let body", "test", "no clause"}
  PROVE  Few(h, k.frame) /\ Turn(k.i + 1)
<1>1. Few(h, k.frame)
  BY DEF Bounded, Few
<1>2. k.i \in 1 .. ArgsInFrame
  BY DEF Bounded
<1>3. Turn(k.i + 1)
  BY <1>2, TurnAfter
<1>4. QED
  BY <1>1, <1>3

(* cond. *)
LEMMA TestValueStep ==
  ASSUME IInv, TestValue
  PROVE  IInv'
<1> DEFINE k == "test"
           c == "clause"
           f == Top.frame
           env == Top.env
           rest == Top.rest
           acc == Top.acc
           fn == Top.fn
           ks == Below
           i == Top.i
           clause == Reg(heap, f, i)
           forms == Cdr(heap, clause)
<1>1. Wants(k) /\ (\/ Cond(heap, i + 1, Nil, f, env, ks)
                   \/ CProgn(heap, forms, Nil, f, env, <<[Top EXCEPT !.k = c]>> \o ks))
  BY DEF TestValue
<1>2. k \notin Owners /\ k \in {"let body", "test", "no clause"}
      /\ c \notin Owners /\ c \notin {"mapcar", "repl"} /\ Carefree(c)
  BY DEF Owners, Carefree
<1> HIDE DEF k, c
<1>3. /\ Ready(heap, oblist, input, ks) /\ f \in ActiveOf(ks) /\ Value(heap, env)
      /\ Value(heap, rest) /\ Value(heap, acc) /\ Value(heap, fn)
      /\ Valued(heap, Top) /\ Bounded(heap, Top) /\ Top.k = k
  BY <1>1, <1>2, WantedOther
<1>4. Few(heap, f) /\ Turn(i + 1) /\ i \in 1 .. ArgsInFrame
  <2>1. Few(heap, f) /\ Turn(i + 1)
    BY <1>2, <1>3, NextTurn
  <2>2. i \in 1 .. ArgsInFrame
    BY <1>2, <1>3 DEF Bounded
  <2>3. QED
    BY <2>1, <2>2
<1>5. [Top EXCEPT !.k = c] = Waits(c, f, env, rest, acc, fn, i)
  BY <1>3, ValuedExcept
<1>6. \/ Cond(heap, i + 1, Nil, f, env, ks)
      \/ CProgn(heap, forms, Nil, f, env, <<Waits(c, f, env, rest, acc, fn, i)>> \o ks)
  BY <1>1, <1>5
<1> HIDE DEF f, env, rest, acc, fn, ks, i
<1>7. Value(heap, Nil) /\ Value(heap, clause) /\ HeapOK(heap)
  BY <1>3, <1>4, ReadyFacts, NilValue
<1> HIDE DEF clause
<1>8. Value(heap, forms)
  BY <1>7, CarCdrValue
<1> HIDE DEF forms
<1>9. CASE Cond(heap, i + 1, Nil, f, env, ks)
  <2> DEFINE n == i + 1
  <2>1. Turn(n) /\ Few(heap, f) /\ Cond(heap, n, Nil, f, env, ks)
    BY <1>4, <1>9
  <2> HIDE DEF n
  <2>2. QED
    BY <1>3, <1>7, <2>1, CondLands
<1>10. CASE CProgn(heap, forms, Nil, f, env, <<Waits(c, f, env, rest, acc, fn, i)>> \o ks)
  <2> DEFINE u == <<Waits(c, f, env, rest, acc, fn, i)>> \o ks
  <2>1. Bounded(heap, Waits(c, f, env, rest, acc, fn, i))
    BY <1>2, WaitsBounded
  <2>2. /\ Ready(heap, oblist, input, ks) /\ f \in ActiveOf(ks) /\ c \notin Owners /\ c \notin {"mapcar", "repl"}
        /\ Value(heap, env) /\ Value(heap, rest) /\ Value(heap, acc) /\ Value(heap, fn)
    BY <1>2, <1>3
  <2>3. Ready(heap, oblist, input, u) /\ ActiveOf(u) = ActiveOf(ks)
    BY <2>1, <2>2, PushWaits
  <2>4. CProgn(heap, forms, Nil, f, env, u)
    BY <1>10
  <2> HIDE DEF u
  <2>5. f \in ActiveOf(u)
    BY <2>2, <2>3
  <2>6. QED
    BY <1>3, <1>7, <1>8, <2>3, <2>4, <2>5, CPrognLands
<1>11. QED
  BY <1>6, <1>9, <1>10

LEMMA NoClauseStep ==
  ASSUME IInv, NoClause
  PROVE  IInv'
<1> DEFINE k == "no clause"
           f == Top.frame
           env == Top.env
           v == ctl.value
           ks == Below
           i == Top.i + 1
<1>1. Wants(k) /\ Cond(heap, i, v, f, env, ks)
  BY DEF NoClause
<1>2. k \notin Owners /\ k \in {"let body", "test", "no clause"}
  BY DEF Owners
<1> HIDE DEF k
<1>3. /\ Ready(heap, oblist, input, ks) /\ f \in ActiveOf(ks) /\ Value(heap, env)
      /\ Value(heap, v) /\ Bounded(heap, Top) /\ Top.k = k
  BY <1>1, <1>2, WantedOther
<1>4. Few(heap, f) /\ Turn(i)
  BY <1>2, <1>3, NextTurn
<1> HIDE DEF f, env, v, ks, i
<1>5. QED
  BY <1>1, <1>3, <1>4, CondLands

LEMMA ClauseValueStep ==
  ASSUME IInv, ClauseValue
  PROVE  IInv'
<1> DEFINE k == "clause"
           v == ctl.value
           ks == Below
           l == MakeCons(heap, T, v)
           g == l.heap
<1>1. Wants(k) /\ Go(g, ctl, ks)
  BY DEF ClauseValue
<1>2. k \notin Owners
  BY DEF Owners
<1> HIDE DEF k
<1>3. Ready(heap, oblist, input, ks) /\ ctl = Return(v) /\ Value(heap, v) /\ Value(heap, T)
  BY <1>1, <1>2, WantedOther, AtomValues
<1> HIDE DEF v, ks
<1>4. Ready(g, oblist, input, ks) /\ Value(g, v)
  BY <1>3, ReadyCons
<1> HIDE DEF g
<1>5. ctl = Return(ctl.value) /\ Value(g, ctl.value)
  BY <1>3, <1>4 DEF v
<1>6. QED
  BY <1>1, <1>4, <1>5, LandValue

(* let, try, set!. *)
LEMMA LetBodyValueStep ==
  ASSUME IInv, LetBodyValue
  PROVE  IInv'
<1> DEFINE k == "let body"
           f == Top.frame
           env == Top.env
           v == ctl.value
           ks == Below
           i == Top.i + 1
<1>1. Wants(k) /\ (Go(heap, ctl, ks) \/ LetBody(heap, i, v, f, env, ks))
  BY DEF LetBodyValue
<1>2. k \notin Owners /\ k \in {"let body", "test", "no clause"}
  BY DEF Owners
<1> HIDE DEF k
<1>3. /\ Ready(heap, oblist, input, ks) /\ f \in ActiveOf(ks) /\ Value(heap, env)
      /\ ctl = Return(v) /\ Value(heap, v) /\ Bounded(heap, Top) /\ Top.k = k
  BY <1>1, <1>2, WantedOther
<1>4. Few(heap, f) /\ Turn(i)
  BY <1>2, <1>3, NextTurn
<1>5. CASE Go(heap, ctl, ks)
  BY <1>3, <1>5, LandValue
<1>6. CASE LetBody(heap, i, v, f, env, ks)
  <2> HIDE DEF f, env, v, ks, i
  <2>1. QED
    BY <1>3, <1>4, <1>6, LetBodyLands
<1>7. QED
  BY <1>1, <1>5, <1>6

LEMMA LetValueStep ==
  ASSUME IInv, LetValue
  PROVE  IInv'
<1> DEFINE k == "let"
           f == Top.frame
           env == Top.env
           rest == Top.rest
           acc == Top.acc
           v == ctl.value
           ks == Below
           e == Bind(heap, acc, v, env)
           cursor == Cdr(e.heap, rest)
<1>1. Wants(k) /\ Let(e.heap, cursor, f, e.ptr, ks)
  BY DEF LetValue
<1>2. k \notin Owners
  BY DEF Owners
<1>3. /\ Ready(heap, oblist, input, ks) /\ f \in ActiveOf(ks) /\ Value(heap, env)
      /\ Value(heap, rest) /\ Value(heap, acc) /\ Value(heap, v)
      /\ Bounded(heap, Top) /\ Top.k = k
  <2> HIDE DEF k
  <2>1. QED
    BY <1>1, <1>2, WantedOther
<1>4. Few(heap, f)
  BY <1>3 DEF Bounded, Few
<1> HIDE DEF f, env, rest, acc, v, ks
<1>5. /\ Ready(e.heap, oblist, input, ks) /\ Value(e.heap, e.ptr)
      /\ Value(e.heap, rest) /\ Keeps(heap[f], e.heap[f])
  BY <1>3, ReadyBind
<1> HIDE DEF e
<1>6. Few(e.heap, f)
  BY <1>4, <1>5 DEF Few, Keeps
<1>7. Value(e.heap, cursor)
  BY <1>5, ReadyFacts, CarCdrValue
<1> HIDE DEF cursor
<1>8. QED
  BY <1>1, <1>3, <1>5, <1>6, <1>7, LetLands

LEMMA TryValueStep ==
  ASSUME IInv, TryValue
  PROVE  IInv'
<1> DEFINE k == "try"
           f == Top.frame
           env == Top.env
           v == ctl.value
           ks == Below
           name == Sym("*exception*")
           e == Bind(heap, name, v, env)
           forms == Reg(e.heap, f, 2)
<1>1. Wants(k) /\ (Go(heap, ctl, ks) \/ CProgn(e.heap, forms, Nil, f, e.ptr, ks))
  BY DEF TryValue
<1>2. k \notin Owners
  BY DEF Owners
<1> HIDE DEF k
<1>3. /\ Ready(heap, oblist, input, ks) /\ f \in ActiveOf(ks) /\ Value(heap, env)
      /\ ctl = Return(v) /\ Value(heap, v) /\ Value(heap, name)
  BY <1>1, <1>2, WantedOther, AtomValues
<1>4. CASE Go(heap, ctl, ks)
  BY <1>3, <1>4, LandValue
<1>5. CASE CProgn(e.heap, forms, Nil, f, e.ptr, ks)
  <2> HIDE DEF f, env, v, ks, name
  <2>1. Ready(e.heap, oblist, input, ks) /\ Value(e.heap, e.ptr)
    BY <1>3, ReadyBind
  <2> HIDE DEF e
  <2>2. Value(e.heap, forms) /\ Value(e.heap, Nil)
    BY <1>3, <2>1, ReadyFacts, Registers, NilValue
  <2> HIDE DEF forms
  <2>3. QED
    BY <1>3, <1>5, <2>1, <2>2, CPrognLands
<1>6. QED
  BY <1>1, <1>4, <1>5

LEMMA SetValueStep ==
  ASSUME IInv, SetValue
  PROVE  IInv'
<1> DEFINE k == "set!"
           v == ctl.value
           ks == Below
           name == Reg(heap, Top.frame, 1)
<1>1. Wants(k) /\ DeepBind(heap, name, v, ks)
  BY DEF SetValue
<1>2. k \notin Owners
  BY DEF Owners
<1> HIDE DEF k
<1>3. Ready(heap, oblist, input, ks) /\ Value(heap, v)
  BY <1>1, <1>2, WantedOther
<1> HIDE DEF v, ks, name
<1>4. QED
  BY <1>1, <1>3, DeepBindLands

(* c_apply. *)
LEMMA ApplyFunctionStep ==
  ASSUME IInv, ApplyFunction
  PROVE  IInv'
<1> DEFINE k == "fn"
           f == Top.frame
           env == Top.env
           v == ctl.value
           ks == Below
           first == Reg(heap, f, 1)
           args == Cdr(heap, first)
           g == Append(heap, FrameCell(f, heap[f].depth + 1))
           m == Len(heap) + 1
<1>1. Wants(k) /\ (\/ MayCall(f) /\ FillFrame(g, m, args, env, v, ks)
                   \/ GoReturn(TooDeep(f), ks))
  BY DEF ApplyFunction, EmptyFrame, NextFrame, ArgumentForms
<1>2. k \notin Owners
  BY DEF Owners
<1> HIDE DEF k
<1>3. /\ Ready(heap, oblist, input, ks) /\ f \in ActiveOf(ks) /\ Value(heap, env)
      /\ Value(heap, v)
  BY <1>1, <1>2, WantedOther
<1> HIDE DEF f, env, v, ks
<1>4. HeapOK(heap) /\ Value(heap, first)
  BY <1>3, ReadyFacts, Registers
<1> HIDE DEF first
<1>5. Value(heap, args)
  BY <1>4, CarCdrValue
<1> HIDE DEF args
<1>6. CASE MayCall(f) /\ FillFrame(g, m, args, env, v, ks)
  <2>1. StackLimit = 0 \/ StackLimit > heap[f].depth + 1
    BY <1>6 DEF MayCall
  <2>2. With(g, oblist, input, m, ks) /\ \A p : Value(heap, p) => Value(g, p)
    BY <1>3, <2>1, FrameMade
  <2> HIDE DEF g, m
  <2>3. Value(g, args) /\ Value(g, env) /\ Value(g, v)
    BY <1>3, <1>5, <2>2
  <2>4. QED
    BY <1>6, <2>2, <2>3, FillFrameLands
<1>7. CASE GoReturn(TooDeep(f), ks)
  BY <1>3, <1>7, TooDeepLands
<1>8. QED
  BY <1>1, <1>6, <1>7

LEMMA ApplySpecialStep ==
  ASSUME IInv, ApplySpecial
  PROVE  IInv'
<1> DEFINE k == "fn"
           f == Top.frame
           env == Top.env
           v == ctl.value
           ks == Below
           first == Reg(heap, f, 1)
           args == Cdr(heap, first)
           g == Append(heap, FrameCell(f, heap[f].depth + 1))
           m == Len(heap) + 1
           h == SpecialFrame(g, m, args)
<1>1. Wants(k) /\ (\/ MayCall(f) /\ CallSpecial(h, m, env, v, ks)
                   \/ GoReturn(TooDeep(f), ks))
  BY DEF ApplySpecial, EmptyFrame, NextFrame, ArgumentForms
<1>2. k \notin Owners
  BY DEF Owners
<1> HIDE DEF k
<1>3. /\ Ready(heap, oblist, input, ks) /\ f \in ActiveOf(ks) /\ Value(heap, env)
      /\ Value(heap, v)
  BY <1>1, <1>2, WantedOther
<1> HIDE DEF f, env, v, ks
<1>4. HeapOK(heap) /\ Value(heap, first)
  BY <1>3, ReadyFacts, Registers
<1> HIDE DEF first
<1>5. Value(heap, args)
  BY <1>4, CarCdrValue
<1> HIDE DEF args
<1>6. CASE MayCall(f) /\ CallSpecial(h, m, env, v, ks)
  <2>1. StackLimit = 0 \/ StackLimit > heap[f].depth + 1
    BY <1>6 DEF MayCall
  <2>2. With(g, oblist, input, m, ks) /\ g[m].args = 0 /\ \A p : Value(heap, p) => Value(g, p)
    BY <1>3, <2>1, FrameMade
  <2> HIDE DEF g, m
  <2>3. Value(g, args) /\ Value(g, env) /\ Value(g, v)
    BY <1>3, <1>5, <2>2
  <2>4. g[m].args <= ArgsInFrame
    BY <2>2, WidthFacts
  <2>5. With(h, oblist, input, m, ks) /\ h[m].args <= ArgsInFrame /\ \A p : Value(g, p) => Value(h, p)
    BY <2>2, <2>3, <2>4, SpecialFrameWith
  <2> HIDE DEF h
  <2>6. Few(h, m) /\ Value(h, env) /\ Value(h, v)
    BY <2>3, <2>5 DEF Few
  <2>7. With(h, oblist, input, m, ks) /\ CallSpecial(h, m, env, v, ks)
    BY <1>6, <2>5
  <2>8. QED
    BY <2>6, <2>7, CallSpecialLands
<1>7. CASE GoReturn(TooDeep(f), ks)
  BY <1>3, <1>7, TooDeepLands
<1>8. QED
  BY <1>1, <1>6, <1>7

LEMMA ApplyOtherStep ==
  ASSUME IInv, ApplyOther
  PROVE  IInv'
<1> DEFINE k == "fn"
           f == Top.frame
           v == ctl.value
           ks == Below
           where == Sym("apply")
           what == Text("Unexpected cell with tag in function position")
<1>1. Wants(k) /\ (Go(heap, ctl, ks) \/ GoReturn(Throw(heap, where, what, f), ks))
  BY DEF ApplyOther
<1>2. k \notin Owners
  BY DEF Owners
<1> HIDE DEF k
<1>3. /\ Ready(heap, oblist, input, ks) /\ f \in ActiveOf(ks) /\ ctl = Return(v)
      /\ Value(heap, v) /\ Value(heap, where) /\ Value(heap, what)
  BY <1>1, <1>2, WantedOther, AtomValues
<1>4. CASE Go(heap, ctl, ks)
  BY <1>3, <1>4, LandValue
<1>5. CASE GoReturn(Throw(heap, where, what, f), ks)
  <2> HIDE DEF f, v, ks, where, what
  <2>1. QED
    BY <1>3, <1>5, ThrowLands
<1>6. QED
  BY <1>1, <1>4, <1>5

-----------------------------------------------------------------------------
(* The REPL. *)
LEMMA EmptyStack ==
  /\ IsSequence(<<>>) /\ ActiveOf(<<>>) = {Bottom} /\ \A h : GoodStack(h, <<>>)
  /\ \A b \in Ledger : Stock(b, <<>>) = b
<1>1. IsSequence(<<>>) /\ DOMAIN <<>> = {}
  BY DEF IsSequence
<1>2. ActiveOf(<<>>) = {Bottom}
  BY <1>1 DEF ActiveOf, ActiveFrom
<1>3. \A h : GoodStack(h, <<>>)
  BY <1>1 DEF GoodStack
<1>4. ASSUME NEW b \in Ledger
      PROVE  Stock(b, <<>>) = b
  <2>1. \A i \in Nat : {j \in DOMAIN <<>> : Claim(<<>>[j]) = Obj(i)} = {}
    BY <1>1
  <2>2. Cardinality({}) = 0
    BY FS_EmptySet
  <2>3. \A i \in Nat : b[i] + 0 = b[i]
    BY DEF Ledger
  <2>4. Stock(b, <<>>) = [i \in Nat |-> b[i]]
    BY <2>1, <2>2, <2>3 DEF Stock
  <2>5. QED
    BY <2>4 DEF Ledger
<1>5. QED
  BY <1>1, <1>2, <1>3, <1>4

LEMMA OneActivation == \A k : <<k>> \o <<>> = <<k>>
OBVIOUS

LEMMA ReadStep ==
  ASSUME IInv, Read
  PROVE  IInv'
<1> DEFINE e == Head(input)
           form == e.expr
           k == K("repl", Bottom, Nil)
           ks == <<k>> \o <<>>
           b == Base(oblist, input)
<1>1. ctl = Idle /\ input # <<>>
  BY DEF Read
<1>2. Go(heap, Eval(form, Bottom, Nil), ks)
  BY OneActivation DEF Read, Go
<1>3. Rest(heap, oblist, input)
  BY <1>1, ModesDiffer DEF IInv, Runs
<1>4. World(heap, oblist, input) /\ heap[Bottom].depth = 0 /\ Sound(heap, b) /\ Held(heap, b, {Bottom})
  BY <1>3 DEF Rest
<1>5. b \in Ledger
  BY <1>4, SoundFacts
<1> HIDE DEF b
<1>6. Stock(b, <<>>) = b /\ ActiveOf(<<>>) = {Bottom} /\ GoodStack(heap, <<>>)
  BY <1>5, EmptyStack
<1>7. Ready(heap, oblist, input, <<>>)
  BY <1>1, <1>4, <1>6 DEF Ready, b
<1>8. /\ k = Waits("repl", Bottom, Nil, Nil, Nil, Nil, 0)
  BY KPlain
<1>9. k.k \notin Owners /\ k.k # "mapcar" /\ k.frame = Bottom /\ Carefree("repl")
  BY <1>8, WaitsFacts DEF Owners, Carefree
<1>10. Valued(heap, k) /\ Bounded(heap, k)
  BY <1>8, <1>9, NilValue, WaitsValued, WaitsBounded
<1> HIDE DEF k
<1>11. Ready(heap, oblist, input, ks) /\ Bottom \in ActiveOf(ks)
  <2> DEFINE none == <<>>
  <2>1. k.frame \in ActiveOf(none) /\ Ready(heap, oblist, input, none)
    BY <1>6, <1>7, <1>9
  <2>2. Bottom \in ActiveOf(none) /\ ActiveOf(none) = {Bottom}
    BY <1>6
  <2> HIDE DEF none
  <2>3. Ready(heap, oblist, input, <<k>> \o none) /\ ActiveOf(<<k>> \o none) = ActiveOf(none)
    BY <1>9, <1>10, <2>1, <2>2, PushPlain
  <2>4. QED
    BY <2>2, <2>3 DEF none
<1>12. Value(heap, form) /\ Value(heap, Nil)
  <2>1. IsSequence(input) /\ \A j \in DOMAIN input : Value(heap, input[j].expr)
    BY <1>4 DEF World
  <2>2. 1 \in DOMAIN input /\ e = input[1]
    BY <1>1, <2>1, TailFacts
  <2>3. QED
    BY <2>1, <2>2, NilValue
<1> HIDE DEF form, ks
<1>13. QED
  BY <1>2, <1>11, <1>12, LandEval

(* The frame of the REPL is claimed whatever else is. *)
LEMMA BottomClaimed ==
  ASSUME NEW h, NEW o, NEW n, World(h, o, n)
  PROVE  Base(o, n)[Bottom] > 0
<1> DEFINE P == Cardinality({j \in DOMAIN o : o[j][2] = Obj(Bottom)})
           Q == Cardinality({j \in DOMAIN n : n[j].expr = Obj(Bottom)})
<1>1. DOMAIN o = 1 .. Len(o) /\ Len(o) \in Nat /\ DOMAIN n = 1 .. Len(n) /\ Len(n) \in Nat
  BY SequenceFacts DEF World
<1>2. IsFiniteSet(DOMAIN o) /\ IsFiniteSet(DOMAIN n)
  BY <1>1, FS_Interval
<1>3. ASSUME NEW S, NEW U, IsFiniteSet(U), S \subseteq U
      PROVE  Cardinality(S) \in Nat
  BY <1>3, FS_Subset, FS_CardinalityType
<1>4. P \in Nat
  BY <1>2, <1>3
<1>5. Q \in Nat
  BY <1>2, <1>3
<1>6. Bottom \in Nat /\ Is(Obj(Bottom), Bottom) = 1
  BY DEF Bottom, Is
<1>7. Base(o, n)[Bottom] = P + Q + Is(Obj(Bottom), Bottom)
  BY <1>6, BaseFacts
<1> HIDE DEF P, Q
<1>8. QED
  BY <1>4, <1>5, <1>6, <1>7

LEMMA StockAtLeast ==
  ASSUME NEW b \in Ledger, NEW ks, IsSequence(ks), NEW i \in Nat
  PROVE  b[i] <= Stock(b, ks)[i]
<1> DEFINE C == Cardinality({j \in DOMAIN ks : Claim(ks[j]) = Obj(i)})
<1>1. DOMAIN ks = 1 .. Len(ks) /\ Len(ks) \in Nat
  BY SequenceFacts
<1>2. IsFiniteSet(DOMAIN ks)
  BY <1>1, FS_Interval
<1>3. C \in Nat
  BY <1>2, FS_Subset, FS_CardinalityType
<1>4. Stock(b, ks)[i] = b[i] + C
  BY DEF Stock
<1> HIDE DEF C
<1>5. b[i] \in Int
  BY DEF Ledger
<1>6. QED
  BY <1>3, <1>4, <1>5

(* When repl is on top, no activation claims a frame. *)
LEMMA ReplClaims ==
  ASSUME NEW h, NEW o, NEW n, NEW ks, Ready(h, o, n, ks), ks # <<>>, Head(ks).k = "repl"
  PROVE  Fewer(h, Base(o, n), Stock(Base(o, n), ks))
<1> DEFINE k == Head(ks)
           t == Tail(ks)
           b == Base(o, n)
           w == Stock(b, ks)
           C(i) == {j \in DOMAIN ks : Claim(ks[j]) = Obj(i)}
<1>1. /\ ks = <<k>> \o t /\ GoodStack(h, t) /\ Placed(h, k, ActiveOf(t)) /\ IsSequence(t)
  BY PopFacts
<1>2. "repl" \notin Owners
  BY DEF Owners
<1>3. ActiveOf(ks) = {Bottom}
  <2>1. k.k = "repl"
    OBVIOUS
  <2> HIDE DEF k, t
  <2>2. ActiveOf(t) = {Bottom}
    BY <1>1, <1>2, <2>1 DEF Placed
  <2>3. ActiveOf(<<k>> \o t) = ActiveOf(t)
    BY <1>1, <1>2, <2>1, ActivePush
  <2>4. QED
    BY <1>1, <2>2, <2>3
<1> HIDE DEF k, t
<1>4. /\ IsSequence(ks) /\ World(h, o, n) /\ Sound(h, w) /\ GoodStack(h, ks)
      /\ DOMAIN ks = 1 .. Len(ks) /\ Len(ks) \in Nat
  BY ReadyFacts, SequenceFacts DEF Ready
<1>5. b \in Ledger /\ \A i \in Nat : b[i] \in Nat
  BY <1>4, BaseFacts, BaseNat
<1>6. \A i \in Nat : w[i] = b[i] + Cardinality(C(i)) /\ Cardinality(C(i)) \in Nat
  <2>1. \A i \in Nat : w[i] = b[i] + Cardinality(C(i))
    BY DEF Stock
  <2>2. IsFiniteSet(DOMAIN ks)
    BY <1>4, FS_Interval
  <2>3. \A i \in Nat : Cardinality(C(i)) \in Nat
    BY <2>2, FS_Subset, FS_CardinalityType
  <2>4. QED
    BY <2>1, <2>3
<1>7. \A j \in DOMAIN ks : Claim(ks[j]) = Nil \/ Value(h, Claim(ks[j]))
  <2>1. ASSUME NEW j \in DOMAIN ks, ks[j].k \in Owners
        PROVE  FALSE
    <3>1. ks[j].frame \in ActiveOf(ks) /\ Bottom \in ActiveFrom(ks, j + 1)
      BY <1>4, <2>1, ActiveFacts DEF ActiveFrom
    <3>2. ks[j].frame \notin ActiveFrom(ks, j + 1)
      BY <1>4, <2>1 DEF GoodStack, Placed, Above
    <3>3. QED
      BY <1>3, <3>1, <3>2
  <2>2. \A j \in DOMAIN ks : Value(h, ks[j].fn)
    BY <1>4 DEF GoodStack, Valued
  <2>3. QED
    BY <2>1, <2>2 DEF Claim
<1>8. \A i \in DOMAIN h : h[i].kind = "FRAME" => C(i) = {}
  BY <1>7, ObjFacts, AtomsAre DEF Value, IsAtom
<1>9. \A i \in DOMAIN h : h[i].kind = "FRAME" => Cardinality(C(i)) = 0
  BY <1>8, FS_EmptySet
<1>10. \A i \in Nat : i \notin DOMAIN h => w[i] = 0
  BY <1>4 DEF Sound, Backed
<1> HIDE DEF C, w, b
<1>11. \A i \in Nat : /\ b[i] <= w[i]
                      /\ i \notin DOMAIN h => b[i] = w[i]
                      /\ i \in DOMAIN h /\ h[i].kind = "FRAME" => b[i] = w[i]
  BY <1>5, <1>6, <1>9, <1>10
<1>12. Fewer(h, b, w)
  BY <1>11 DEF Fewer
<1>13. QED
  BY <1>12 DEF b, w

LEMMA PrintValueStep ==
  ASSUME IInv, PrintValue
  PROVE  IInv'
<1> DEFINE k == "repl"
           n == Tail(input)
           e == Head(input)
           p == e.expr
           b == Base(oblist, input)
           c == Base(oblist, n)
           g == DecRef(heap, p)
           F == {Bottom}
<1>1. Wants(k)
  BY DEF PrintValue
<1>2. kont # <<>> /\ Head(kont).k = "repl"
  BY DEF PrintValue, Wants
<1>3. heap' = g /\ ctl' = Idle /\ kont' = <<>> /\ input' = n /\ oblist' = oblist
  BY DEF PrintValue
<1> HIDE DEF k
<1>4. Ready(heap, oblist, input, kont)
  BY <1>1, Wanted
<1>5. World(heap, oblist, input) /\ heap[Bottom].depth = 0 /\ input # <<>>
  BY <1>4 DEF Ready
<1>6. /\ IsSequence(input) /\ IsSequence(oblist)
      /\ \A j \in DOMAIN oblist : Value(heap, oblist[j][2])
      /\ \A j \in DOMAIN input : Value(heap, input[j].expr)
  BY <1>5 DEF World
<1>7. /\ IsSequence(n) /\ input = <<e>> \o n /\ e = input[1] /\ 1 \in DOMAIN input
      /\ \A j \in DOMAIN n : n[j] = input[j + 1] /\ j + 1 \in DOMAIN input
  BY <1>5, <1>6, TailFacts
<1>8. World(heap, oblist, n) /\ Value(heap, p)
  BY <1>6, <1>7 DEF World
<1>9. b = Plus(c, p)
  <2> HIDE DEF n, e
  <2>1. Base(oblist, <<e>> \o n) = Plus(Base(oblist, n), e.expr)
    BY <1>8, ExpressionMore
  <2>2. QED
    BY <1>7, <2>1
<1>10. b \in Ledger /\ c \in Ledger
  BY <1>5, <1>8, BaseFacts
<1>11. c[Bottom] > 0
  BY <1>8, BottomClaimed
<1> HIDE DEF n, e, p, c
<1>12. Minus(b, p) = c
  BY <1>9, <1>10, LedgerFacts
<1>13. /\ Sound(heap, Stock(b, kont)) /\ Held(heap, Stock(b, kont), ActiveOf(kont))
       /\ Bottom \in ActiveOf(kont) /\ IsSequence(kont)
  BY <1>4, ReadyFacts, ActiveFacts
<1> HIDE DEF b
<1>14. Sound(heap, b)
  <2>1. Fewer(heap, b, Stock(b, kont))
    BY <1>4, <1>2, ReplClaims DEF b
  <2>2. QED
    BY <1>10, <1>13, <2>1, Weaken
<1>15. Held(heap, c, F)
  BY <1>11, <1>13 DEF Held
<1>16. Sound(g, c) /\ Leaves(heap, g, F)
  <2>1. Points(heap, p) /\ Held(heap, Minus(b, p), F) /\ Owed(heap, b, p)
    BY <1>8, <1>12, <1>15 DEF Value, Owed
  <2> HIDE DEF F
  <2>2. Sound(g, Minus(b, p)) /\ Leaves(heap, g, F)
    BY <1>14, <2>1, DecRefSound
  <2>3. QED
    BY <1>12, <2>2
<1> HIDE DEF g
<1>17. Held(g, c, F)
  BY <1>15, <1>16, HeldOn
<1>18. World(g, oblist, n)
  BY <1>8, <1>16, WorldGrows DEF Leaves
<1>19. g[Bottom].depth = 0
  BY <1>5, <1>16 DEF Leaves, Keeps
<1>20. Rest(g, oblist, n)
  BY <1>16, <1>17, <1>18, <1>19 DEF Rest, c
<1>21. QED
  BY <1>3, <1>20 DEF IInv

LEMMA LeaveStep ==
  ASSUME IInv, Leave
  PROVE  IInv'
<1> DEFINE p == Obj(Bottom)
           b == Base(oblist, input)
           g == DecRef(heap, p)
<1>1. ctl = Idle /\ heap' = g /\ ctl' = Done /\ kont' = <<>> /\ UNCHANGED <<oblist, input>>
  BY DEF Leave, Go
<1>2. Rest(heap, oblist, input)
  BY <1>1, ModesDiffer DEF IInv, Runs
<1>3. World(heap, oblist, input) /\ Sound(heap, b) /\ Bottom \in DOMAIN heap
  BY <1>2 DEF Rest, Held
<1>4. Points(heap, p)
  BY <1>3, ObjFacts DEF Points
<1>5. Held(heap, Minus(b, p), {})
  BY DEF Held
<1>6. b[Bottom] > 0
  BY <1>2 DEF Rest, Held
<1> HIDE DEF b, p
<1>7. Owed(heap, b, p)
  <2>1. IsObj(p) /\ p[2] = Bottom
    BY ObjFacts DEF p
  <2>2. QED
    BY <1>6, <2>1 DEF Owed
<1>8. Sound(g, Minus(b, p)) /\ Leaves(heap, g, {})
  BY <1>3, <1>4, <1>5, <1>7, DecRefSound
<1> HIDE DEF g
<1>9. World(g, oblist, input)
  BY <1>3, <1>8, WorldGrows DEF Leaves
<1>10. QED
  BY <1>1, <1>8, <1>9 DEF IInv, b, p

LEMMA StutterStep ==
  ASSUME IInv, UNCHANGED vars
  PROVE  IInv'
BY DEF vars, IInv

LEMMA StepKeeps ==
  ASSUME IInv, [Next]_vars
  PROVE  IInv'
<1>1. CASE UNCHANGED vars
  BY <1>1, StutterStep
<1>2. CASE Left
  BY <1>2, StutterStep DEF Left
<1>3. CASE EvalAtom \/ EvalForm \/ EvalTooDeep \/ FormValue \/ FormsValue
  BY <1>3, EvalAtomStep, EvalFormStep, EvalTooDeepStep, FormValueStep, FormsValueStep
<1>4. CASE BodyValue \/ MoreEvaluated \/ RegisterValue \/ MapValue \/ ArgValue \/ MoreValue
  BY <1>4, BodyValueStep, MoreEvaluatedStep, RegisterValueStep, MapValueStep, ArgValueStep,
     MoreValueStep
<1>5. CASE CPrognValue \/ PrognValue \/ TestValue \/ NoClause \/ ClauseValue
  BY <1>5, CPrognValueStep, PrognValueStep, TestValueStep, NoClauseStep, ClauseValueStep
<1>6. CASE LetBodyValue \/ LetValue \/ TryValue \/ SetValue
  BY <1>6, LetBodyValueStep, LetValueStep, TryValueStep, SetValueStep
<1>7. CASE ApplyFunction \/ ApplySpecial \/ ApplyOther
  BY <1>7, ApplyFunctionStep, ApplySpecialStep, ApplyOtherStep
<1>8. CASE FunctionValue \/ LambdaValue \/ NlambdaValue
  BY <1>8, FunctionValueStep, LambdaValueStep, NlambdaValueStep
<1>9. CASE Read \/ PrintValue \/ Leave
  BY <1>9, ReadStep, PrintValueStep, LeaveStep
<1>10. QED
  BY <1>1, <1>2, <1>3, <1>4, <1>5, <1>6, <1>7, <1>8, <1>9 DEF Next

-----------------------------------------------------------------------------
(* The programs that can be read are in order. *)
LEMMA ProgramRests ==
  ASSUME NEW p, p \in Programs
  PROVE  Rest(p.heap, <<>>, p.items)
<1> DEFINE h == p.heap
           n == p.items
           o == <<>>
           b == Base(o, n)
           claims == [i \in DOMAIN h |-> Unread(n)[i] + IF i = Bottom THEN 1 ELSE 0]
<1>1. /\ HeapOK(h) /\ IsSequence(n) /\ \A j \in DOMAIN n : Value(h, n[j].expr)
      /\ Bottom \in DOMAIN h /\ h[Bottom] = FrameCell(0, 0)
      /\ \A i \in DOMAIN h : h[i].kind = "FRAME" => i = Bottom
      /\ Covered(h, claims)
  BY EvaluatorAssumption DEF Bottom
<1>2. IsSequence(o) /\ DOMAIN o = {}
  BY EmptyStack
<1>3. World(h, o, n)
  BY <1>1, <1>2 DEF World
<1>4. h[Bottom].kind = "FRAME" /\ ~h[Bottom].free /\ h[Bottom].depth = 0 /\ h[Bottom].count = 1
  <2> DEFINE c == FrameCell(0, 0)
  <2>1. c.kind = "FRAME" /\ ~c.free /\ c.count = 1 /\ c.depth = 0
    BY FrameCellFacts
  <2> HIDE DEF c
  <2>2. h[Bottom] = c
    BY <1>1 DEF c
  <2> HIDE DEF h
  <2>3. QED
    BY <2>1, <2>2
<1> HIDE DEF h, n
<1>5. b \in Ledger /\ b[Bottom] > 0
  BY <1>3, BaseFacts, BottomClaimed
<1>6. \A i \in Nat : b[i] = Unread(n)[i] + Is(Obj(Bottom), i)
  <2>1. ASSUME NEW i \in Nat
        PROVE  b[i] = Unread(n)[i] + Is(Obj(Bottom), i)
    <3> DEFINE P == Cardinality({j \in DOMAIN o : o[j][2] = Obj(i)})
               Q == Cardinality({j \in DOMAIN n : n[j].expr = Obj(i)})
    <3>1. P = 0
      <4>1. {j \in DOMAIN o : o[j][2] = Obj(i)} = {}
        BY <1>2
      <4>2. QED
        BY <4>1, FS_EmptySet
    <3>2. b[i] = P + Q + Is(Obj(Bottom), i)
      BY <1>3, BaseFacts
    <3>3. Unread(n)[i] = Q
      BY DEF Unread
    <3>4. Q \in Nat
      <4>1. DOMAIN n = 1 .. Len(n) /\ Len(n) \in Nat
        BY <1>1, SequenceFacts
      <4>2. IsFiniteSet(DOMAIN n)
        BY <4>1, FS_Interval
      <4>3. QED
        BY <4>2, FS_Subset, FS_CardinalityType
    <3>5. Is(Obj(Bottom), i) \in {0, 1}
      BY DEF Is
    <3> HIDE DEF P, Q, b, o
    <3>6. QED
      BY <3>1, <3>2, <3>3, <3>4, <3>5
  <2>2. QED
    BY <2>1
<1>7. \A i \in Nat : i \notin DOMAIN h => b[i] = 0
  <2>1. ASSUME NEW i \in Nat, i \notin DOMAIN h
        PROVE  b[i] = 0
    <3>1. \A j \in DOMAIN n : n[j].expr # Obj(i)
      BY <1>1, <2>1, ObjFacts DEF Value, Points
    <3>2. {j \in DOMAIN n : n[j].expr = Obj(i)} = {}
      BY <3>1
    <3>3. Unread(n)[i] = 0
      BY <3>2, FS_EmptySet DEF Unread
    <3>4. Is(Obj(Bottom), i) = 0
      BY <1>1, <2>1, ObjFacts DEF Is
    <3> HIDE DEF b
    <3>5. b[i] = 0
      BY <1>6, <3>3, <3>4
    <3>6. QED
      BY <3>5
  <2>2. QED
    BY <2>1
<1>8. \A i \in DOMAIN h : i \in Nat /\ b[i] = claims[i]
  <2>1. DOMAIN h \subseteq Nat
    BY <1>1, HeapFacts
  <2>2. \A i \in DOMAIN h : Is(Obj(Bottom), i) = IF i = Bottom THEN 1 ELSE 0
    BY ObjFacts DEF Is
  <2> HIDE DEF b
  <2>3. QED
    BY <1>6, <2>1, <2>2
<1>9. b[Bottom] = 1
  <2>1. \A j \in DOMAIN n : n[j].expr # Obj(Bottom)
    BY <1>1, <1>4, ObjFacts DEF Value
  <2>2. {j \in DOMAIN n : n[j].expr = Obj(Bottom)} = {}
    BY <2>1
  <2>3. Unread(n)[Bottom] = 0 /\ Bottom \in Nat
    BY <2>2, FS_EmptySet DEF Unread, Bottom
  <2>4. Is(Obj(Bottom), Bottom) = 1
    BY DEF Is
  <2> HIDE DEF b
  <2>5. QED
    BY <1>6, <2>3, <2>4
<1> HIDE DEF b, claims
<1>10. Covered(h, b)
  BY <1>1, <1>8 DEF Covered
<1>11. Tallied(h, b)
  <2>1. Told(h[Bottom], b[Bottom])
    BY <1>4, <1>9 DEF Told
  <2>2. \A i \in DOMAIN h : i # Bottom => Told(h[i], b[i])
    BY <1>1 DEF Told
  <2>3. QED
    BY <2>1, <2>2 DEF Tallied
<1>12. Sound(h, b)
  BY <1>1, <1>5, <1>7, <1>10, <1>11 DEF Sound, Backed
<1>13. Held(h, b, {Bottom})
  BY <1>1, <1>4, <1>5 DEF Held
<1>14. QED
  BY <1>3, <1>4, <1>12, <1>13 DEF Rest, b, h, n

LEMMA InitHolds ==
  ASSUME Init
  PROVE  IInv
<1>1. PICK p \in Programs : heap = p.heap /\ input = p.items
  BY DEF Init
<1>2. Rest(p.heap, <<>>, p.items)
  BY ProgramRests
<1>3. oblist = <<>> /\ ctl = Idle /\ kont = <<>>
  BY DEF Init
<1>4. Rest(heap, oblist, input)
  BY <1>1, <1>2, <1>3
<1>5. QED
  BY <1>3, <1>4 DEF IInv

(* The inductive invariant: in every state the heap covers the claims of the
   activations, of the oblist and of the reader; and the frames of the
   activations are all there, each on top of those below it.                *)
THEOREM EvaluatorSound == Spec => []IInv
<1>1. Init => IInv
  BY InitHolds
<1>2. IInv /\ [Next]_vars => IInv'
  BY StepKeeps
<1>3. QED
  BY <1>1, <1>2, PTL DEF Spec

-----------------------------------------------------------------------------
(* What it says of the counts. *)
LEMMA OwnedClaims ==
  ASSUME NEW ks, IsSequence(ks), NEW i
  PROVE  LET S == {j \in DOMAIN ks : ks[j].k \in Owners /\ ks[j].frame = i}
             C == {j \in DOMAIN ks : Claim(ks[j]) = Obj(i)}
         IN  /\ Cardinality(S) \in Nat /\ Cardinality(C) \in Nat
             /\ Cardinality(S) <= Cardinality(C)
<1> DEFINE S == {j \in DOMAIN ks : ks[j].k \in Owners /\ ks[j].frame = i}
           C == {j \in DOMAIN ks : Claim(ks[j]) = Obj(i)}
<1>1. DOMAIN ks = 1 .. Len(ks) /\ Len(ks) \in Nat
  BY SequenceFacts
<1>2. IsFiniteSet(DOMAIN ks) /\ C \subseteq DOMAIN ks /\ S \subseteq C
  <2>1. IsFiniteSet(DOMAIN ks)
    BY <1>1, FS_Interval
  <2>2. S \subseteq C
    BY DEF Claim
  <2>3. QED
    BY <2>1, <2>2
<1>3. IsFiniteSet(C)
  BY <1>2, FS_Subset
<1> HIDE DEF S, C
<1>4. QED
  BY <1>2, <1>3, FS_Subset, FS_CardinalityType DEF S, C

LEMMA Covers ==
  ASSUME NEW claims, Covered(heap, claims), World(heap, oblist, input), HeapOK(heap),
         \A i \in DOMAIN heap :
           claims[i] \in Int
           /\ Cardinality({j \in DOMAIN oblist : oblist[j][2] = Obj(i)})
                + Cardinality({j \in Owned : kont[j].frame = i})
                + Cardinality({j \in DOMAIN input : input[j].expr = Obj(i)}) <= claims[i],
         \A i : Cardinality({j \in Owned : kont[j].frame = i}) \in Nat
  PROVE  CountsCover
<1>1. DOMAIN oblist = 1 .. Len(oblist) /\ Len(oblist) \in Nat
      /\ DOMAIN input = 1 .. Len(input) /\ Len(input) \in Nat
  BY SequenceFacts DEF World
<1>2. IsFiniteSet(DOMAIN oblist) /\ IsFiniteSet(DOMAIN input)
  BY <1>1, FS_Interval
<1>3. ASSUME NEW S, NEW U, IsFiniteSet(U), S \subseteq U
      PROVE  Cardinality(S) \in Nat
  BY <1>3, FS_Subset, FS_CardinalityType
<1>4. ASSUME NEW i \in DOMAIN heap
      PROVE  References(i) <= heap[i].count + heap[i].given
  <2> DEFINE A == Cardinality(Places(heap, DOMAIN heap, i))
             P == Cardinality({j \in DOMAIN oblist : oblist[j][2] = Obj(i)})
             O == Cardinality({j \in Owned : kont[j].frame = i})
             Q == Cardinality({j \in DOMAIN input : input[j].expr = Obj(i)})
             c == heap[i].count + heap[i].given
             w == claims[i]
  <2>1. References(i) = A + P + O + Q
    BY DEF References
  <2>2. A + w <= c
    BY DEF Covered
  <2>3. P + O + Q <= w /\ w \in Int
    OBVIOUS
  <2>4. A \in Nat
    BY PlacesFacts
  <2>5. P \in Nat
    BY <1>2, <1>3
  <2>6. Q \in Nat
    BY <1>2, <1>3
  <2>7. O \in Nat
    OBVIOUS
  <2>8. c \in Nat
    BY HeapFacts
  <2> HIDE DEF A, P, O, Q, c, w
  <2>9. A + P + O + Q <= c
    BY <2>2, <2>3, <2>4, <2>5, <2>6, <2>7, <2>8
  <2>10. QED
    BY <2>1, <2>9 DEF c
<1>5. QED
  BY <1>4 DEF CountsCover

LEMMA InvCovers ==
  ASSUME IInv
  PROVE  CountsCover
<1> DEFINE b == Base(oblist, input)
           P(i) == Cardinality({j \in DOMAIN oblist : oblist[j][2] = Obj(i)})
           O(i) == Cardinality({j \in Owned : kont[j].frame = i})
           Q(i) == Cardinality({j \in DOMAIN input : input[j].expr = Obj(i)})
           C(i) == Cardinality({j \in DOMAIN kont : Claim(kont[j]) = Obj(i)})
<1>1. World(heap, oblist, input) /\ HeapOK(heap)
  BY DEF IInv, Rest, Ready, Sound, Backed
<1>2. b \in Ledger
  BY <1>1, BaseFacts
<1>3. \A i \in Nat : b[i] = P(i) + Q(i) + Is(Obj(Bottom), i)
  BY <1>1, BaseFacts
<1>4. IsSequence(kont)
  BY EmptyStack, ReadyFacts DEF IInv
<1>5. \A i : O(i) \in Nat /\ C(i) \in Nat /\ O(i) <= C(i)
  <2>1. ASSUME NEW i
        PROVE  O(i) \in Nat /\ C(i) \in Nat /\ O(i) <= C(i)
    <3>1. {j \in Owned : kont[j].frame = i} = {j \in DOMAIN kont : kont[j].k \in Owners /\ kont[j].frame = i}
      BY DEF Owned
    <3>2. QED
      BY <1>4, <3>1, OwnedClaims
  <2>2. QED
    BY <2>1
<1>6. DOMAIN heap \subseteq Nat
  BY <1>1, HeapFacts
<1>7. \A i \in Nat : Is(Obj(Bottom), i) \in {0, 1}
  BY DEF Is
<1>8. \A i \in Nat : P(i) \in Nat /\ Q(i) \in Nat
  <2>1. DOMAIN oblist = 1 .. Len(oblist) /\ Len(oblist) \in Nat
        /\ DOMAIN input = 1 .. Len(input) /\ Len(input) \in Nat
    BY <1>1, SequenceFacts DEF World
  <2>2. IsFiniteSet(DOMAIN oblist) /\ IsFiniteSet(DOMAIN input)
    BY <2>1, FS_Interval
  <2>3. ASSUME NEW S, NEW U, IsFiniteSet(U), S \subseteq U
        PROVE  Cardinality(S) \in Nat
    BY <2>3, FS_Subset, FS_CardinalityType
  <2>4. \A i \in Nat : P(i) \in Nat
    BY <2>2, <2>3
  <2>5. \A i \in Nat : Q(i) \in Nat
    BY <2>2, <2>3
  <2>6. QED
    BY <2>4, <2>5
<1>9. ASSUME NEW claims, Covered(heap, claims),
             \A i \in DOMAIN heap : claims[i] \in Int /\ P(i) + O(i) + Q(i) <= claims[i]
      PROVE  CountsCover
  BY <1>1, <1>5, <1>9, Covers
<1>10. kont = <<>> => \A i : O(i) = 0
  <2>1. kont = <<>> => \A i : {j \in Owned : kont[j].frame = i} = {}
    BY EmptyStack DEF Owned
  <2>2. QED
    BY <2>1, FS_EmptySet
<1>11. CASE Ready(heap, oblist, input, kont)
  <2> DEFINE w == Stock(b, kont)
  <2>1. Sound(heap, w) /\ w \in Ledger
    BY <1>11, ReadyFacts
  <2>2. \A i \in Nat : w[i] = b[i] + C(i)
    BY DEF Stock
  <2> HIDE DEF b, P, O, Q, C, w
  <2>3. \A i \in Nat : P(i) + O(i) + Q(i) <= w[i] /\ w[i] \in Int
    BY <1>3, <1>5, <1>7, <1>8, <2>2
  <2>4. \A i \in DOMAIN heap : w[i] \in Int /\ P(i) + O(i) + Q(i) <= w[i]
    BY <1>6, <2>3
  <2>5. Covered(heap, w)
    BY <2>1 DEF Sound, Backed
  <2>6. QED
    BY <1>9, <2>4, <2>5
<1>12. CASE kont = <<>> /\ Rest(heap, oblist, input)
  <2>1. Covered(heap, b)
    BY <1>12 DEF Rest, Sound, Backed
  <2>2. \A i : O(i) = 0
    BY <1>10, <1>12
  <2> HIDE DEF b, P, O, Q, C
  <2>3. \A i \in Nat : P(i) + O(i) + Q(i) <= b[i] /\ b[i] \in Int
    BY <1>3, <1>7, <1>8, <2>2
  <2>4. \A i \in DOMAIN heap : b[i] \in Int /\ P(i) + O(i) + Q(i) <= b[i]
    BY <1>6, <2>3
  <2>5. QED
    BY <1>9, <2>1, <2>4
<1>13. CASE kont = <<>> /\ Sound(heap, Minus(b, Obj(Bottom)))
  <2> DEFINE w == Minus(b, Obj(Bottom))
  <2>1. Covered(heap, w)
    BY <1>13 DEF Sound, Backed
  <2>2. \A i \in Nat : w[i] = b[i] - Is(Obj(Bottom), i)
    BY <1>2, LedgerFacts
  <2>3. \A i : O(i) = 0
    BY <1>10, <1>13
  <2> HIDE DEF b, P, O, Q, C, w
  <2>4. \A i \in Nat : P(i) + O(i) + Q(i) <= w[i] /\ w[i] \in Int
    BY <1>3, <1>7, <1>8, <2>2, <2>3
  <2>5. \A i \in DOMAIN heap : w[i] \in Int /\ P(i) + O(i) + Q(i) <= w[i]
    BY <1>6, <2>4
  <2>6. QED
    BY <1>9, <2>1, <2>5
<1>14. QED
  BY <1>11, <1>12, <1>13 DEF IInv

(* Between two expressions, as long as there was no exception, repl has the
   only frame.                                                             *)
LEMMA InvNoFrame ==
  ASSUME IInv
  PROVE  NoFrameLeft
<1>1. SUFFICES ASSUME ctl = Idle, NoException(heap),
                      NEW i \in DOMAIN heap, heap[i].kind = "FRAME", i # Bottom
               PROVE  heap[i].free
  BY DEF NoFrameLeft, NoException
<1> DEFINE b == Base(oblist, input)
           P == {j \in DOMAIN oblist : oblist[j][2] = Obj(i)}
           Q == {j \in DOMAIN input : input[j].expr = Obj(i)}
<1>2. Rest(heap, oblist, input)
  BY <1>1, ModesDiffer DEF IInv, Runs
<1>3. World(heap, oblist, input) /\ Sound(heap, b) /\ DOMAIN heap \subseteq Nat
  BY <1>2, SoundFacts DEF Rest
<1>4. P = {} /\ Q = {}
  BY <1>1, <1>3, ObjFacts DEF World, Value
<1>5. Cardinality(P) = 0 /\ Cardinality(Q) = 0
  BY <1>4, FS_EmptySet
<1>6. b[i] = Cardinality(P) + Cardinality(Q) + Is(Obj(Bottom), i) /\ Is(Obj(Bottom), i) = 0
  BY <1>1, <1>3, BaseFacts, ObjFacts DEF Is
<1> HIDE DEF b, P, Q
<1>7. b[i] = 0
  BY <1>5, <1>6
<1>8. Told(heap[i], b[i])
  BY <1>1, <1>3 DEF Sound, Tallied
<1>9. QED
  BY <1>1, <1>7, <1>8 DEF Told

(* What it says of the frames. *)
LEMMA InvStack ==
  ASSUME IInv
  PROVE  StackSound
<1>1. CASE kont = <<>> /\ ctl = Done
  <2>1. Owned = {} /\ Active = {} /\ ctl.mode # "eval"
    BY <1>1, EmptyStack, ModesDiffer DEF Owned, Active
  <2>2. QED
    BY <2>1 DEF StackSound
<1>2. CASE kont = <<>> /\ ctl = Idle /\ Rest(heap, oblist, input)
  <2>1. Owned = {} /\ Active = {Bottom} /\ ctl.mode # "eval"
    BY <1>2, EmptyStack, ModesDiffer DEF Owned, Active
  <2>2. heap[Bottom].kind = "FRAME" /\ ~heap[Bottom].free /\ heap[Bottom].depth = 0
    BY <1>2 DEF Rest, Held
  <2>3. QED
    BY <2>1, <2>2 DEF StackSound
<1>3. CASE Ready(heap, oblist, input, kont) /\ Runs(heap, ctl, kont)
  <2> DEFINE ks == kont
             A == ActiveOf(ks)
             Own == {j \in DOMAIN ks : ks[j].k \in Owners}
  <2>1. IsSequence(ks) /\ DOMAIN ks = 1 .. Len(ks) /\ Len(ks) \in Nat
    BY <1>3, ReadyFacts, SequenceFacts
  <2>2. Owned = Own
    BY DEF Owned
  <2>3. ctl # Done
    BY <1>3, ModesDiffer DEF Runs
  <2>4. A = {ks[j].frame : j \in Own} \cup {Bottom}
    <3>1. \A l \in DOMAIN ks : l >= 1
      BY <2>1
    <3>2. {l \in DOMAIN ks : l >= 1 /\ ks[l].k \in Owners} = Own
      BY <3>1
    <3>3. QED
      BY <3>2 DEF ActiveOf, ActiveFrom
  <2>5. Active = A
    BY <2>2, <2>3, <2>4 DEF Active
  <2>6. \A j \in Own : Above(heap, ks[j].frame, ActiveFrom(ks, j + 1))
    BY <1>3 DEF Ready, GoodStack, Placed
  <2>7. \A j \in Own : ActiveFrom(ks, j + 1) \subseteq A
    BY <2>1, ActiveFacts
  <2>8. \A j \in Own : ks[j].frame # Bottom
    BY <2>6 DEF Above, ActiveFrom
  <2>9. \A j, l \in Own : j < l => ks[j].frame # ks[l].frame
    <3>1. \A j, l \in Own : j < l => ks[l].frame \in ActiveFrom(ks, j + 1)
      <4>1. \A j, l \in Own : j < l => l >= j + 1
        BY <2>1
      <4>2. QED
        BY <4>1 DEF ActiveFrom
    <3>2. QED
      BY <2>6, <3>1 DEF Above
  <2>10. \A j, l \in Own : ks[j].frame = ks[l].frame => j = l
    <3>1. \A j, l \in Own : j < l \/ l < j \/ j = l
      BY <2>1
    <3>2. QED
      BY <2>9, <3>1
  <2>11. \A f \in A : heap[f].kind = "FRAME" /\ ~heap[f].free
    BY <1>3 DEF Ready, Held
  <2>12. \A f \in A : f # Bottom => /\ heap[f].prev \in A
                                    /\ heap[f].depth = heap[heap[f].prev].depth + 1
                                    /\ StackLimit > 0 => heap[f].depth < StackLimit
    <3>1. \A j \in Own : LET f == ks[j].frame
                         IN  /\ heap[f].prev \in A
                             /\ heap[f].depth = heap[heap[f].prev].depth + 1
                             /\ StackLimit > 0 => heap[f].depth < StackLimit
      BY <2>6, <2>7 DEF Above
    <3> HIDE DEF A, Own
    <3>2. QED
      BY <2>4, <3>1
  <2>13. StackLimit > 0 => heap[Bottom].depth < StackLimit
    BY <1>3 DEF Ready
  <2>14. ctl.mode = "eval" => ctl.frame \in A
    BY <1>3 DEF Runs
  <2> HIDE DEF A, Own
  <2>15. QED
    BY <2>2, <2>5, <2>8, <2>10, <2>11, <2>12, <2>13, <2>14 DEF StackSound, ks
<1>4. QED
  BY <1>1, <1>2, <1>3 DEF IInv

(* Whatever the programs, exceptions included: each activation's frame is
   there, its own, on top of the frames below it, and within the limit.     *)
THEOREM FramesAreThere == Spec => []StackSound
<1>1. IInv => StackSound
  BY InvStack
<1>2. QED
  BY <1>1, EvaluatorSound, PTL

(* Whatever the programs, each reference to an object is counted, but for the
   counts that were given up by one who may have had none.                  *)
THEOREM ReferencesAreCounted == Spec => []CountsCover
<1>1. IInv => CountsCover
  BY InvCovers
<1>2. QED
  BY <1>1, EvaluatorSound, PTL

(* Whatever the programs, as long as there was no exception, each frame that an
   expression needed has been freed when it has its value: eval_form, c_apply
   and the lambdas give back the frames that they make, once each.           *)
THEOREM NoFrameIsLeft == Spec => []NoFrameLeft
<1>1. IInv => NoFrameLeft
  BY InvNoFrame
<1>2. QED
  BY <1>1, EvaluatorSound, PTL
=============================================================================
