--------------------------- MODULE ConsSpaceProofs ---------------------------
(* Proofs about cons space, for every number and size of pages, every width
   of the reference count and of the counters, and all types of object: its
   types and its free list; then that the count of a cell is the number of
   references to it, in the middle of a cascade of decrements too, so nothing
   that is referred to is ever recycled; that no object contains itself, and
   so every object that nobody can reach has been freed; and that all this is
   a safe store.                                                           *)
EXTENDS ConsSpace, Recursion, FiniteSetTheorems, TLAPS

USE SizesAssumption

(* The tags a cell can have. *)
CellTags == ObjectTags \cup {"none", "FREE", "NIL", "TRUE"}

-----------------------------------------------------------------------------
(* Facts about the definitions.                                            *)

(* NIL and T are cells, and a cell is a page and an offset. *)
LEMMA CellFacts ==
  /\ NIL \in Cell /\ T \in Cell /\ NIL # T
  /\ \A c \in Cell : /\ c = <<c[1], c[2]>>
                     /\ c[1] \in 0 .. NPages - 1
                     /\ c[2] \in 0 .. PageSize - 1
  /\ \A p \in 0 .. NPages - 1, i \in 0 .. PageSize - 1 : <<p, i>> \in Cell
BY DEF Cell, NIL, T

(* An arithmetic fact. *)
LEMMA Below ==
  ASSUME NEW x \in Nat, NEW y \in Nat, x <= y, x # y
  PROVE  x <= y - 1
OBVIOUS

(* There are finitely many slots, so the uses of a pointer can be counted. *)
LEMMA UsesNat ==
  ASSUME NEW kind, NEW t, NEW v, NEW c
  PROVE  Uses(kind, t, v, c) \in Nat
<1>1. IsFiniteSet(Slot)
  BY FS_Interval DEF Slot
<1>2. IsFiniteSet({s \in Slot : <<t, s>> \in kind /\ v[s] = c})
  BY <1>1, FS_Subset
<1>3. QED
  BY <1>2, FS_CardinalityType DEF Uses

(* The types of the store with one page more. *)
LEMMA MoreTypes ==
  ASSUME TypeOK, pages < NPages,
         NEW stale \in [0 .. PageSize - 1 -> StaleCounts]
  PROVE  /\ NewHead \in Cell
         /\ MoreTag \in [Cell -> CellTags]
         /\ MoreCount(stale) \in [Cell -> 0 .. MaxRef]
         /\ MoreChild \in [Cell -> [Slot -> Cell]]
         /\ MoreDepth \in [Cell -> Nat]
<1>0. pages \in 0 .. NPages - 1
  BY DEF TypeOK
<1>1. NewHead \in Cell
  BY <1>0 DEF NewHead, Cell
<1>2. MoreTag \in [Cell -> CellTags]
  BY DEF TypeOK, MoreTag, CellTags
<1>3. MoreCount(stale) \in [Cell -> 0 .. MaxRef]
  <2>1. \A c \in Cell : stale[c[2]] \in 0 .. MaxRef
    BY ValuesAssumption DEF Cell
  <2>2. QED
    BY <2>1 DEF TypeOK, MoreCount
<1>4. ASSUME NEW c \in Cell, OnNewPage(c), c \notin Pinned
      PROVE  c[2] >= FirstFree /\ c[2] \in 0 .. PageSize - 1 /\ c[1] \in 0 .. NPages - 1
  BY <1>0, <1>4 DEF OnNewPage, Pinned, FirstFree, NIL, T, Cell
<1>5. ASSUME NEW c \in Cell, OnNewPage(c), c \notin Pinned
      PROVE  FreeCdr(c) \in Cell
  <2>1. CASE c[2] = FirstFree
    BY <2>1 DEF FreeCdr, TypeOK
  <2>2. CASE c[2] # FirstFree
    <3>1. c[2] - 1 \in 0 .. PageSize - 1
      BY <1>4, <1>5, <2>2 DEF FirstFree
    <3>2. QED
      BY <1>4, <1>5, <2>2, <3>1 DEF FreeCdr, Cell
  <2>3. QED
    BY <2>1, <2>2
<1>6. MoreChild \in [Cell -> [Slot -> Cell]]
  BY <1>5, CellFacts DEF MoreChild, TypeOK
<1>7. MoreDepth \in [Cell -> Nat]
  <2>1. \A c \in Cell : OnNewPage(c) /\ c \notin Pinned => c[2] - FirstFree + 1 \in Nat
    BY <1>4 DEF FirstFree
  <2>2. QED
    BY <2>1 DEF MoreDepth, TypeOK
<1>8. QED
  BY <1>1, <1>2, <1>3, <1>6, <1>7

(* Taking a cell out of a well typed store leaves it well typed. *)
LEMMA TakeTypes ==
  ASSUME TypeOK, NEW t \in Tags, NEW v \in [Slot -> Cell], Arguments(t, v),
         NEW fl \in Cell,
         NEW tg \in [Cell -> CellTags], NEW cn \in [Cell -> 0 .. MaxRef],
         NEW ch \in [Cell -> [Slot -> Cell]], NEW dp \in [Cell -> Nat],
         Take(t, v, fl, tg, cn, ch, dp)
  PROVE  /\ freelist' \in Cell
         /\ tag' \in [Cell -> CellTags]
         /\ count' \in [Cell -> 0 .. MaxRef]
         /\ child' \in [Cell -> [Slot -> Cell]]
         /\ depth' \in [Cell -> Nat]
         /\ held' \in [Cell -> Nat]
         /\ allocated' \in 0 .. CounterRange - 1
<1>1. freelist' \in Cell
  BY DEF Take, Slot
<1>2. tag' \in [Cell -> CellTags]
  BY ValuesAssumption DEF Take, CellTags
<1>3. count' \in [Cell -> 0 .. MaxRef]
  <2>1. [cn EXCEPT ![fl] = 1] \in [Cell -> 0 .. MaxRef]
    OBVIOUS
  <2>2. \A c \in Cell : Uses(Copied, t, v, c) \in Nat
    BY UsesNat
  <2>3. QED
    BY <2>1, <2>2 DEF Take, Incremented
<1>4. child' \in [Cell -> [Slot -> Cell]]
  BY DEF Take
<1>5. depth' \in [Cell -> Nat]
  BY DEF Take
<1>6. held' \in [Cell -> Nat]
  <2>1. \A c \in Cell : Uses(Moved, t, v, c) \in Nat
    BY UsesNat
  <2>2. \A c \in Cell \ Pinned : Uses(Moved, t, v, c) <= held[c]
    BY DEF Arguments
  <2>3. held \in [Cell -> Nat]
    BY DEF TypeOK
  <2>4. \A c \in Cell : c \notin Pinned => held[c] - Uses(Moved, t, v, c) \in Nat
    BY <2>1, <2>2, <2>3
  <2>5. held' = [c \in Cell |-> IF c = fl THEN 1
                                ELSE IF c \in Pinned THEN held[c]
                                ELSE held[c] - Uses(Moved, t, v, c)]
    BY DEF Take
  <2>6. QED
    BY <2>3, <2>4, <2>5
<1>7. allocated' \in 0 .. CounterRange - 1
  BY DEF Take, Counter, TypeOK
<1>8. QED
  BY <1>1, <1>2, <1>3, <1>4, <1>5, <1>6, <1>7

(* dec_ref, called with a well typed state of the other activations. *)
LEMMA DecRefTypes ==
  ASSUME TypeOK, NEW c \in Cell, NEW where \in [Cell -> 0 .. NSlots + 1],
         DecRef(c, where)
  PROVE  /\ count' \in [Cell -> 0 .. MaxRef]
         /\ freeing' \in Seq(Cell)
         /\ at' \in [Cell -> 0 .. NSlots + 1]
<1>1. count \in [Cell -> 0 .. MaxRef] /\ freeing \in Seq(Cell)
  BY DEF TypeOK
<1>2. CASE count[c] \in {0, MaxRef}
  BY <1>1, <1>2 DEF DecRef
<1>3. CASE count[c] \notin {0, MaxRef}
  <2>1. count' = [count EXCEPT ![c] = @ - 1]
    BY <1>3 DEF DecRef
  <2>2. count' \in [Cell -> 0 .. MaxRef]
    BY <1>1, <1>3, <2>1
  <2>3. \/ freeing' = <<c>> \o freeing /\ at' = [where EXCEPT ![c] = 1]
        \/ freeing' = freeing /\ at' = where
    BY <1>3 DEF DecRef, FreeCell
  <2>4. <<c>> \o freeing \in Seq(Cell)
    BY <1>1
  <2>5. [where EXCEPT ![c] = 1] \in [Cell -> 0 .. NSlots + 1]
    OBVIOUS
  <2>6. QED
    BY <1>1, <2>2, <2>3, <2>4, <2>5
<1>4. QED
  BY <1>2, <1>3

(* The cell on top of the stack of activations. *)
LEMMA TopTypes ==
  ASSUME TypeOK, freeing # <<>>
  PROVE  Head(freeing) \in Cell /\ Tail(freeing) \in Seq(Cell)
BY DEF TypeOK

-----------------------------------------------------------------------------
(* The store is well typed from the start and every step keeps it so. *)
LEMMA InitType == Init => TypeOK
BY CellFacts DEF Init, TypeOK

LEMMA NextType == TypeOK /\ [Next]_vars => TypeOK'
<1> SUFFICES ASSUME TypeOK, [Next]_vars PROVE TypeOK'
  OBVIOUS
<1>1. CASE InitialiseConsPages
  <2>1. PICK stale \in [0 .. PageSize - 1 -> StaleCounts] : count' = MoreCount(stale)
    BY <1>1 DEF InitialiseConsPages
  <2>2. QED
    <3>1. pages < NPages /\ pages' = 1
      BY <1>1 DEF InitialiseConsPages
    <3>2. /\ freelist' \in Cell /\ tag' \in [Cell -> CellTags]
          /\ count' \in [Cell -> 0 .. MaxRef] /\ child' \in [Cell -> [Slot -> Cell]]
          /\ depth' \in [Cell -> Nat]
      BY <1>1, <2>1, <3>1, MoreTypes DEF InitialiseConsPages
    <3>3. QED
      BY <1>1, <3>1, <3>2 DEF InitialiseConsPages, TypeOK, CellTags, control
<1>2. ASSUME NEW t \in Tags, NEW v \in [Slot -> Cell], Construct(t, v)
      PROVE  TypeOK'
  <2>1. Arguments(t, v) /\ Take(t, v, freelist, tag, count, child, depth)
    BY <1>2 DEF Construct
  <2>2. /\ freelist \in Cell
        /\ tag \in [Cell -> CellTags] /\ count \in [Cell -> 0 .. MaxRef]
        /\ child \in [Cell -> [Slot -> Cell]] /\ depth \in [Cell -> Nat]
    BY DEF TypeOK, CellTags
  <2>3. QED
    BY <1>2, <2>1, <2>2, TakeTypes DEF Construct, TypeOK, CellTags
<1>3. ASSUME NEW t \in Tags, NEW v \in [Slot -> Cell], ConstructOnNewPage(t, v)
      PROVE  TypeOK'
  <2>1. PICK stale \in [0 .. PageSize - 1 -> StaleCounts] :
          Take(t, v, NewHead, MoreTag, MoreCount(stale), MoreChild, MoreDepth)
    BY <1>3 DEF ConstructOnNewPage
  <2>2. pages < NPages /\ Arguments(t, v)
    BY <1>3 DEF ConstructOnNewPage
  <2>3. /\ NewHead \in Cell
        /\ MoreTag \in [Cell -> CellTags]
        /\ MoreCount(stale) \in [Cell -> 0 .. MaxRef]
        /\ MoreChild \in [Cell -> [Slot -> Cell]]
        /\ MoreDepth \in [Cell -> Nat]
    BY <2>2, MoreTypes
  <2>4. /\ freelist' \in Cell
        /\ tag' \in [Cell -> CellTags] /\ count' \in [Cell -> 0 .. MaxRef]
        /\ child' \in [Cell -> [Slot -> Cell]] /\ depth' \in [Cell -> Nat]
        /\ held' \in [Cell -> Nat] /\ allocated' \in 0 .. CounterRange - 1
    BY <2>1, <2>2, <2>3, TakeTypes
  <2>5. pages' \in 0 .. NPages
    BY <1>3 DEF ConstructOnNewPage, TypeOK
  <2>6. UNCHANGED <<freed, freeing, at, status, lost>>
    BY <1>3 DEF ConstructOnNewPage
  <2>7. QED
    BY <2>4, <2>5, <2>6 DEF TypeOK, CellTags
<1>4. ASSUME NEW c \in Cell, IncRef(c)
      PROVE  TypeOK'
  <2>1. count' \in [Cell -> 0 .. MaxRef]
    BY <1>4 DEF IncRef, TypeOK
  <2>2. held' \in [Cell -> Nat]
    BY <1>4 DEF IncRef, TypeOK
  <2>3. QED
    BY <1>4, <2>1, <2>2 DEF IncRef, TypeOK, history
<1>5. ASSUME NEW c \in Cell, DropRef(c)
      PROVE  TypeOK'
  <2>1. at \in [Cell -> 0 .. NSlots + 1] /\ DecRef(c, at)
    BY <1>5 DEF DropRef, TypeOK
  <2>2. /\ count' \in [Cell -> 0 .. MaxRef] /\ freeing' \in Seq(Cell)
        /\ at' \in [Cell -> 0 .. NSlots + 1]
    BY <2>1, DecRefTypes
  <2>3. held' \in [Cell -> Nat]
    BY <1>5 DEF DropRef, TypeOK
  <2>4. QED
    BY <1>5, <2>2, <2>3 DEF DropRef, TypeOK, history
<1>6. CASE FreeCellSlot
  <2> DEFINE c == Head(freeing)
             s == at[c]
             k == child[c][s]
             on == [at EXCEPT ![c] = s + 1]
  <2>1. c \in Cell /\ s \in 0 .. NSlots
    BY <1>6, TopTypes DEF FreeCellSlot, TypeOK
  <2>2. on \in [Cell -> 0 .. NSlots + 1]
    <3>1. at \in [Cell -> 0 .. NSlots + 1]
      BY DEF TypeOK
    <3>2. s + 1 \in 0 .. NSlots + 1
      BY <2>1
    <3> HIDE DEF c, s
    <3>3. QED
      BY <2>1, <3>1, <3>2
  <2>3. CASE <<tag[c], s>> \in Dropped
    <3>1. s \in Slot
      BY <2>1, <2>3 DEF Dropped, Slot
    <3>2. k \in Cell
      BY <2>1, <3>1 DEF TypeOK
    <3>3. DecRef(k, on) /\ lost' = lost
      BY <1>6, <2>3 DEF FreeCellSlot
    <3>4. /\ count' \in [Cell -> 0 .. MaxRef] /\ freeing' \in Seq(Cell)
          /\ at' \in [Cell -> 0 .. NSlots + 1]
      BY <2>2, <3>2, <3>3, DecRefTypes
    <3>5. QED
      BY <1>6, <3>3, <3>4 DEF FreeCellSlot, TypeOK
  <2>4. CASE <<tag[c], s>> \notin Dropped
    <3>1. at' = on /\ count' = count /\ freeing' = freeing
      BY <1>6, <2>4 DEF FreeCellSlot
    <3>2. lost' \in [Cell -> Nat]
      <4>1. lost \in [Cell -> Nat]
        BY DEF TypeOK
      <4>2. lost' = lost \/ lost' = [lost EXCEPT ![k] = @ + 1]
        BY <1>6, <2>4 DEF FreeCellSlot
      <4>3. QED
        BY <4>1, <4>2
    <3>3. QED
      BY <1>6, <2>2, <3>1, <3>2 DEF FreeCellSlot, TypeOK
  <2>5. QED
    BY <2>3, <2>4
<1>7. CASE FreeCellRelease
  <2>1. Head(freeing) \in Cell /\ Tail(freeing) \in Seq(Cell)
    BY <1>7, TopTypes DEF FreeCellRelease
  <2>2. Counter(freed) \in 0 .. CounterRange - 1
    BY DEF Counter, TypeOK
  <2> DEFINE c == Head(freeing)
  <2>3. /\ tag' = [tag EXCEPT ![c] = "FREE"]
        /\ child' = [child EXCEPT ![c] = [s \in Slot |-> IF s = 2 THEN freelist ELSE NIL]]
        /\ freelist' = c
        /\ depth' = [depth EXCEPT ![c] = depth[freelist] + 1]
        /\ at' = [at EXCEPT ![c] = 0]
        /\ lost' = [lost EXCEPT ![c] = 0]
        /\ freeing' = Tail(freeing) /\ freed' = Counter(freed)
        /\ UNCHANGED <<pages, count, allocated, held, status>>
    BY <1>7 DEF FreeCellRelease
  <2> HIDE DEF c
  <2>4. /\ depth[freelist] + 1 \in Nat
        /\ [s \in Slot |-> IF s = 2 THEN freelist ELSE NIL] \in [Slot -> Cell]
    <3>1. freelist \in Cell /\ depth \in [Cell -> Nat] /\ NIL \in Cell
      BY CellFacts DEF TypeOK
    <3>2. QED
      BY <3>1
  <2>5. c \in Cell /\ freeing' \in Seq(Cell)
    BY <2>1, <2>3 DEF c
  <2>6. /\ tag' \in [Cell -> CellTags] /\ child' \in [Cell -> [Slot -> Cell]]
        /\ depth' \in [Cell -> Nat] /\ lost' \in [Cell -> Nat]
    BY <2>3, <2>4, <2>5 DEF TypeOK, CellTags
  <2>7. at' \in [Cell -> 0 .. NSlots + 1] /\ freed' \in 0 .. CounterRange - 1
    BY <2>2, <2>3, <2>5 DEF TypeOK
  <2>8. QED
    BY <2>3, <2>5, <2>6, <2>7 DEF TypeOK, CellTags
<1>8. CASE Exhaust
  BY <1>8 DEF Exhaust, TypeOK, store, history
<1>9. CASE Exited
  BY <1>9 DEF Exited, TypeOK, vars, store, control, history
<1>10. CASE UNCHANGED vars
  BY <1>10 DEF TypeOK, vars, store, control, history
<1>11. QED
  BY <1>1, <1>2, <1>3, <1>4, <1>5, <1>6, <1>7, <1>8, <1>9, <1>10 DEF Next

(* Type correctness of the cells and of the globals of conspage.c. *)
THEOREM TypeCorrect == Spec => []TypeOK
BY InitType, NextType, PTL DEF Spec

-----------------------------------------------------------------------------
(* The free list.                                                          *)

(* The types of the variables the free list is made of. *)
LEMMA ListTypes ==
  ASSUME TypeOK
  PROVE  /\ freelist \in Cell /\ NIL \in Cell /\ 2 \in Slot
         /\ depth \in [Cell -> Nat] /\ child \in [Cell -> [Slot -> Cell]]
         /\ tag \in [Cell -> CellTags] /\ pages \in 0 .. NPages
<1>1. 2 \in Slot
  BY DEF Slot
<1>2. QED
  BY <1>1, CellFacts DEF TypeOK, CellTags

(* Before a page is added nothing is free. *)
LEMMA NothingFree ==
  ASSUME TypeOK, FreelistSound, PagesMapped, freelist = NIL \/ pages = 0
  PROVE  \A c \in Cell : depth[c] = 0 /\ tag[c] # "FREE"
<1>1. CASE freelist = NIL
  <2>1. depth[NIL] = 0
    BY ListTypes DEF FreelistSound, Linked
  <2>2. QED
    BY <1>1, <2>1, ListTypes DEF FreelistSound, Linked
<1>2. CASE pages = 0
  <2>1. \A c \in Cell : tag[c] = "none"
    BY <1>2, CellFacts DEF PagesMapped
  <2>2. QED
    BY <2>1, ListTypes DEF FreelistSound, Linked
<1>3. QED
  BY <1>1, <1>2

(* A cell of a new page that goes on the free list. *)
LEMMA FreshCell ==
  ASSUME TypeOK, pages < NPages, NEW c \in Cell, OnNewPage(c), c \notin Pinned
  PROVE  /\ c = <<pages, c[2]>>
         /\ c[2] \in FirstFree .. PageSize - 1
         /\ MoreTag[c] = "FREE"
         /\ MoreDepth[c] = c[2] - FirstFree + 1
         /\ MoreChild[c][2] = FreeCdr(c)
         /\ c[2] # FirstFree => /\ FreeCdr(c) \in Cell
                                /\ OnNewPage(FreeCdr(c)) /\ FreeCdr(c) \notin Pinned
                                /\ FreeCdr(c)[2] = c[2] - 1
<1>1. /\ c = <<c[1], c[2]>> /\ c[1] = pages
      /\ c[2] \in 0 .. PageSize - 1 /\ pages \in 0 .. NPages - 1
  BY CellFacts DEF OnNewPage
<1>2. c[2] \in FirstFree .. PageSize - 1
  BY <1>1 DEF Pinned, FirstFree, NIL, T
<1>3. c # NIL /\ c # T
  BY DEF Pinned
<1>4. MoreTag[c] = "FREE" /\ MoreDepth[c] = c[2] - FirstFree + 1
  BY <1>3 DEF MoreTag, MoreDepth
<1>5. MoreChild[c][2] = FreeCdr(c)
  BY <1>3 DEF MoreChild, Slot
<1>6. ASSUME c[2] # FirstFree
      PROVE  /\ FreeCdr(c) \in Cell
             /\ OnNewPage(FreeCdr(c)) /\ FreeCdr(c) \notin Pinned
             /\ FreeCdr(c)[2] = c[2] - 1
  <2>1. FreeCdr(c) = <<pages, c[2] - 1>>
    BY <1>1, <1>6 DEF FreeCdr
  <2>2. c[2] - 1 \in FirstFree .. PageSize - 1
    BY <1>1, <1>2, <1>6 DEF FirstFree
  <2>3. c[2] - 1 \in 0 .. PageSize - 1
    BY <2>2 DEF FirstFree
  <2>4. <<pages, c[2] - 1>> \in Cell
    BY <1>1, <2>3 DEF Cell
  <2>5. <<pages, c[2] - 1>> \notin Pinned
    BY <1>1, <2>2 DEF Pinned, FirstFree, NIL, T
  <2>6. QED
    BY <2>1, <2>4, <2>5 DEF OnNewPage
<1>7. QED
  BY <1>1, <1>2, <1>4, <1>5, <1>6

(* make_cons_page threads the whole page on the free list. *)
LEMMA NewPageLinked ==
  ASSUME TypeOK, FreelistSound, PagesMapped, pages < NPages,
         freelist = NIL
  PROVE  Linked(NewHead, MoreTag, MoreChild, MoreDepth) /\ MoreTag[NewHead] = "FREE"
<1>1. \A c \in Cell : depth[c] = 0 /\ tag[c] # "FREE"
  BY NothingFree
<1> DEFINE Fresh(c) == OnNewPage(c) /\ c \notin Pinned
<1>2. ASSUME NEW c \in Cell, ~Fresh(c)
      PROVE  MoreDepth[c] = 0 /\ MoreTag[c] # "FREE"
  BY <1>1, <1>2 DEF MoreDepth, MoreTag, Pinned
<1>3. ASSUME NEW c \in Cell, Fresh(c)
      PROVE  /\ MoreDepth[c] = c[2] - FirstFree + 1 /\ MoreTag[c] = "FREE"
             /\ c[2] \in FirstFree .. PageSize - 1
             /\ c = <<pages, c[2]>>
  BY <1>3, FreshCell
<1>4. FirstFree \in Nat /\ FirstFree < PageSize
  BY DEF FirstFree
<1>5. NewHead \in Cell /\ Fresh(NewHead) /\ NewHead[2] = PageSize - 1
  <2>1. NewHead \in Cell /\ NewHead[1] = pages /\ NewHead[2] = PageSize - 1
    <3>1. pages \in 0 .. NPages - 1 /\ PageSize - 1 \in 0 .. PageSize - 1
      BY ListTypes
    <3>2. QED
      BY <3>1 DEF NewHead, Cell
  <2>2. QED
    BY <2>1 DEF NewHead, OnNewPage, Pinned, NIL, T
<1> HIDE DEF Fresh
<1>6. \A c \in Cell : (MoreTag[c] = "FREE") <=> (MoreDepth[c] > 0)
  BY <1>2, <1>3, <1>4
<1>7. \A c, d \in Cell : MoreDepth[c] = MoreDepth[d] /\ MoreDepth[c] > 0 => c = d
  <2> SUFFICES ASSUME NEW c \in Cell, NEW d \in Cell,
                      MoreDepth[c] = MoreDepth[d], MoreDepth[c] > 0
               PROVE  c = d
    OBVIOUS
  <2>1. Fresh(c) /\ Fresh(d)
    BY <1>2
  <2>2. c[2] = d[2]
    BY <2>1, <1>3, <1>4
  <2>3. QED
    BY <2>1, <2>2, <1>3
<1>8. \A c \in Cell : MoreDepth[c] <= MoreDepth[NewHead]
  BY <1>2, <1>3, <1>4, <1>5
<1>9. ASSUME NEW c \in Cell, MoreDepth[c] > 0
      PROVE  /\ MoreDepth[MoreChild[c][2]] = MoreDepth[c] - 1
             /\ MoreDepth[c] = 1 => MoreChild[c][2] = NIL
  <2>1. Fresh(c)
    BY <1>2, <1>9
  <2>2. MoreChild[c][2] = FreeCdr(c)
    BY <2>1, FreshCell DEF Fresh
  <2>3. CASE c[2] = FirstFree
    <3>1. FreeCdr(c) = NIL
      BY <2>3 DEF FreeCdr
    <3>2. ~Fresh(NIL) /\ NIL \in Cell
      BY CellFacts DEF Fresh, Pinned
    <3>3. QED
      BY <1>2, <1>3, <1>4, <2>1, <2>2, <2>3, <3>1, <3>2
  <2>4. CASE c[2] # FirstFree
    <3>1. FreeCdr(c) \in Cell /\ Fresh(FreeCdr(c)) /\ FreeCdr(c)[2] = c[2] - 1
      BY <2>1, <2>4, FreshCell DEF Fresh
    <3>2. QED
      BY <1>3, <1>4, <2>1, <2>2, <2>4, <3>1
  <2>5. QED
    BY <2>3, <2>4
<1>10. MoreDepth[NewHead] # 0 /\ MoreTag[NewHead] = "FREE"
  BY <1>3, <1>4, <1>5
<1>11. MoreTag[NIL] \in {"none", "NIL"}
  BY CellFacts DEF MoreTag, FreelistSound, Linked
<1>12. QED
  BY <1>6, <1>7, <1>8, <1>9, <1>10, <1>11 DEF Linked

(* allocate_cell takes the head off a sound list. *)
LEMMA TakeLinked ==
  ASSUME NEW fl \in Cell, NEW tg, NEW ch \in [Cell -> [Slot -> Cell]],
         NEW dp \in [Cell -> Nat], tg = [c \in Cell |-> tg[c]],
         Linked(fl, tg, ch, dp), tg[fl] = "FREE",
         NEW t \in ObjectTags, NEW v \in [Slot -> Cell]
  PROVE  Linked(ch[fl][2], [tg EXCEPT ![fl] = t],
                [ch EXCEPT ![fl] = v], [dp EXCEPT ![fl] = 0])
<1> DEFINE n  == ch[fl][2]
           g  == [tg EXCEPT ![fl] = t]
           h  == [ch EXCEPT ![fl] = v]
           q  == [dp EXCEPT ![fl] = 0]
<1>1. n \in Cell /\ dp[fl] > 0 /\ dp[n] = dp[fl] - 1 /\ (dp[fl] = 1 => n = NIL)
  BY DEF Linked, Slot
<1>2. n # fl /\ q[n] = dp[n] /\ q[fl] = 0 /\ g[fl] = t /\ t # "FREE" /\ fl # NIL
  BY <1>1 DEF ObjectTags, Linked
<1>3. \A c \in Cell : c # fl => q[c] = dp[c] /\ g[c] = tg[c] /\ h[c] = ch[c]
  OBVIOUS
<1>0. /\ \A c \in Cell : dp[c] \in Nat
      /\ \A c, d \in Cell : dp[c] = dp[d] /\ dp[c] > 0 => c = d
      /\ \A c \in Cell : dp[c] <= dp[fl]
      /\ \A c \in Cell : (tg[c] = "FREE") <=> (dp[c] > 0)
  BY DEF Linked
<1> HIDE DEF n, g, h, q
<1>4. \A c \in Cell : (g[c] = "FREE") <=> (q[c] > 0)
  <2> TAKE c \in Cell
  <2>1. CASE c = fl
    BY <1>2, <2>1
  <2>2. CASE c # fl
    BY <1>0, <1>3, <2>2
  <2>3. QED
    BY <2>1, <2>2
<1>5. \A c, d \in Cell : q[c] = q[d] /\ q[c] > 0 => c = d
  <2> SUFFICES ASSUME NEW c \in Cell, NEW d \in Cell, q[c] = q[d], q[c] > 0
               PROVE  c = d
    OBVIOUS
  <2>1. c # fl /\ d # fl
    BY <1>2
  <2>2. dp[c] = dp[d] /\ dp[c] > 0
    BY <1>3, <2>1
  <2>3. QED
    BY <1>0, <2>2
<1>6. \A c \in Cell : q[c] <= q[n]
  <2> TAKE c \in Cell
  <2>1. CASE c = fl
    <3>1. q[c] = 0 /\ q[n] = dp[n] /\ dp[n] \in Nat
      BY <1>0, <1>1, <1>2, <2>1
    <3>2. QED
      BY <3>1
  <2>2. CASE c # fl
    <3>1. dp[c] <= dp[fl] /\ dp[c] # dp[fl]
      BY <1>0, <1>1, <2>2
    <3>2. q[c] = dp[c] /\ q[n] = dp[fl] - 1 /\ dp[c] \in Nat /\ dp[fl] \in Nat
      BY <1>0, <1>1, <1>2, <1>3, <2>2
    <3>3. dp[c] <= dp[fl] - 1
      BY <3>1, <3>2, Below
    <3>4. QED
      BY <3>2, <3>3
  <2>3. QED
    BY <2>1, <2>2
<1>7. ASSUME NEW c \in Cell, q[c] > 0
      PROVE  q[h[c][2]] = q[c] - 1 /\ (q[c] = 1 => h[c][2] = NIL)
  <2>1. c # fl /\ q[c] = dp[c] /\ h[c] = ch[c] /\ ch[c][2] \in Cell
    <3>1. c # fl /\ q[c] = dp[c] /\ h[c] = ch[c]
      BY <1>2, <1>3, <1>7
    <3>2. 2 \in Slot
      BY DEF Slot
    <3>3. QED
      BY <3>1, <3>2
  <2>2. dp[ch[c][2]] = dp[c] - 1 /\ (dp[c] = 1 => ch[c][2] = NIL)
    BY <1>7, <2>1 DEF Linked
  <2>3. dp[c] <= dp[fl]
    BY DEF Linked
  <2>4. ch[c][2] # fl
    BY <2>2, <2>3, <1>1
  <2>5. QED
    BY <1>3, <2>1, <2>2, <2>4
<1>8. q[n] = 0 => n = NIL
  BY <1>1, <1>2
<1>9. g[NIL] \in {"none", "NIL"}
  BY <1>2, <1>3, CellFacts DEF Linked
<1>10. Linked(n, g, h, q)
  BY <1>4, <1>5, <1>6, <1>7, <1>8, <1>9 DEF Linked
<1>11. QED
  BY <1>10 DEF n, g, h, q

(* free_cell puts an object on the head of a sound list. *)
LEMMA ReleaseLinked ==
  ASSUME TypeOK, FreelistSound, NEW c \in Cell, tag[c] \in ObjectTags
  PROVE  Linked(c, [tag EXCEPT ![c] = "FREE"],
                [child EXCEPT ![c] = [s \in Slot |-> IF s = 2 THEN freelist ELSE NIL]],
                [depth EXCEPT ![c] = depth[freelist] + 1])
<1> DEFINE g == [tag EXCEPT ![c] = "FREE"]
           h == [child EXCEPT ![c] = [s \in Slot |-> IF s = 2 THEN freelist ELSE NIL]]
           q == [depth EXCEPT ![c] = depth[freelist] + 1]
<1>0. /\ freelist \in Cell /\ depth \in [Cell -> Nat]
      /\ child \in [Cell -> [Slot -> Cell]] /\ 2 \in Slot /\ NIL \in Cell
      /\ tag \in [Cell -> CellTags]
  BY ListTypes
<1>a. /\ \A d \in Cell : depth[d] \in Nat
      /\ \A d, e \in Cell : depth[d] = depth[e] /\ depth[d] > 0 => d = e
      /\ \A d \in Cell : depth[d] <= depth[freelist]
      /\ \A d \in Cell : (tag[d] = "FREE") <=> (depth[d] > 0)
  BY <1>0 DEF FreelistSound, Linked
<1>1. depth[c] = 0 /\ c # NIL
  <2>1. tag[c] # "FREE" /\ tag[c] \notin {"none", "NIL"}
    BY DEF ObjectTags
  <2>2. tag[NIL] \in {"none", "NIL"}
    BY DEF FreelistSound, Linked
  <2>3. QED
    BY <1>a, <2>1, <2>2
<1>2. c # freelist
  BY <1>0, <1>1 DEF FreelistSound, Linked
<1>3. q[c] = depth[freelist] + 1 /\ g[c] = "FREE" /\ h[c][2] = freelist
  BY <1>0
<1>4. \A d \in Cell : d # c => q[d] = depth[d] /\ g[d] = tag[d] /\ h[d] = child[d]
  BY <1>0
<1> HIDE DEF g, h, q
<1>5. \A d \in Cell : (g[d] = "FREE") <=> (q[d] > 0)
  <2> TAKE d \in Cell
  <2>1. CASE d = c
    BY <1>0, <1>a, <1>3, <2>1
  <2>2. CASE d # c
    BY <1>a, <1>4, <2>2
  <2>3. QED
    BY <2>1, <2>2
<1>7. \A d, e \in Cell : q[d] = q[e] /\ q[d] > 0 => d = e
  <2> TAKE d, e \in Cell
  <2>1. d # c => q[d] # q[c]
    BY <1>0, <1>a, <1>3, <1>4
  <2>2. e # c => q[e] # q[c]
    BY <1>0, <1>a, <1>3, <1>4
  <2>3. QED
    BY <1>a, <1>4, <2>1, <2>2
<1>8. \A d \in Cell : q[d] <= q[c]
  <2> TAKE d \in Cell
  <2>1. CASE d = c
    BY <1>0, <1>a, <1>3, <2>1
  <2>2. CASE d # c
    BY <1>0, <1>a, <1>3, <1>4, <2>2
  <2>3. QED
    BY <2>1, <2>2
<1>9. ASSUME NEW d \in Cell, q[d] > 0
      PROVE  q[h[d][2]] = q[d] - 1 /\ (q[d] = 1 => h[d][2] = NIL)
  <2>1. CASE d = c
    <3>1. q[freelist] = depth[freelist]
      BY <1>0, <1>2, <1>4
    <3>2. depth[freelist] = 0 => freelist = NIL
      BY DEF FreelistSound, Linked
    <3>3. q[d] = depth[freelist] + 1 /\ h[d][2] = freelist
      BY <1>3, <2>1
    <3>4. depth[freelist] \in Nat
      BY <1>0
    <3>5. QED
      BY <3>1, <3>2, <3>3, <3>4
  <2>2. CASE d # c
    <3>1. /\ depth[d] > 0 /\ child[d][2] \in Cell /\ q[d] = depth[d]
          /\ depth[child[d][2]] = depth[d] - 1
          /\ depth[d] = 1 => child[d][2] = NIL
      BY <1>0, <1>4, <1>9, <2>2 DEF FreelistSound, Linked
    <3>2. child[d][2] # c
      BY <1>0, <1>1, <3>1
    <3>3. QED
      BY <1>4, <2>2, <3>1, <3>2
  <2>3. QED
    BY <2>1, <2>2
<1>10. q[c] # 0 /\ g[NIL] \in {"none", "NIL"}
  BY <1>0, <1>1, <1>3, <1>4 DEF FreelistSound, Linked
<1>11. Linked(c, g, h, q)
  BY <1>5, <1>7, <1>8, <1>9, <1>10 DEF Linked
<1>12. QED
  BY <1>11 DEF g, h, q

-----------------------------------------------------------------------------
(* The inductive invariant of the store.                                   *)

(* A pointer a caller can name is in a page that was made. *)
LEMMA AccessibleMapped ==
  ASSUME ReferencesMapped, pages \in Nat \ {0}, NEW c \in Cell, Accessible(c)
  PROVE  c[1] < pages
<1>1. NIL[1] = 0 /\ T[1] = 0
  BY DEF NIL, T
<1>2. \A p \in Cell, s \in Slot : child[p][s] = NIL \/ child[p][s][1] < pages
  BY DEF ReferencesMapped
<1>3. CASE c \in Pinned \/ held[c] > 0
  BY <1>1, <1>3 DEF ReferencesMapped, Pinned
<1>4. CASE \E p \in Cell : held[p] > 0 /\ \E s \in Slot : child[p][s] = c
  BY <1>1, <1>2, <1>4
<1>5. QED
  BY <1>3, <1>4 DEF Accessible

(* A pointer that is not among the arguments has no uses. *)
LEMMA NoUses ==
  ASSUME NEW kind, NEW t, NEW v, NEW c, \A s \in Slot : v[s] # c
  PROVE  Uses(kind, t, v, c) = 0
<1>1. {s \in Slot : <<t, s>> \in kind /\ v[s] = c} = {}
  OBVIOUS
<1>2. QED
  BY <1>1, FS_EmptySet DEF Uses

(* The counts when a new object takes the cell fl: those of the others. *)
LEMMA TakeCounts ==
  ASSUME NEW cn \in [Cell -> 0 .. MaxRef], NEW t, NEW v, NEW fl \in Cell,
         NEW one, one = [cn EXCEPT ![fl] = 1], NEW c \in Cell, c # fl
  PROVE  /\ Incremented(one, t, v)[c] \in 0 .. MaxRef
         /\ Incremented(one, t, v)[c] >= cn[c]
         /\ Uses(Copied, t, v, c) = 0 => Incremented(one, t, v)[c] <= cn[c]
<1> DEFINE u == Uses(Copied, t, v, c)
           n == one[c] + u
<1>1. u \in Nat /\ one[c] = cn[c] /\ cn[c] \in 0 .. MaxRef
  BY UsesNat
<1>2. Incremented(one, t, v)[c] = IF n < MaxRef THEN n ELSE MaxRef
  BY DEF Incremented
<1> HIDE DEF u
<1>3. QED
  BY <1>1, <1>2 DEF u

(* dec_ref keeps the pages, and the stack of activations of free_cell. *)
LEMMA DecRefStore ==
  ASSUME TypeOK, PagesMapped, StackSound, NEW c \in Cell, NEW where,
         DecRef(c, where), pages' = pages, tag' = tag
  PROVE  PagesMapped' /\ StackSound'
<1>1. /\ count \in [Cell -> 0 .. MaxRef] /\ freeing \in Seq(Cell)
      /\ tag \in [Cell -> CellTags]
  BY DEF TypeOK, CellTags
<1>2. CASE count[c] \in {0, MaxRef}
  <2>1. count' = count /\ freeing' = freeing
    BY <1>2 DEF DecRef
  <2>2. QED
    BY <2>1 DEF PagesMapped, StackSound
<1>3. CASE count[c] \notin {0, MaxRef}
  <2>1. count' = [count EXCEPT ![c] = @ - 1]
    BY <1>3 DEF DecRef
  <2>2. tag[c] \notin {"none", "NIL", "TRUE"}
    BY <1>3 DEF PagesMapped
  <2>3. PagesMapped'
    BY <1>1, <2>1, <2>2 DEF PagesMapped
  <2>4. \A i \in 1 .. Len(freeing) : freeing[i] # c /\ freeing[i] \in Cell
    BY <1>1, <1>3 DEF StackSound
  <2>5. CASE count[c] = 1 /\ tag[c] # "FREE"
    <3>1. freeing' = <<c>> \o freeing
      BY <1>3, <2>5 DEF DecRef, FreeCell
    <3>2. /\ Len(freeing') = Len(freeing) + 1
          /\ Len(freeing) \in Nat
          /\ freeing'[1] = c
          /\ \A i \in 2 .. Len(freeing') : freeing'[i] = freeing[i - 1]
      BY <1>1, <3>1
    <3>3. tag'[c] \in ObjectTags /\ count'[c] = 0
      BY <1>1, <2>1, <2>2, <2>5 DEF CellTags
    <3>4. ASSUME NEW i \in 1 .. Len(freeing')
          PROVE  /\ i # 1 => i - 1 \in 1 .. Len(freeing) /\ freeing'[i] = freeing[i - 1]
      BY <3>2
    <3>5. \A i \in 1 .. Len(freeing') : tag'[freeing'[i]] \in ObjectTags
                                        /\ count'[freeing'[i]] = 0
      <4> TAKE i \in 1 .. Len(freeing')
      <4>1. CASE i = 1
        BY <3>2, <3>3, <4>1
      <4>2. CASE i # 1
        <5>1. /\ freeing'[i] = freeing[i - 1] /\ freeing[i - 1] # c
              /\ freeing[i - 1] \in Cell
              /\ tag[freeing[i - 1]] \in ObjectTags /\ count[freeing[i - 1]] = 0
          BY <2>4, <3>4, <4>2 DEF StackSound
        <5>2. QED
          BY <1>1, <2>1, <5>1
      <4>3. QED
        BY <4>1, <4>2
    <3>6. \A i, j \in 1 .. Len(freeing') : freeing'[i] = freeing'[j] => i = j
      <4> SUFFICES ASSUME NEW i \in 1 .. Len(freeing'), NEW j \in 1 .. Len(freeing'),
                          freeing'[i] = freeing'[j]
                   PROVE  i = j
        OBVIOUS
      <4>1. i = 1 <=> j = 1
        BY <2>4, <3>2, <3>4
      <4>2. CASE i # 1
        <5>1. /\ i - 1 \in 1 .. Len(freeing) /\ j - 1 \in 1 .. Len(freeing)
              /\ freeing[i - 1] = freeing[j - 1]
          BY <3>4, <4>1, <4>2
        <5>2. i - 1 = j - 1
          BY <5>1 DEF StackSound
        <5>3. QED
          BY <3>2, <5>2
      <4>3. QED
        BY <4>1, <4>2
    <3>7. QED
      BY <2>3, <3>5, <3>6 DEF StackSound
  <2>6. CASE ~(count[c] = 1 /\ tag[c] # "FREE")
    <3>1. freeing' = freeing
      BY <1>3, <2>6 DEF DecRef
    <3>2. \A i \in 1 .. Len(freeing) : count'[freeing[i]] = count[freeing[i]]
      BY <1>1, <2>1, <2>4
    <3>3. QED
      BY <2>3, <3>1, <3>2 DEF StackSound
  <2>7. QED
    BY <2>5, <2>6
<1>4. QED
  BY <1>2, <1>3

(* A constructor keeps the pages and what is referred to, whether the store
   it takes its cell from is the present one or that with a page more.     *)
LEMMA TakeStore ==
  ASSUME TypeOK, ReferencesMapped, pages \in Nat \ {0}, pages' \in Nat, pages <= pages',
         NEW t \in Tags, NEW v \in [Slot -> Cell], Arguments(t, v),
         NEW fl \in Cell, fl[1] < pages',
         NEW tg \in [Cell -> CellTags], NEW cn \in [Cell -> 0 .. MaxRef],
         NEW ch \in [Cell -> [Slot -> Cell]], NEW dp,
         Take(t, v, fl, tg, cn, ch, dp),
         \A c \in Cell : /\ (tg[c] = "none") <=> (c[1] >= pages')
                         /\ tg[c] = "none" => cn[c] = 0
                         /\ tg[c] \in {"NIL", "TRUE"} => cn[c] = MaxRef,
         \A c \in Cell, s \in Slot : ch[c][s] = NIL \/ ch[c][s][1] < pages'
  PROVE  PagesMapped' /\ ReferencesMapped'
<1> DEFINE one == [cn EXCEPT ![fl] = 1]
<1>1. /\ tag' = [tg EXCEPT ![fl] = t] /\ count' = Incremented(one, t, v)
      /\ child' = [ch EXCEPT ![fl] = v]
      /\ held' = [c \in Cell |-> IF c = fl THEN 1
                                 ELSE IF c \in Pinned THEN held[c]
                                 ELSE held[c] - Uses(Moved, t, v, c)]
  BY DEF Take
<1>2. one \in [Cell -> 0 .. MaxRef] /\ t \in ObjectTags
  BY ValuesAssumption
<1>3. \A s \in Slot : v[s] \in Cell /\ v[s][1] < pages
  BY AccessibleMapped DEF Arguments
<1>4. \A c \in Cell : c[1] \in Nat
  BY CellFacts
<1>5. \A c \in Cell : c # fl => one[c] = cn[c] /\ tag'[c] = tg[c] /\ child'[c] = ch[c]
  BY <1>1
<1> HIDE DEF one
<1>6. ASSUME NEW c \in Cell
      PROVE  /\ (tag'[c] = "none") <=> (c[1] >= pages')
             /\ tag'[c] = "none" => count'[c] = 0
             /\ tag'[c] \in {"NIL", "TRUE"} => count'[c] = MaxRef
  <2>1. CASE c = fl
    <3>1. tag'[c] = t /\ t \notin {"none", "NIL", "TRUE"}
      BY <1>1, <1>2, <2>1 DEF ObjectTags
    <3>2. QED
      BY <1>4, <2>1, <3>1
  <2>2. CASE c # fl
    <3>0. one = [cn EXCEPT ![fl] = 1]
      BY DEF one
    <3>a. Incremented(one, t, v)[c] \in 0 .. MaxRef
      BY <2>2, <3>0, TakeCounts
    <3>b. Incremented(one, t, v)[c] >= cn[c]
      BY <2>2, <3>0, TakeCounts
    <3>c. Uses(Copied, t, v, c) = 0 => Incremented(one, t, v)[c] <= cn[c]
      BY <2>2, <3>0, TakeCounts
    <3>1. /\ tag'[c] = tg[c]
          /\ count'[c] \in 0 .. MaxRef /\ count'[c] >= cn[c]
          /\ Uses(Copied, t, v, c) = 0 => count'[c] <= cn[c]
      BY <1>1, <1>5, <2>2, <3>a, <3>b, <3>c
    <3>2. ASSUME tg[c] = "none"
          PROVE  Uses(Copied, t, v, c) = 0
      <4>1. c[1] >= pages'
        BY <3>2
      <4>2. \A s \in Slot : v[s] # c
        BY <1>3, <1>4, <4>1
      <4>3. QED
        BY <4>2, NoUses
    <3>3. tg[c] \in {"NIL", "TRUE"} => count'[c] = MaxRef
      BY <3>1
    <3>4. QED
      BY <3>1, <3>2, <3>3
  <2>3. QED
    BY <2>1, <2>2
<1>7. ASSUME NEW c \in Cell
      PROVE  held'[c] > 0 => c[1] < pages'
  <2>1. Uses(Moved, t, v, c) \in Nat /\ held[c] \in Nat
    BY UsesNat DEF TypeOK
  <2>2. held'[c] > 0 => c = fl \/ held[c] > 0
    BY <1>1, <2>1
  <2>3. held[c] > 0 => c[1] < pages
    BY DEF ReferencesMapped
  <2>4. QED
    BY <1>4, <2>2, <2>3
<1>8. ASSUME NEW c \in Cell, NEW s \in Slot
      PROVE  child'[c][s] = NIL \/ child'[c][s][1] < pages'
  <2>1. CASE c = fl
    BY <1>1, <1>3, <1>4, <2>1
  <2>2. CASE c # fl
    BY <1>5, <2>2
  <2>3. QED
    BY <2>1, <2>2
<1>9. QED
  BY <1>6, <1>7, <1>8 DEF PagesMapped, ReferencesMapped

(* A new page keeps the pages and what is referred to. *)
LEMMA NewPageStore ==
  ASSUME StoreInv, pages < NPages, freelist = NIL,
         NEW stale \in [0 .. PageSize - 1 -> StaleCounts]
  PROVE  /\ \A c \in Cell : /\ (MoreTag[c] = "none") <=> (c[1] >= pages + 1)
                            /\ MoreTag[c] = "none" => MoreCount(stale)[c] = 0
                            /\ MoreTag[c] \in {"NIL", "TRUE"} =>
                                 MoreCount(stale)[c] = MaxRef
         /\ \A c \in Cell, s \in Slot : \/ MoreChild[c][s] = NIL
                                        \/ MoreChild[c][s][1] < pages + 1
<1>1. pages \in Nat /\ \A c \in Cell : c[1] \in Nat
  BY CellFacts DEF StoreInv, TypeOK
<1>2. ASSUME NEW c \in Cell
      PROVE  /\ (MoreTag[c] = "none") <=> (c[1] >= pages + 1)
             /\ MoreTag[c] = "none" => MoreCount(stale)[c] = 0
             /\ MoreTag[c] \in {"NIL", "TRUE"} => MoreCount(stale)[c] = MaxRef
  <2>1. CASE OnNewPage(c)
    <3>1. c[1] = pages /\ MoreTag[c] # "none"
      BY <2>1 DEF OnNewPage, MoreTag
    <3>2. MoreTag[c] \in {"NIL", "TRUE"} => c \in Pinned
      BY <2>1 DEF MoreTag, Pinned
    <3>3. c \in Pinned => MoreCount(stale)[c] = MaxRef
      BY <2>1 DEF MoreCount
    <3>4. QED
      BY <1>1, <3>1, <3>2, <3>3
  <2>2. CASE ~OnNewPage(c)
    <3>1. c[1] # pages /\ MoreTag[c] = tag[c] /\ MoreCount(stale)[c] = count[c]
      BY <2>2 DEF OnNewPage, MoreTag, MoreCount
    <3>2. /\ (tag[c] = "none") <=> (c[1] >= pages)
          /\ tag[c] = "none" => count[c] = 0
          /\ tag[c] \in {"NIL", "TRUE"} => count[c] = MaxRef
      BY DEF StoreInv, PagesMapped
    <3>3. (c[1] >= pages) <=> (c[1] >= pages + 1)
      BY <1>1, <3>1
    <3>4. QED
      BY <3>1, <3>2, <3>3
  <2>3. QED
    BY <2>1, <2>2
<1>3. ASSUME NEW c \in Cell, NEW s \in Slot
      PROVE  MoreChild[c][s] = NIL \/ MoreChild[c][s][1] < pages + 1
  <2>1. CASE ~OnNewPage(c)
    <3>1. MoreChild[c][s] = child[c][s]
      BY <2>1 DEF MoreChild
    <3>2. child[c][s] = NIL \/ child[c][s][1] < pages
      BY DEF StoreInv, ReferencesMapped
    <3>3. child[c][s] \in Cell
      BY DEF StoreInv, TypeOK
    <3>4. QED
      BY <1>1, <3>1, <3>2, <3>3
  <2>2. CASE OnNewPage(c)
    <3>1. MoreChild[c][s] \in {T, FreeCdr(c), NIL}
      BY <2>2 DEF MoreChild
    <3>2. FreeCdr(c) = NIL \/ FreeCdr(c)[1] = pages
      BY <2>2 DEF FreeCdr, OnNewPage
    <3>3. T[1] = 0
      BY DEF T
    <3>4. QED
      BY <1>1, <3>1, <3>2, <3>3
  <2>3. QED
    BY <2>1, <2>2
<1>4. QED
  BY <1>2, <1>3

(* free_cell is done with a cell: the stack loses its top. *)
LEMMA ReleaseStack ==
  ASSUME TypeOK, StackSound, FreeCellRelease
  PROVE  StackSound'
<1> DEFINE c == Head(freeing)
<1>1. /\ freeing \in Seq(Cell) /\ freeing # <<>> /\ freeing' = Tail(freeing)
      /\ tag' = [tag EXCEPT ![c] = "FREE"] /\ count' = count
  BY DEF FreeCellRelease, TypeOK
<1>2. /\ Len(freeing') = Len(freeing) - 1 /\ Len(freeing) \in Nat \ {0}
      /\ c = freeing[1]
      /\ \A i \in 1 .. Len(freeing') : /\ i + 1 \in 1 .. Len(freeing)
                                       /\ freeing'[i] = freeing[i + 1]
                                       /\ freeing[i + 1] \in Cell
  BY <1>1
<1> HIDE DEF c
<1>3. \A i \in 1 .. Len(freeing') : tag'[freeing'[i]] \in ObjectTags
                                    /\ count'[freeing'[i]] = 0
  <2> TAKE i \in 1 .. Len(freeing')
  <2>1. /\ i + 1 \in 1 .. Len(freeing) /\ freeing'[i] = freeing[i + 1]
        /\ freeing[i + 1] \in Cell /\ i \in Nat /\ 1 \in 1 .. Len(freeing)
    BY <1>2
  <2>2. i + 1 # 1
    BY <2>1
  <2>3. freeing[i + 1] # c
    BY <1>2, <2>1, <2>2 DEF StackSound
  <2>4. tag[freeing[i + 1]] \in ObjectTags /\ count[freeing[i + 1]] = 0
    BY <2>1 DEF StackSound
  <2>5. tag \in [Cell -> CellTags]
    BY DEF TypeOK, CellTags
  <2>6. QED
    BY <1>1, <2>1, <2>3, <2>4, <2>5
<1>4. \A i, j \in 1 .. Len(freeing') : freeing'[i] = freeing'[j] => i = j
  <2> SUFFICES ASSUME NEW i \in 1 .. Len(freeing'), NEW j \in 1 .. Len(freeing'),
                      freeing'[i] = freeing'[j]
               PROVE  i = j
    OBVIOUS
  <2>1. i + 1 \in 1 .. Len(freeing) /\ j + 1 \in 1 .. Len(freeing)
        /\ freeing[i + 1] = freeing[j + 1]
    BY <1>2
  <2>2. i + 1 = j + 1
    BY <2>1 DEF StackSound
  <2>3. QED
    BY <1>2, <2>2
<1>5. QED
  BY <1>3, <1>4 DEF StackSound

(* The store before initialise_cons_pages. *)
LEMMA InitStore == Init => StoreInv
<1> SUFFICES ASSUME Init PROVE StoreInv
  OBVIOUS
<1>1. TypeOK
  BY InitType
<1>2. FreelistSound
  BY CellFacts DEF Init, FreelistSound, Linked
<1>3. PagesMapped
  BY CellFacts DEF Init, PagesMapped
<1>4. StackSound
  BY DEF Init, StackSound
<1>5. ReferencesMapped
  BY DEF Init, ReferencesMapped
<1>6. QED
  BY <1>1, <1>2, <1>3, <1>4, <1>5 DEF StoreInv

(* initialise_cons_pages and a constructor that needs a page: the list. *)
LEMMA FirstPageStore ==
  ASSUME StoreInv, InitialiseConsPages
  PROVE  FreelistSound' /\ PagesMapped' /\ StackSound' /\ ReferencesMapped'
<1>1. PICK stale \in [0 .. PageSize - 1 -> StaleCounts] : count' = MoreCount(stale)
  BY DEF InitialiseConsPages
<1>2. /\ pages = 0 /\ pages' = 1 /\ freelist' = NewHead /\ tag' = MoreTag
      /\ child' = MoreChild /\ depth' = MoreDepth
      /\ UNCHANGED <<freeing, held>> /\ freeing = <<>>
  BY DEF InitialiseConsPages, control, Idle
<1>3. freelist = NIL
  BY <1>2, NothingFree, ListTypes DEF StoreInv, FreelistSound, Linked
<1>4. pages < NPages
  BY <1>2
<1>5. FreelistSound'
  BY <1>2, <1>3, <1>4, NewPageLinked DEF StoreInv, FreelistSound
<1>6. /\ \A c \in Cell : /\ (MoreTag[c] = "none") <=> (c[1] >= pages + 1)
                         /\ MoreTag[c] = "none" => MoreCount(stale)[c] = 0
                         /\ MoreTag[c] \in {"NIL", "TRUE"} =>
                              MoreCount(stale)[c] = MaxRef
      /\ \A c \in Cell, s \in Slot : \/ MoreChild[c][s] = NIL
                                     \/ MoreChild[c][s][1] < pages + 1
  BY <1>3, <1>4, NewPageStore
<1>7. pages + 1 = 1
  BY <1>2
<1>8. PagesMapped'
  BY <1>1, <1>2, <1>6, <1>7 DEF PagesMapped
<1>9. \A c \in Cell : held[c] > 0 => c[1] < 1
  <2>1. \A c \in Cell : held[c] > 0 => c[1] < 0
    BY <1>2 DEF StoreInv, ReferencesMapped
  <2>2. QED
    BY <2>1, CellFacts
<1>10. ReferencesMapped'
  BY <1>2, <1>6, <1>7, <1>9 DEF ReferencesMapped
<1>11. StackSound'
  BY <1>2 DEF StackSound
<1>12. QED
  BY <1>5, <1>8, <1>10, <1>11

LEMMA NextStore == StoreInv /\ [Next]_vars => StoreInv'
<1> SUFFICES ASSUME StoreInv, [Next]_vars PROVE StoreInv'
  OBVIOUS
<1>0. /\ TypeOK /\ FreelistSound /\ PagesMapped /\ StackSound /\ ReferencesMapped
      /\ TypeOK'
  BY NextType DEF StoreInv
<1> SUFFICES FreelistSound' /\ PagesMapped' /\ StackSound' /\ ReferencesMapped'
  BY <1>0 DEF StoreInv
<1>1. CASE InitialiseConsPages
  BY <1>1, FirstPageStore
<1>2. ASSUME NEW t \in Tags, NEW v \in [Slot -> Cell], Construct(t, v)
      PROVE  FreelistSound' /\ PagesMapped' /\ StackSound' /\ ReferencesMapped'
  <2>1. /\ Arguments(t, v) /\ Take(t, v, freelist, tag, count, child, depth)
        /\ pages > 0 /\ freelist # NIL /\ freeing = <<>> /\ freeing' = <<>>
        /\ pages' = pages /\ tag[freelist] = "FREE"
    BY <1>2 DEF Construct, Idle, Take
  <2>2. /\ freelist \in Cell /\ tag \in [Cell -> CellTags]
        /\ count \in [Cell -> 0 .. MaxRef] /\ child \in [Cell -> [Slot -> Cell]]
        /\ depth \in [Cell -> Nat] /\ pages \in Nat \ {0} /\ t \in ObjectTags
    <3>1. /\ freelist \in Cell /\ tag \in [Cell -> CellTags]
          /\ child \in [Cell -> [Slot -> Cell]] /\ depth \in [Cell -> Nat]
          /\ pages \in Nat
      BY <1>0, ListTypes
    <3>a. count \in [Cell -> 0 .. MaxRef]
      BY <1>0 DEF TypeOK
    <3>2. t \in ObjectTags
      BY ValuesAssumption
    <3>3. QED
      BY <2>1, <3>1, <3>a, <3>2
  <2>3. FreelistSound'
    <3>1. Linked(child[freelist][2], [tag EXCEPT ![freelist] = t],
                 [child EXCEPT ![freelist] = v], [depth EXCEPT ![freelist] = 0])
      BY <1>0, <2>1, <2>2, TakeLinked DEF FreelistSound
    <3>2. QED
      BY <2>1, <3>1 DEF Take, FreelistSound
  <2>4. freelist[1] < pages'
    BY <1>0, <2>1, <2>2, CellFacts DEF PagesMapped
  <2>5. PagesMapped' /\ ReferencesMapped'
    <3>1. \A c \in Cell : /\ (tag[c] = "none") <=> (c[1] >= pages')
                          /\ tag[c] = "none" => count[c] = 0
                          /\ tag[c] \in {"NIL", "TRUE"} => count[c] = MaxRef
      BY <1>0, <2>1 DEF PagesMapped
    <3>2. \A c \in Cell, s \in Slot : child[c][s] = NIL \/ child[c][s][1] < pages'
      BY <1>0, <2>1 DEF ReferencesMapped
    <3>3. pages' \in Nat /\ pages <= pages'
      BY <2>1, <2>2
    <3>4. QED
      BY <1>0, <2>1, <2>2, <2>4, <3>1, <3>2, <3>3, TakeStore
  <2>6. StackSound'
    BY <2>1 DEF StackSound
  <2>7. QED
    BY <2>3, <2>5, <2>6
<1>3. ASSUME NEW t \in Tags, NEW v \in [Slot -> Cell], ConstructOnNewPage(t, v)
      PROVE  FreelistSound' /\ PagesMapped' /\ StackSound' /\ ReferencesMapped'
  <2>1. PICK stale \in [0 .. PageSize - 1 -> StaleCounts] :
          Take(t, v, NewHead, MoreTag, MoreCount(stale), MoreChild, MoreDepth)
    BY <1>3 DEF ConstructOnNewPage
  <2>2. /\ Arguments(t, v) /\ freelist = NIL /\ pages > 0 /\ pages < NPages
        /\ freeing = <<>> /\ freeing' = <<>> /\ pages' = pages + 1
    BY <1>3 DEF ConstructOnNewPage, Idle
  <2>3. /\ NewHead \in Cell /\ MoreTag \in [Cell -> CellTags]
        /\ MoreCount(stale) \in [Cell -> 0 .. MaxRef]
        /\ MoreChild \in [Cell -> [Slot -> Cell]] /\ MoreDepth \in [Cell -> Nat]
    BY <1>0, <2>2, MoreTypes
  <2>4. t \in ObjectTags /\ pages \in Nat \ {0} /\ pages' \in Nat /\ pages <= pages'
    BY <1>0, <2>2, ValuesAssumption DEF TypeOK
  <2>5. Linked(NewHead, MoreTag, MoreChild, MoreDepth) /\ MoreTag[NewHead] = "FREE"
    BY <1>0, <2>2, NewPageLinked
  <2>6. FreelistSound'
    <3>1. MoreTag = [c \in Cell |-> MoreTag[c]]
      BY <2>3
    <3>2. Linked(MoreChild[NewHead][2], [MoreTag EXCEPT ![NewHead] = t],
                 [MoreChild EXCEPT ![NewHead] = v], [MoreDepth EXCEPT ![NewHead] = 0])
      BY <2>3, <2>4, <2>5, <3>1, TakeLinked
    <3>3. QED
      BY <2>1, <3>2 DEF Take, FreelistSound
  <2>7. NewHead[1] < pages'
    BY <2>2, <2>4 DEF NewHead
  <2>8. PagesMapped' /\ ReferencesMapped'
    <3>1. /\ \A c \in Cell : /\ (MoreTag[c] = "none") <=> (c[1] >= pages')
                             /\ MoreTag[c] = "none" => MoreCount(stale)[c] = 0
                             /\ MoreTag[c] \in {"NIL", "TRUE"} =>
                                  MoreCount(stale)[c] = MaxRef
          /\ \A c \in Cell, s \in Slot : \/ MoreChild[c][s] = NIL
                                         \/ MoreChild[c][s][1] < pages'
      BY <2>2, NewPageStore
    <3>2. QED
      BY <1>0, <2>1, <2>2, <2>3, <2>4, <2>7, <3>1, TakeStore
  <2>9. StackSound'
    BY <2>2 DEF StackSound
  <2>10. QED
    BY <2>6, <2>8, <2>9
<1>4. ASSUME NEW c \in Cell, IncRef(c)
      PROVE  FreelistSound' /\ PagesMapped' /\ StackSound' /\ ReferencesMapped'
  <2>1. /\ Idle /\ Accessible(c) /\ c \notin Pinned
        /\ count' = [count EXCEPT ![c] = IF @ < MaxRef THEN @ + 1 ELSE @]
        /\ held' = [held EXCEPT ![c] = @ + 1]
        /\ UNCHANGED <<pages, freelist, tag, child, depth, freeing>>
    BY <1>4 DEF IncRef, history
  <2>2. FreelistSound'
    BY <1>0, <2>1 DEF FreelistSound
  <2>3. StackSound'
    BY <2>1 DEF StackSound, Idle
  <2>4. c[1] < pages /\ pages \in Nat /\ c[1] \in Nat
    <3>1. pages = 0 => \A d \in Cell : ~(d[1] < pages)
      BY CellFacts
    <3>2. pages = 0 => \A d \in Cell, s \in Slot : child[d][s] = NIL
      <4>1. \A d \in Cell, s \in Slot : child[d][s] \in Cell
        BY <1>0 DEF TypeOK
      <4>2. \A d \in Cell, s \in Slot : child[d][s] = NIL \/ child[d][s][1] < pages
        BY <1>0 DEF ReferencesMapped
      <4>3. QED
        BY <3>1, <4>1, <4>2
    <3>3. c # NIL
      BY <2>1 DEF Pinned
    <3>4. pages # 0
      BY <1>0, <2>1, <3>1, <3>2, <3>3 DEF Accessible, ReferencesMapped
    <3>5. pages \in Nat \ {0}
      BY <1>0, <3>4 DEF TypeOK
    <3>6. QED
      BY <1>0, <2>1, <3>5, AccessibleMapped, CellFacts
  <2>5. ReferencesMapped'
    BY <1>0, <2>1, <2>4 DEF ReferencesMapped, TypeOK
  <2>6. tag[c] # "none"
    BY <1>0, <2>4 DEF PagesMapped
  <2>7. PagesMapped'
    <3>1. count \in [Cell -> 0 .. MaxRef]
      BY <1>0 DEF TypeOK
    <3>2. \A d \in Cell : d # c => count'[d] = count[d]
      BY <2>1, <3>1
    <3>3. count[c] = MaxRef => count'[c] = MaxRef
      BY <2>1, <3>1
    <3>4. QED
      BY <1>0, <2>1, <2>6, <3>2, <3>3 DEF PagesMapped
  <2>8. QED
    BY <2>2, <2>3, <2>5, <2>7
<1>5. ASSUME NEW c \in Cell, DropRef(c)
      PROVE  FreelistSound' /\ PagesMapped' /\ StackSound' /\ ReferencesMapped'
  <2>1. /\ DecRef(c, at) /\ held' = [held EXCEPT ![c] = @ - 1] /\ held[c] > 0
        /\ UNCHANGED <<pages, freelist, tag, child, depth>>
    BY <1>5 DEF DropRef, history
  <2>2. PagesMapped' /\ StackSound'
    BY <1>0, <2>1, DecRefStore
  <2>3. FreelistSound' /\ ReferencesMapped'
    BY <1>0, <2>1 DEF FreelistSound, ReferencesMapped, TypeOK
  <2>4. QED
    BY <2>2, <2>3
<1>6. CASE FreeCellSlot
  <2> DEFINE c == Head(freeing)
             k == child[c][at[c]]
  <2>1. /\ UNCHANGED <<pages, freelist, tag, child, held, depth>>
        /\ at[c] \in 0 .. NSlots /\ c \in Cell
    <3>1. c \in Cell /\ at[c] <= NSlots
      BY <1>0, <1>6, TopTypes DEF FreeCellSlot
    <3>2. at[c] \in 0 .. NSlots + 1
      BY <1>0, <3>1 DEF TypeOK
    <3>3. UNCHANGED <<pages, freelist, tag, child, held, depth>>
      BY <1>6 DEF FreeCellSlot
    <3> HIDE DEF c
    <3>4. QED
      BY <3>1, <3>2, <3>3
  <2>2. FreelistSound' /\ ReferencesMapped'
    BY <1>0, <2>1 DEF FreelistSound, ReferencesMapped
  <2>3. CASE <<tag[c], at[c]>> \in Dropped
    <3>1. k \in Cell
      <4>1. at[c] \in Slot
        BY <2>1, <2>3 DEF Dropped, Slot
      <4>2. QED
        BY <1>0, <2>1, <4>1 DEF TypeOK
    <3>2. DecRef(k, [at EXCEPT ![c] = at[c] + 1])
      BY <1>6, <2>3 DEF FreeCellSlot
    <3>3. PagesMapped' /\ StackSound'
      BY <1>0, <2>1, <3>1, <3>2, DecRefStore
    <3>4. QED
      BY <2>2, <3>3
  <2>4. CASE <<tag[c], at[c]>> \notin Dropped
    <3>1. UNCHANGED <<count, freeing>>
      BY <1>6, <2>4 DEF FreeCellSlot
    <3>2. PagesMapped' /\ StackSound'
      BY <1>0, <2>1, <3>1 DEF PagesMapped, StackSound
    <3>3. QED
      BY <2>2, <3>2
  <2>5. QED
    BY <2>3, <2>4
<1>7. CASE FreeCellRelease
  <2> DEFINE c == Head(freeing)
             free == [s \in Slot |-> IF s = 2 THEN freelist ELSE NIL]
  <2>1. /\ tag' = [tag EXCEPT ![c] = "FREE"] /\ child' = [child EXCEPT ![c] = free]
        /\ freelist' = c /\ depth' = [depth EXCEPT ![c] = depth[freelist] + 1]
        /\ UNCHANGED <<pages, count, held>> /\ freeing # <<>>
    BY <1>7 DEF FreeCellRelease
  <2>2. c \in Cell /\ tag[c] \in ObjectTags
    <3>1. freeing \in Seq(Cell) /\ freeing # <<>>
      BY <1>0, <2>1 DEF TypeOK
    <3>2. c = freeing[1] /\ 1 \in 1 .. Len(freeing) /\ c \in Cell
      BY <3>1
    <3>3. QED
      BY <1>0, <3>2 DEF StackSound
  <2>3. FreelistSound'
    BY <1>0, <2>1, <2>2, ReleaseLinked DEF FreelistSound
  <2>4. StackSound'
    BY <1>0, <1>7, ReleaseStack
  <2>5. PagesMapped'
    <3>1. tag[c] # "none"
      BY <2>2 DEF ObjectTags
    <3>2. QED
      BY <1>0, <2>1, <2>2, <3>1 DEF PagesMapped, TypeOK
  <2>6. ReferencesMapped'
    <3>1. freelist = NIL \/ freelist[1] < pages
      <4>1. freelist = NIL \/ tag[freelist] = "FREE"
        BY <1>0, ListTypes DEF FreelistSound, Linked
      <4>2. QED
        BY <1>0, <4>1, ListTypes, CellFacts DEF PagesMapped
    <3>2. \A s \in Slot : free[s] = NIL \/ free[s][1] < pages
      BY <3>1
    <3> HIDE DEF free
    <3>3. QED
      BY <1>0, <2>1, <2>2, <3>2 DEF ReferencesMapped, TypeOK
  <2>7. QED
    BY <2>3, <2>4, <2>5, <2>6
<1>8. ASSUME UNCHANGED <<pages, freelist, tag, count, child, freeing, held, depth>>
      PROVE  FreelistSound' /\ PagesMapped' /\ StackSound' /\ ReferencesMapped'
  BY <1>0, <1>8 DEF FreelistSound, PagesMapped, StackSound, ReferencesMapped
<1>9. CASE Exhaust
  BY <1>8, <1>9 DEF Exhaust, store, history
<1>10. CASE Exited \/ UNCHANGED vars
  BY <1>8, <1>10 DEF Exited, vars, store, control, history
<1>11. QED
  BY <1>1, <1>2, <1>3, <1>4, <1>5, <1>6, <1>7, <1>9, <1>10 DEF Next

(* The free list is sound, pages, counts and references keep to the pages
   made, and free_cell never works on one cell twice at once: always.      *)
THEOREM StoreCorrect == Spec => []StoreInv
BY InitStore, NextStore, PTL DEF Spec

-----------------------------------------------------------------------------
(* What a step may never do.                                               *)

(* A page is made by initialise_cons_pages, before which there is nothing,
   or by a constructor that finds the free list empty.                     *)
THEOREM PagesWhenFull == Spec => PagesOnlyWhenFull
<1>1. ASSUME StoreInv, [Next]_vars, pages' # pages, NEW c \in Cell
      PROVE  tag[c] # "FREE"
  <2>1. \/ pages = 0
        \/ \E t \in Tags, v \in [Slot -> Cell] : ConstructOnNewPage(t, v)
    BY <1>1 DEF Next, InitialiseConsPages, Construct, IncRef, DropRef, FreeCellSlot,
                FreeCellRelease, Exhaust, Exited, vars, store
  <2>2. pages = 0 \/ freelist = NIL
    BY <2>1 DEF ConstructOnNewPage
  <2>3. QED
    BY <1>1, <2>2, NothingFree DEF StoreInv
<1>2. StoreInv /\ [Next]_vars =>
        [pages' # pages => \A c \in Cell : tag[c] # "FREE"]_vars
  BY <1>1
<1>3. QED
  BY <1>2, InitStore, NextStore, PTL DEF Spec, PagesOnlyWhenFull

(* dec_ref leaves a count of MaxRef alone, and pushes no such cell. *)
LEMMA DecRefLocked ==
  ASSUME TypeOK, NEW c \in Cell, NEW d \in Cell, NEW where,
         DecRef(c, where), count[d] = MaxRef
  PROVE  count'[d] = MaxRef
<1>1. count \in [Cell -> 0 .. MaxRef]
  BY DEF TypeOK
<1>2. count' = count \/ (count[c] # MaxRef /\ count' = [count EXCEPT ![c] = @ - 1])
  BY DEF DecRef
<1>3. QED
  BY <1>1, <1>2

(* A constructor leaves a count of MaxRef alone, but for the cell it takes. *)
LEMMA TakeLocked ==
  ASSUME NEW cn \in [Cell -> 0 .. MaxRef], NEW t, NEW v, NEW fl \in Cell,
         NEW tg, NEW ch, NEW dp, tg = [c \in Cell |-> tg[c]],
         Take(t, v, fl, tg, cn, ch, dp),
         NEW d \in Cell, d # fl, cn[d] = MaxRef
  PROVE  count'[d] = MaxRef /\ tag'[d] = tg[d]
<1> DEFINE one == [cn EXCEPT ![fl] = 1]
<1>1. count' = Incremented(one, t, v) /\ tag' = [tg EXCEPT ![fl] = t]
  BY DEF Take
<1>2. one = [cn EXCEPT ![fl] = 1]
  OBVIOUS
<1> HIDE DEF one
<1>3. Incremented(one, t, v)[d] \in 0 .. MaxRef
  BY <1>2, TakeCounts
<1>4. Incremented(one, t, v)[d] >= cn[d]
  BY <1>2, TakeCounts
<1>5. count'[d] = MaxRef
  BY <1>1, <1>3, <1>4
<1>6. tag'[d] = tg[d]
  BY <1>1
<1>7. QED
  BY <1>5, <1>6

(* One step and one locked cell. *)
LEMMA LockedStep ==
  ASSUME StoreInv, [Next]_vars, NEW c \in Cell,
         count[c] = MaxRef, tag[c] \notin {"none", "FREE"}
  PROVE  count'[c] = MaxRef /\ tag'[c] = tag[c]
<1>0. /\ TypeOK /\ FreelistSound /\ PagesMapped /\ StackSound
      /\ count \in [Cell -> 0 .. MaxRef] /\ tag \in [Cell -> CellTags]
      /\ freelist \in Cell
  BY DEF StoreInv, TypeOK, CellTags
<1>1. /\ ~OnNewPage(c)
      /\ MoreTag[c] = tag[c]
      /\ \A stale : MoreCount(stale)[c] = count[c]
  <2>1. c[1] # pages
    <3>1. ~(c[1] >= pages) /\ pages \in Nat
      BY <1>0, ListTypes DEF PagesMapped
    <3>2. QED
      BY <3>1
  <2>2. QED
    BY <2>1 DEF OnNewPage, MoreTag, MoreCount
<1>2. CASE InitialiseConsPages
  BY <1>1, <1>2 DEF InitialiseConsPages
<1>3. ASSUME NEW t \in Tags, NEW v \in [Slot -> Cell], Construct(t, v)
      PROVE  count'[c] = MaxRef /\ tag'[c] = tag[c]
  <2>1. Take(t, v, freelist, tag, count, child, depth) /\ tag[freelist] = "FREE"
    BY <1>3 DEF Construct, Take
  <2>2. c # freelist /\ tag = [d \in Cell |-> tag[d]]
    BY <1>0, <2>1
  <2>3. QED
    BY <1>0, <2>1, <2>2, TakeLocked
<1>4. ASSUME NEW t \in Tags, NEW v \in [Slot -> Cell], ConstructOnNewPage(t, v)
      PROVE  count'[c] = MaxRef /\ tag'[c] = tag[c]
  <2>1. PICK stale \in [0 .. PageSize - 1 -> StaleCounts] :
          Take(t, v, NewHead, MoreTag, MoreCount(stale), MoreChild, MoreDepth)
    BY <1>4 DEF ConstructOnNewPage
  <2>2. pages < NPages
    BY <1>4 DEF ConstructOnNewPage
  <2>3. /\ NewHead \in Cell /\ MoreTag \in [Cell -> CellTags]
        /\ MoreCount(stale) \in [Cell -> 0 .. MaxRef]
    BY <1>0, <2>2, MoreTypes
  <2>4. c # NewHead
    BY <1>1 DEF OnNewPage, NewHead
  <2>5. MoreTag = [d \in Cell |-> MoreTag[d]] /\ MoreCount(stale)[c] = MaxRef
    BY <1>1, <2>3
  <2>6. count'[c] = MaxRef /\ tag'[c] = MoreTag[c]
    BY <2>1, <2>3, <2>4, <2>5, TakeLocked
  <2>7. QED
    BY <1>1, <2>6
<1>5. ASSUME NEW d \in Cell, IncRef(d)
      PROVE  count'[c] = MaxRef /\ tag'[c] = tag[c]
  BY <1>0, <1>5 DEF IncRef
<1>6. ASSUME NEW d \in Cell, DropRef(d)
      PROVE  count'[c] = MaxRef /\ tag'[c] = tag[c]
  <2>1. DecRef(d, at) /\ tag' = tag
    BY <1>6 DEF DropRef
  <2>2. QED
    BY <1>0, <2>1, DecRefLocked
<1>7. CASE FreeCellSlot
  <2> DEFINE d == Head(freeing)
             k == child[d][at[d]]
  <2>1. tag' = tag /\ d \in Cell
    BY <1>0, <1>7, TopTypes DEF FreeCellSlot
  <2>2. CASE <<tag[d], at[d]>> \in Dropped
    <3>1. at[d] \in 0 .. NSlots + 1 /\ at[d] <= NSlots
      BY <1>0, <1>7, <2>1 DEF FreeCellSlot, TypeOK
    <3>2. at[d] \in Slot
      BY <2>2, <3>1 DEF Dropped, Slot
    <3>3. k \in Cell
      BY <1>0, <2>1, <3>2 DEF TypeOK
    <3>4. DecRef(k, [at EXCEPT ![d] = at[d] + 1])
      BY <1>7, <2>2 DEF FreeCellSlot
    <3>5. QED
      BY <1>0, <2>1, <3>3, <3>4, DecRefLocked
  <2>3. CASE <<tag[d], at[d]>> \notin Dropped
    BY <1>7, <2>1, <2>3 DEF FreeCellSlot
  <2>4. QED
    BY <2>2, <2>3
<1>8. CASE FreeCellRelease
  <2>1. /\ freeing # <<>> /\ count' = count
        /\ tag' = [tag EXCEPT ![Head(freeing)] = "FREE"]
    BY <1>8 DEF FreeCellRelease
  <2>2. Head(freeing) = freeing[1] /\ 1 \in 1 .. Len(freeing)
    BY <1>0, <2>1 DEF TypeOK
  <2>3. count[Head(freeing)] = 0
    BY <1>0, <2>2 DEF StackSound
  <2>4. c # Head(freeing)
    BY <2>3
  <2>5. QED
    BY <1>0, <2>1, <2>4
<1>9. CASE Exhaust \/ Exited \/ UNCHANGED vars
  BY <1>9 DEF Exhaust, Exited, vars, store
<1>10. QED
  BY <1>2, <1>3, <1>4, <1>5, <1>6, <1>7, <1>8, <1>9 DEF Next

(* NIL, T and whatever else has a count of MaxRef stay what they are. *)
THEOREM LockedStaysIn == Spec => LockedIn
<1>1. StoreInv /\ [Next]_vars =>
        [\A c \in Cell : count[c] = MaxRef /\ tag[c] \notin {"none", "FREE"} =>
           count'[c] = MaxRef /\ tag'[c] = tag[c]]_vars
  BY LockedStep
<1>2. QED
  BY <1>1, InitStore, NextStore, PTL DEF Spec, LockedIn

-----------------------------------------------------------------------------
(* Facts about references.                                                 *)

(* The slots that are counted are those of objects; a pointer is copied or
   moved, never both; free_cell drops nothing that was not counted.        *)
LEMMA CountedFacts ==
  /\ \A g, s : <<g, s>> \in Counted => g \in ObjectTags /\ s \in Slot
  /\ Copied \cap Moved = {}
  /\ Dropped \subseteq Counted
  /\ Copied \subseteq Counted /\ Moved \subseteq Counted
  /\ \A g, s : <<g, s>> \in Counted /\ <<g, s>> \notin Copied \cup Moved => s >= 3
<1>1. \A g, s : <<g, s>> \in Counted => g \in ObjectTags /\ s \in Slot
  <2> TAKE g, s
  <2>1. <<g, s>> \in Copied \cup Moved => g \in ObjectTags /\ s \in {1, 2}
    BY DEF Copied, Moved, ObjectTags
  <2>2. <<g, s>> \in {"VECP"} \X (3 .. NSlots) => g \in ObjectTags /\ s \in Slot
    BY DEF ObjectTags, Slot
  <2>3. {1, 2} \subseteq Slot
    BY DEF Slot
  <2>4. <<g, s>> \in Counted =>
          <<g, s>> \in Copied \cup Moved \/ <<g, s>> \in {"VECP"} \X (3 .. NSlots)
    BY DEF Counted
  <2>5. QED
    BY <2>1, <2>2, <2>3, <2>4
<1>2. Copied \cap Moved = {}
  BY DEF Copied, Moved
<1>3. Dropped \subseteq Counted
  BY DEF Dropped, Counted, Copied, Moved
<1>4. /\ Copied \subseteq Counted /\ Moved \subseteq Counted
      /\ \A g, s : <<g, s>> \in Counted /\ <<g, s>> \notin Copied \cup Moved => s >= 3
  BY DEF Counted
<1>5. QED
  BY <1>1, <1>2, <1>3, <1>4

(* There are finitely many places for a reference. *)
LEMMA SitesFinite ==
  ASSUME NEW S \in SUBSET (Cell \X Slot)
  PROVE  IsFiniteSet(S) /\ Cardinality(S) \in Nat
<1>1. IsFiniteSet(0 .. NPages - 1) /\ IsFiniteSet(0 .. PageSize - 1) /\ IsFiniteSet(Slot)
  <2>1. NPages - 1 \in Int /\ PageSize - 1 \in Int /\ NSlots \in Int /\ 0 \in Int
    OBVIOUS
  <2>2. IsFiniteSet(0 .. NPages - 1)
    BY <2>1, FS_Interval
  <2>3. IsFiniteSet(0 .. PageSize - 1)
    BY <2>1, FS_Interval
  <2>4. IsFiniteSet(1 .. NSlots)
    BY <2>1, FS_Interval
  <2>5. QED
    BY <2>2, <2>3, <2>4 DEF Slot
<1>2. IsFiniteSet(Cell)
  BY <1>1, FS_Product DEF Cell
<1>3. IsFiniteSet(Cell \X Slot)
  BY <1>1, <1>2, FS_Product
<1>4. IsFiniteSet(S)
  BY <1>3, FS_Subset
<1>5. QED
  BY <1>4, FS_CardinalityType

(* The references to a cell are counted. *)
LEMMA ReferencesFinite ==
  ASSUME NEW c
  PROVE  /\ References(c) \in SUBSET (Cell \X Slot)
         /\ IsFiniteSet(References(c)) /\ Cardinality(References(c)) \in Nat
         /\ Cardinality(References(c)) = 0 => References(c) = {}
<1>1. References(c) \in SUBSET (Cell \X Slot)
  BY DEF References
<1>2. QED
  BY <1>1, SitesFinite, FS_EmptySet

(* Between operations nothing is being freed. *)
LEMMA NothingMarked ==
  ASSUME TypeOK, FreeingMarked, freeing = <<>>, NEW c \in Cell
  PROVE  at[c] = 0
<1>1. at[c] \in Nat
  BY DEF TypeOK
<1>2. Len(freeing) = 0
  OBVIOUS
<1>3. ~(at[c] > 0)
  BY <1>2 DEF FreeingMarked
<1>4. QED
  BY <1>1, <1>3

(* What a caller can name is NIL, T or an object. *)
LEMMA AccessibleObject ==
  ASSUME CountInv, freeing = <<>>, NEW c \in Cell, Accessible(c)
  PROVE  c \in Pinned \/ tag[c] \in ObjectTags
<1>1. CASE c \in Pinned \/ held[c] > 0
  BY <1>1 DEF CountInv, Grounded
<1>2. CASE \E p \in Cell : \E s \in Slot : <<tag[p], s>> \in Counted /\ child[p][s] = c
  <2>1. PICK p \in Cell, s \in Slot : <<tag[p], s>> \in Counted /\ child[p][s] = c
    BY <1>2
  <2>2. at[p] = 0
    BY NothingMarked DEF CountInv, StoreInv
  <2>3. <<p, s>> \in References(c)
    BY <2>1, <2>2, CountedFacts DEF References, Slot
  <2>4. QED
    BY <2>3 DEF CountInv, Grounded
<1>3. QED
  BY <1>1, <1>2 DEF Accessible

(* References to a cell that is not locked in make it an object that is not
   being freed: the second half of the claim about dangling references.    *)
LEMMA ReferredTo ==
  ASSUME CountInv, NEW c \in Cell, References(c) # {} \/ held[c] > 0, c \notin Pinned
  PROVE  tag[c] \in ObjectTags /\ at[c] = 0 /\ count[c] > 0
<1>1. tag[c] \in ObjectTags
  BY DEF CountInv, Grounded
<1>2. /\ count[c] \in 0 .. MaxRef /\ held[c] \in Nat /\ lost[c] \in Nat /\ at[c] \in Nat
      /\ freeing \in Seq(Cell)
  BY DEF CountInv, StoreInv, TypeOK
<1>3. count[c] > 0
  <2>1. ASSUME count[c] = MaxRef PROVE count[c] > 0
    BY <2>1
  <2>2. CASE count[c] < MaxRef
    <3> DEFINE n == Cardinality(References(c))
    <3>1. count[c] = n + held[c] + lost[c]
      BY <1>1, <2>2 DEF CountInv, CountsReferences
    <3>2. n \in Nat /\ (n = 0 => References(c) = {})
      BY ReferencesFinite
    <3> HIDE DEF n
    <3>3. n # 0 \/ held[c] # 0
      BY <1>2, <3>2
    <3>4. QED
      BY <1>2, <3>1, <3>2, <3>3
  <2>3. count[c] = MaxRef \/ count[c] < MaxRef
    BY <1>2
  <2>4. QED
    BY <2>1, <2>2, <2>3
<1>4. at[c] = 0
  <2>1. \A i \in 1 .. Len(freeing) : count[freeing[i]] = 0
    BY DEF CountInv, StoreInv, StackSound
  <2>2. ~(at[c] > 0)
    BY <1>3, <2>1 DEF CountInv, FreeingMarked
  <2>3. QED
    BY <1>2, <2>2
<1>5. QED
  BY <1>1, <1>3, <1>4

-----------------------------------------------------------------------------
(* What the two actions that construct an object have in common.           *)

(* A count raised by n, as far as a count goes. *)
Capped(n) == IF n < MaxRef THEN n ELSE MaxRef

(* The cell fl becomes an object of type t with the pointers v; the other
   objects are as they were, but for their counts.                         *)
Built(fl, t, v) ==
  /\ t \in ObjectTags /\ v \in [Slot -> Cell] /\ Arguments(t, v)
  /\ fl \notin Pinned /\ tag[fl] \notin ObjectTags
  /\ \A s \in Slot : v[s] # fl /\ (v[s] \in Pinned \/ tag[v[s]] \in ObjectTags)
  /\ tag'[fl] = t /\ child'[fl] = v /\ count'[fl] = 1 /\ held'[fl] = 1
  /\ \A c \in Cell \ {fl} :
       /\ tag[c] \in ObjectTags =>
            /\ tag'[c] = tag[c] /\ child'[c] = child[c]
            /\ count'[c] = Capped(count[c] + Uses(Copied, t, v, c))
       /\ tag'[c] \in ObjectTags => tag[c] \in ObjectTags
       /\ held'[c] = IF c \in Pinned THEN held[c] ELSE held[c] - Uses(Moved, t, v, c)
  /\ Idle /\ UNCHANGED <<freeing, at, lost, freed>>
  /\ allocated' = Counter(allocated)

(* A store with tags tg, counts cn and payloads ch has the same objects. *)
SameObjects(tg, cn, ch) ==
  \A c \in Cell : /\ tag[c] \in ObjectTags =>
                       tg[c] = tag[c] /\ cn[c] = count[c] /\ ch[c] = child[c]
                  /\ tg[c] \in ObjectTags => tag[c] \in ObjectTags

(* The cell a constructor takes from a store that has the same objects. *)
LEMMA TakeBuilds ==
  ASSUME CountInv, Idle, NEW t \in Tags, NEW v \in [Slot -> Cell], Arguments(t, v),
         NEW fl \in Cell, fl \notin Pinned, tag[fl] \notin ObjectTags,
         NEW tg \in [Cell -> CellTags], NEW cn \in [Cell -> 0 .. MaxRef],
         NEW ch \in [Cell -> [Slot -> Cell]], NEW dp,
         Take(t, v, fl, tg, cn, ch, dp), SameObjects(tg, cn, ch),
         UNCHANGED <<freeing, at, lost, freed>>
  PROVE  Built(fl, t, v)
<1> DEFINE one == [cn EXCEPT ![fl] = 1]
<1>1. /\ tag' = [tg EXCEPT ![fl] = t] /\ count' = Incremented(one, t, v)
      /\ child' = [ch EXCEPT ![fl] = v] /\ allocated' = Counter(allocated)
      /\ held' = [c \in Cell |-> IF c = fl THEN 1
                                 ELSE IF c \in Pinned THEN held[c]
                                 ELSE held[c] - Uses(Moved, t, v, c)]
  BY DEF Take
<1>2. \A s \in Slot : v[s] \in Pinned \/ tag[v[s]] \in ObjectTags
  BY AccessibleObject DEF Arguments, Idle
<1>3. \A s \in Slot : v[s] # fl
  BY <1>2
<1>4. ASSUME NEW c \in Cell
      PROVE  count'[c] = Capped(one[c] + Uses(Copied, t, v, c))
  BY <1>1, <1>4 DEF Incremented, Capped
<1>5. count'[fl] = 1
  <2>1. Uses(Copied, t, v, fl) = 0 /\ one[fl] = 1
    BY <1>3, NoUses
  <2>2. Capped(1 + 0) = 1
    BY DEF Capped
  <2>3. QED
    BY <1>4, <2>1, <2>2
<1>6. t \in ObjectTags /\ tag'[fl] = t /\ child'[fl] = v /\ held'[fl] = 1
  BY <1>1, ValuesAssumption
<1>7. ASSUME NEW c \in Cell \ {fl}
      PROVE  /\ tag[c] \in ObjectTags =>
                  /\ tag'[c] = tag[c] /\ child'[c] = child[c]
                  /\ count'[c] = Capped(count[c] + Uses(Copied, t, v, c))
             /\ tag'[c] \in ObjectTags => tag[c] \in ObjectTags
             /\ held'[c] = IF c \in Pinned THEN held[c]
                           ELSE held[c] - Uses(Moved, t, v, c)
  <2>1. one[c] = cn[c] /\ tag'[c] = tg[c] /\ child'[c] = ch[c]
    BY <1>1
  <2>2. held'[c] = IF c \in Pinned THEN held[c] ELSE held[c] - Uses(Moved, t, v, c)
    BY <1>1
  <2>3. QED
    BY <1>4, <2>1, <2>2 DEF SameObjects
<1>8. QED
  BY <1>1, <1>2, <1>3, <1>5, <1>6, <1>7 DEF Built

LEMMA ConstructBuilds ==
  ASSUME CountInv, NEW t \in Tags, NEW v \in [Slot -> Cell], Construct(t, v)
  PROVE  freelist \in Cell /\ Built(freelist, t, v)
<1>1. /\ Idle /\ freelist # NIL /\ Arguments(t, v)
      /\ Take(t, v, freelist, tag, count, child, depth)
      /\ UNCHANGED <<freeing, at, lost, freed>> /\ tag[freelist] = "FREE"
  BY DEF Construct, Take
<1>2. /\ freelist \in Cell /\ tag \in [Cell -> CellTags] /\ count \in [Cell -> 0 .. MaxRef]
      /\ child \in [Cell -> [Slot -> Cell]]
  BY DEF CountInv, StoreInv, TypeOK, CellTags
<1>3. tag[freelist] \notin ObjectTags /\ freelist \notin Pinned
  BY <1>1 DEF CountInv, Pinned, ObjectTags
<1>4. SameObjects(tag, count, child)
  BY DEF SameObjects
<1>5. QED
  BY <1>1, <1>2, <1>3, <1>4, TakeBuilds

LEMMA NewPageBuilds ==
  ASSUME CountInv, NEW t \in Tags, NEW v \in [Slot -> Cell], ConstructOnNewPage(t, v)
  PROVE  NewHead \in Cell /\ Built(NewHead, t, v)
<1>1. PICK stale \in [0 .. PageSize - 1 -> StaleCounts] :
        Take(t, v, NewHead, MoreTag, MoreCount(stale), MoreChild, MoreDepth)
  BY DEF ConstructOnNewPage
<1>2. /\ Idle /\ Arguments(t, v) /\ pages > 0 /\ pages < NPages
      /\ UNCHANGED <<freeing, at, lost, freed>>
  BY DEF ConstructOnNewPage
<1>3. TypeOK /\ PagesMapped /\ pages \in Nat
  BY DEF CountInv, StoreInv, TypeOK
<1>4. /\ NewHead \in Cell
      /\ MoreTag \in [Cell -> CellTags] /\ MoreCount(stale) \in [Cell -> 0 .. MaxRef]
      /\ MoreChild \in [Cell -> [Slot -> Cell]]
  BY <1>2, <1>3, MoreTypes
<1>5. ASSUME NEW c \in Cell
      PROVE  /\ tag[c] \in ObjectTags => /\ MoreTag[c] = tag[c]
                                         /\ MoreCount(stale)[c] = count[c]
                                         /\ MoreChild[c] = child[c]
             /\ MoreTag[c] \in ObjectTags => tag[c] \in ObjectTags
  <2>1. tag[c] \in ObjectTags => ~OnNewPage(c)
    <3>1. tag[c] \in ObjectTags => ~(c[1] >= pages)
      BY <1>3 DEF PagesMapped, ObjectTags
    <3>2. QED
      BY <1>3, <3>1 DEF OnNewPage
  <2>2. ~OnNewPage(c) => /\ MoreTag[c] = tag[c] /\ MoreChild[c] = child[c]
                         /\ MoreCount(stale)[c] = count[c]
    BY DEF MoreTag, MoreCount, MoreChild
  <2>3. OnNewPage(c) => MoreTag[c] \notin ObjectTags
    BY DEF MoreTag, ObjectTags
  <2>4. QED
    BY <2>1, <2>2, <2>3
<1>6. tag[NewHead] \notin ObjectTags /\ NewHead \notin Pinned
  <2>1. NewHead[1] = pages
    BY DEF NewHead
  <2>2. tag[NewHead] = "none"
    BY <1>3, <1>4, <2>1 DEF PagesMapped
  <2>3. QED
    BY <1>2, <2>1, <2>2 DEF Pinned, NIL, T, ObjectTags
<1>7. SameObjects(MoreTag, MoreCount(stale), MoreChild)
  BY <1>5 DEF SameObjects
<1>8. QED
  BY <1>1, <1>2, <1>4, <1>6, <1>7, TakeBuilds

-----------------------------------------------------------------------------
(* Steps that leave the objects as they are.                               *)

(* NIL and T are not objects that can be freed. *)
LEMMA PinnedNoObject ==
  ASSUME CountInv, NEW c \in Pinned
  PROVE  c \in Cell /\ tag[c] \notin ObjectTags
<1>1. tag[NIL] \in {"none", "NIL"} /\ tag[T] \in {"none", "TRUE"}
  BY DEF CountInv, StoreInv, FreelistSound, Linked
<1>2. QED
  BY <1>1, CellFacts DEF Pinned, ObjectTags

(* The constructors and initialise_cons_pages leave T what it is. *)
LEMMA TruthKept ==
  ASSUME StoreInv, StoreInv', [Next]_vars, tag[T] \in {"none", "TRUE"}
  PROVE  tag'[T] \in {"none", "TRUE"}
<1>0. T \in Cell /\ T[1] = 0 /\ T # NIL
  BY CellFacts DEF T
<1>1. CASE tag[T] = "TRUE"
  <2>1. count[T] = MaxRef
    BY <1>0, <1>1 DEF StoreInv, PagesMapped
  <2>2. tag'[T] = tag[T]
    BY <1>0, <1>1, <2>1, LockedStep
  <2>3. QED
    BY <1>1, <2>2
<1>2. CASE tag[T] = "none"
  <2>1. pages = 0
    <3>1. pages \in Nat
      BY DEF StoreInv, TypeOK
    <3>2. T[1] >= pages
      BY <1>0, <1>2 DEF StoreInv, PagesMapped
    <3>3. QED
      BY <1>0, <3>1, <3>2
  <2>2. InitialiseConsPages \/ pages' = pages
    BY <2>1 DEF Next, Construct, ConstructOnNewPage, IncRef, DropRef, FreeCellSlot,
                FreeCellRelease, Exhaust, Exited, vars, store
  <2>3. CASE InitialiseConsPages
    <3>1. tag'[T] = MoreTag[T]
      BY <2>3 DEF InitialiseConsPages
    <3>2. MoreTag[T] = "TRUE"
      BY <1>0, <2>1 DEF MoreTag, OnNewPage
    <3>3. QED
      BY <3>1, <3>2
  <2>4. CASE pages' = pages
    BY <1>0, <2>1, <2>4 DEF StoreInv, PagesMapped
  <2>5. QED
    BY <2>2, <2>3, <2>4
<1>3. QED
  BY <1>1, <1>2

(* The same objects make the same references. *)
LEMMA SameReferences ==
  ASSUME SameObjects(tag', count', child'), at' = at, NEW c
  PROVE  References(c)' = References(c)
<1>1. \A r \in Cell \X Slot : /\ tag[r[1]] \in ObjectTags <=> tag'[r[1]] \in ObjectTags
                              /\ tag[r[1]] \in ObjectTags =>
                                   /\ tag'[r[1]] = tag[r[1]]
                                   /\ child'[r[1]] = child[r[1]]
  BY DEF SameObjects
<1>2. \A r \in Cell \X Slot :
        \/ tag'[r[1]] \notin ObjectTags /\ tag[r[1]] \notin ObjectTags
        \/ tag'[r[1]] = tag[r[1]] /\ child'[r[1]] = child[r[1]]
  BY <1>1
<1>3. QED
  BY <1>2 DEF References

(* A new page, the end of the process and stuttering keep the counts. *)
LEMMA QuietCounts ==
  ASSUME CountInv, StoreInv', SameObjects(tag', count', child'),
         tag'[T] \in {"none", "TRUE"}, UNCHANGED <<freeing, at, held, lost>>
  PROVE  CountInv'
<1>1. \A c \in Cell : References(c)' = References(c)
  BY SameReferences
<1>2. \A c \in Cell : /\ tag'[c] \in ObjectTags <=> tag[c] \in ObjectTags
                      /\ tag[c] \in ObjectTags => count'[c] = count[c]
  BY DEF SameObjects
<1>3. CountsReferences'
  BY <1>1, <1>2 DEF CountInv, CountsReferences
<1>4. Grounded'
  BY <1>1, <1>2 DEF CountInv, Grounded
<1>5. FreeingMarked'
  BY DEF CountInv, FreeingMarked
<1>6. LiveCounted'
  BY <1>2 DEF CountInv, LiveCounted, Live
<1>7. QED
  BY <1>3, <1>4, <1>5, <1>6 DEF CountInv

-----------------------------------------------------------------------------
(* Construction.                                                           *)

(* The references a new object makes: one for each pointer that was copied
   and one for each that was moved.                                        *)
LEMMA BuiltReferences ==
  ASSUME CountInv, NEW fl \in Cell, NEW t, NEW v, Built(fl, t, v), NEW c \in Cell
  PROVE  /\ References(c)' =
              References(c) \cup
                ({fl} \X {s \in Slot : <<t, s>> \in Counted /\ v[s] = c})
         /\ c \notin Pinned =>
              Cardinality(References(c)') =
                Cardinality(References(c)) + Uses(Copied, t, v, c) + Uses(Moved, t, v, c)
<1> DEFINE A == {s \in Slot : <<t, s>> \in Copied /\ v[s] = c}
           B == {s \in Slot : <<t, s>> \in Moved /\ v[s] = c}
           U == {s \in Slot : <<t, s>> \in Counted /\ v[s] = c}
           R == References(c)
           N == {fl} \X U
<1>0. /\ t \in ObjectTags /\ tag'[fl] = t /\ child'[fl] = v /\ tag[fl] \notin ObjectTags
      /\ Arguments(t, v) /\ freeing = <<>> /\ at' = at
  BY DEF Built, Idle
<1>1. at[fl] = 0
  BY <1>0, NothingMarked DEF CountInv, StoreInv
<1>2. \A d \in Cell \ {fl} :
        \/ tag'[d] \notin ObjectTags /\ tag[d] \notin ObjectTags
        \/ tag'[d] = tag[d] /\ child'[d] = child[d]
  BY DEF Built
<1>3. References(c)' = R \cup N
  <2>1. \A r \in Cell \X Slot : r[1] # fl => (r \in References(c)' <=> r \in R)
    BY <1>0, <1>2 DEF References
  <2>2. \A s \in Slot : /\ <<fl, s>> \in References(c)' <=> s \in U
                        /\ <<fl, s>> \notin R
    BY <1>0, <1>1 DEF References, Slot
  <2>3. \A r \in Cell \X Slot : r[1] = fl => r = <<fl, r[2]>> /\ r[2] \in Slot
    OBVIOUS
  <2>4. /\ References(c)' \subseteq Cell \X Slot /\ R \subseteq Cell \X Slot
        /\ N \subseteq Cell \X Slot
    BY DEF References
  <2>5. \A r \in N : r[1] = fl /\ r[2] \in U
    OBVIOUS
  <2>6. \A r \in Cell \X Slot : r[1] = fl /\ r[2] \in U => r \in N
    OBVIOUS
  <2> HIDE DEF R, N, U
  <2>7. \A r \in Cell \X Slot : r \in References(c)' <=> r \in R \cup N
    BY <2>1, <2>2, <2>3, <2>5, <2>6
  <2>8. QED
    BY <2>4, <2>7
<1>4. ASSUME c \notin Pinned
      PROVE  Cardinality(R \cup N) =
               Cardinality(R) + Uses(Copied, t, v, c) + Uses(Moved, t, v, c)
  <2>1. U = A \cup B
    <3>1. \A s \in Slot : <<t, s>> \notin Copied \cup Moved => v[s] = NIL
      BY <1>0 DEF Arguments
    <3>2. c # NIL
      BY <1>4 DEF Pinned
    <3>3. QED
      BY <3>1, <3>2, CountedFacts
  <2>2. A \cap B = {}
    BY CountedFacts
  <2>3. IsFiniteSet(Slot)
    BY FS_Interval DEF Slot
  <2>4. IsFiniteSet(A) /\ IsFiniteSet(B) /\ IsFiniteSet(U)
    BY <2>3, FS_Subset
  <2>5. Cardinality(A) \in Nat /\ Cardinality(B) \in Nat
    BY <2>4, FS_CardinalityType
  <2>6. Cardinality(U) = Cardinality(A) + Cardinality(B)
    <3>1. Cardinality(A \cup B) = Cardinality(A) + Cardinality(B) - Cardinality(A \cap B)
      BY <2>4, FS_Union
    <3>2. Cardinality(A \cap B) = 0
      BY <2>2, FS_EmptySet
    <3> HIDE DEF A, B, U
    <3>3. QED
      BY <2>1, <2>5, <3>1, <3>2
  <2>7. IsFiniteSet(N) /\ Cardinality(N) = Cardinality(U)
    <3>1. IsFiniteSet({fl}) /\ Cardinality({fl}) = 1
      BY FS_Singleton
    <3>2. IsFiniteSet(N) /\ Cardinality(N) = 1 * Cardinality(U)
      BY <2>4, <3>1, FS_Product
    <3> HIDE DEF A, B, U, N
    <3>3. QED
      BY <2>5, <2>6, <3>2
  <2>8. R \cap N = {}
    BY <1>0 DEF References
  <2>9. IsFiniteSet(R) /\ Cardinality(R) \in Nat
    BY ReferencesFinite
  <2>10. Cardinality(R \cup N) = Cardinality(R) + Cardinality(N)
    <3>1. Cardinality(R \cup N) = Cardinality(R) + Cardinality(N) - Cardinality(R \cap N)
      BY <2>7, <2>9, FS_Union
    <3>2. Cardinality(R \cap N) = 0
      BY <2>8, FS_EmptySet
    <3> HIDE DEF A, B, U, N, R
    <3>3. QED
      BY <2>5, <2>6, <2>7, <2>9, <3>1, <3>2
  <2>11. Uses(Copied, t, v, c) = Cardinality(A) /\ Uses(Moved, t, v, c) = Cardinality(B)
    BY DEF Uses
  <2> HIDE DEF A, B, U, N, R
  <2>12. QED
    BY <2>5, <2>6, <2>7, <2>9, <2>10, <2>11
<1>5. QED
  BY <1>3, <1>4

(* A constructor: the new object has one reference, the caller's; each copied
   pointer has one reference and one count more; each moved pointer has the
   same count, its reference being the object's now.                       *)
LEMMA BuiltCounts ==
  ASSUME CountInv, StoreInv', tag'[T] \in {"none", "TRUE"},
         NEW fl \in Cell, NEW t, NEW v, Built(fl, t, v)
  PROVE  CountInv'
<1>0. /\ t \in ObjectTags /\ tag'[fl] = t /\ count'[fl] = 1 /\ held'[fl] = 1
      /\ tag[fl] \notin ObjectTags /\ fl \notin Pinned
      /\ UNCHANGED <<freeing, at, lost>> /\ Arguments(t, v)
      /\ \A s \in Slot : v[s] # fl /\ (v[s] \in Pinned \/ tag[v[s]] \in ObjectTags)
  BY DEF Built
<1>1. /\ count \in [Cell -> 0 .. MaxRef] /\ held \in [Cell -> Nat]
      /\ lost \in [Cell -> Nat]
  BY DEF CountInv, StoreInv, TypeOK
<1>2. \A c \in Cell \ {fl} :
        /\ tag[c] \in ObjectTags =>
             /\ tag'[c] = tag[c]
             /\ count'[c] = Capped(count[c] + Uses(Copied, t, v, c))
        /\ tag'[c] \in ObjectTags => tag[c] \in ObjectTags
        /\ held'[c] = IF c \in Pinned THEN held[c] ELSE held[c] - Uses(Moved, t, v, c)
  BY DEF Built
<1>3. \A c \in Cell : Uses(Copied, t, v, c) \in Nat /\ Uses(Moved, t, v, c) \in Nat
  BY UsesNat
<1>a. \A c \in Cell : /\ lost[c] > 0 => tag[c] \in ObjectTags
                      /\ tag[c] \in ObjectTags /\ at[c] = 0 => count[c] > 0
  BY DEF CountInv, LiveCounted, Live
<1>b. lost' = lost /\ at' = at /\ freeing' = freeing
  BY <1>0
<1>4. CountsReferences'
  <2> SUFFICES ASSUME NEW c \in Cell, tag'[c] \in ObjectTags, count'[c] < MaxRef
               PROVE  count'[c] = Cardinality(References(c)') + held'[c] + lost'[c]
    BY DEF CountsReferences
  <2>1. CASE c = fl
    <3>1. References(fl) = {}
      BY <1>0 DEF CountInv, Grounded
    <3>2. {s \in Slot : <<t, s>> \in Counted /\ v[s] = fl} = {}
      BY <1>0
    <3>3. {fl} \X {s \in Slot : <<t, s>> \in Counted /\ v[s] = fl} = {}
      BY <3>2
    <3>4. References(fl)' = {}
      <4>1. References(fl)' =
              References(fl) \cup ({fl} \X {s \in Slot : <<t, s>> \in Counted /\ v[s] = fl})
        BY BuiltReferences
      <4>2. QED
        BY <3>1, <3>3, <4>1
    <3>5. Cardinality(References(fl)') = 0
      BY <3>4, FS_EmptySet
    <3>6. lost'[fl] = 0
      BY <1>0, <1>1, <1>a, <1>b
    <3>7. QED
      BY <1>0, <2>1, <3>5, <3>6
  <2>2. CASE c # fl
    <3>1. tag[c] \in ObjectTags /\ c \notin Pinned
      BY <1>2, <2>2, PinnedNoObject
    <3> DEFINE n == Cardinality(References(c))
               m == Cardinality(References(c)')
               a == Uses(Copied, t, v, c)
               b == Uses(Moved, t, v, c)
    <3>2. m = n + a + b
      BY <3>1, BuiltReferences
    <3>3. held'[c] = held[c] - b /\ count'[c] = Capped(count[c] + a)
      BY <1>2, <2>2, <3>1
    <3>4. n \in Nat /\ a \in Nat /\ b \in Nat
      BY <1>3, ReferencesFinite
    <3>5. count[c] < MaxRef => count[c] = n + held[c] + lost[c]
      BY <3>1 DEF CountInv, CountsReferences
    <3>6. count[c] \in 0 .. MaxRef /\ held[c] \in Nat /\ lost[c] \in Nat
      BY <1>1
    <3>7. lost'[c] = lost[c]
      BY <1>0
    <3> HIDE DEF n, m, a, b
    <3>8. count'[c] = count[c] + a /\ count[c] < MaxRef
      BY <3>3, <3>4, <3>6 DEF Capped
    <3>9. count'[c] = m + held'[c] + lost'[c]
      BY <3>2, <3>3, <3>4, <3>5, <3>6, <3>7, <3>8
    <3>10. QED
      BY <3>9 DEF m
  <2>3. QED
    BY <2>1, <2>2
<1>5. Grounded'
  <2> SUFFICES ASSUME NEW c \in Cell
               PROVE  /\ References(c)' # {} => c \in Pinned \/ tag'[c] \in ObjectTags
                      /\ held'[c] > 0 => tag'[c] \in ObjectTags
    BY DEF Grounded
  <2>1. CASE c = fl
    BY <1>0, <2>1
  <2>2. CASE c # fl
    <3>1. held'[c] > 0 => held[c] > 0
      <4>1. held[c] \in Nat /\ Uses(Moved, t, v, c) \in Nat
        BY <1>1, <1>3
      <4>2. held'[c] = held[c] \/ held'[c] = held[c] - Uses(Moved, t, v, c)
        BY <1>2, <2>2
      <4>3. QED
        BY <4>1, <4>2
    <3>2. References(c)' # {} =>
            References(c) # {} \/ \E s \in Slot : v[s] = c
      <4>1. References(c)' =
              References(c) \cup ({fl} \X {s \in Slot : <<t, s>> \in Counted /\ v[s] = c})
        BY BuiltReferences
      <4>2. QED
        BY <4>1
    <3>3. /\ References(c) # {} => c \in Pinned \/ tag[c] \in ObjectTags
          /\ held[c] > 0 => tag[c] \in ObjectTags
      BY DEF CountInv, Grounded
    <3>4. QED
      BY <1>0, <1>2, <2>2, <3>1, <3>2, <3>3
  <2>3. QED
    BY <2>1, <2>2
<1>6. FreeingMarked'
  BY <1>0 DEF CountInv, FreeingMarked
<1>7. LiveCounted'
  <2> SUFFICES ASSUME NEW c \in Cell
               PROVE  /\ tag'[c] \in ObjectTags /\ at'[c] = 0 => count'[c] > 0
                      /\ lost'[c] > 0 => tag'[c] \in ObjectTags
    BY DEF LiveCounted, Live
  <2>1. CASE c = fl
    BY <1>0, <2>1
  <2>2. CASE c # fl
    <3>1. lost'[c] > 0 => tag'[c] \in ObjectTags
      BY <1>a, <1>b, <1>2, <2>2
    <3>2. ASSUME tag'[c] \in ObjectTags, at'[c] = 0
          PROVE  count'[c] > 0
      <4>1. count[c] > 0 /\ count[c] \in 0 .. MaxRef
        BY <1>1, <1>2, <1>a, <1>b, <2>2, <3>2
      <4>2. count'[c] = Capped(count[c] + Uses(Copied, t, v, c))
        BY <1>2, <2>2, <3>2
      <4>3. Uses(Copied, t, v, c) \in Nat
        BY <1>3
      <4>4. QED
        BY <4>1, <4>2, <4>3 DEF Capped
    <3>3. QED
      BY <3>1, <3>2
  <2>3. QED
    BY <2>1, <2>2
<1>8. QED
  BY <1>4, <1>5, <1>6, <1>7 DEF CountInv

-----------------------------------------------------------------------------
(* dec_ref.                                                                *)

(* The references to c when the activations of free_cell are at `where'. *)
RefsAt(c, where) ==
  {r \in Cell \X Slot : /\ tag[r[1]] \in ObjectTags
                        /\ <<tag[r[1]], r[2]>> \in Counted
                        /\ r[2] >= where[r[1]]
                        /\ child[r[1]][r[2]] = c}

(* What dec_ref does, as its callers see it: nothing, to a count that stays;
   or it decrements, and begins to free a cell whose count has become zero. *)
LEMMA DecRefEffect ==
  ASSUME CountInv, NEW k \in Cell, NEW where \in [Cell -> 0 .. NSlots + 1],
         DecRef(k, where), where[k] > 0 <=> at[k] > 0
  PROVE  \/ /\ count[k] \in {0, MaxRef}
            /\ count' = count /\ freeing' = freeing /\ at' = where
         \/ /\ count[k] \notin {0, MaxRef}
            /\ count' = [count EXCEPT ![k] = count[k] - 1]
            /\ \/ freeing' = freeing /\ at' = where /\ (count[k] # 1 \/ tag[k] = "FREE")
               \/ /\ freeing' = <<k>> \o freeing /\ at' = [where EXCEPT ![k] = 1]
                  /\ where[k] = 0 /\ tag[k] # "FREE" /\ count[k] = 1
<1>1. CASE count[k] \in {0, MaxRef}
  BY <1>1 DEF DecRef
<1>2. CASE count[k] \notin {0, MaxRef}
  <2>1. ~ \E i \in 1 .. Len(freeing) : freeing[i] = k
    BY <1>2 DEF CountInv, StoreInv, StackSound
  <2>2. ~(where[k] > 0)
    BY <2>1 DEF CountInv, FreeingMarked
  <2>3. where[k] = 0
    BY <2>2
  <2>4. QED
    BY <1>2, <2>3 DEF DecRef, FreeCell
<1>3. QED
  BY <1>1, <1>2

(* The cells dec_ref begins to free drop nothing yet. *)
LEMMA DecRefReferences ==
  ASSUME CountInv, NEW k \in Cell, NEW where \in [Cell -> 0 .. NSlots + 1],
         DecRef(k, where), where[k] > 0 <=> at[k] > 0, UNCHANGED <<tag, child>>,
         NEW c
  PROVE  References(c)' = RefsAt(c, where)
<1>1. at' = where \/ (at' = [where EXCEPT ![k] = 1] /\ where[k] = 0)
  BY DecRefEffect
<1>2. \A r \in Cell \X Slot : r[2] >= at'[r[1]] <=> r[2] >= where[r[1]]
  <2> TAKE r \in Cell \X Slot
  <2>1. r[1] \in Cell /\ r[2] \in Slot
    OBVIOUS
  <2>2. CASE at' = where
    BY <2>2
  <2>3. CASE at' = [where EXCEPT ![k] = 1] /\ where[k] = 0
    <3>1. r[1] # k => at'[r[1]] = where[r[1]]
      BY <2>1, <2>3
    <3>2. r[1] = k => at'[r[1]] = 1 /\ where[r[1]] = 0
      BY <2>1, <2>3
    <3>3. QED
      BY <2>1, <3>1, <3>2 DEF Slot
  <2>4. QED
    BY <1>1, <2>2, <2>3
<1>3. QED
  BY <1>2 DEF References, RefsAt

(* One reference to k is gone: one that the caller held, or one from the
   cell that is being freed.                                               *)
OneLess(k, where) ==
  \A d \in Cell :
    /\ RefsAt(d, where) \subseteq References(d) /\ held'[d] <= held[d]
    /\ Cardinality(RefsAt(d, where)) + held'[d] =
         Cardinality(References(d)) + held[d] - (IF d = k THEN 1 ELSE 0)

LEMMA DecRefCounts ==
  ASSUME CountInv, StoreInv', UNCHANGED <<tag, child, lost>>,
         NEW k \in Cell, k \in Pinned \/ tag[k] \in ObjectTags,
         NEW where \in [Cell -> 0 .. NSlots + 1],
         \A d \in Cell : where[d] > 0 <=> at[d] > 0,
         DecRef(k, where), OneLess(k, where)
  PROVE  CountInv'
<1>1. /\ count \in [Cell -> 0 .. MaxRef] /\ held \in [Cell -> Nat] /\ lost \in [Cell -> Nat]
      /\ at \in [Cell -> 0 .. NSlots + 1] /\ freeing \in Seq(Cell)
  BY DEF CountInv, StoreInv, TypeOK
<1>2. held' \in [Cell -> Nat]
  BY DEF StoreInv, TypeOK
<1>3. \/ /\ count[k] \in {0, MaxRef}
         /\ count' = count /\ freeing' = freeing /\ at' = where
      \/ /\ count[k] \notin {0, MaxRef}
         /\ count' = [count EXCEPT ![k] = count[k] - 1]
         /\ \/ freeing' = freeing /\ at' = where /\ (count[k] # 1 \/ tag[k] = "FREE")
            \/ /\ freeing' = <<k>> \o freeing /\ at' = [where EXCEPT ![k] = 1]
               /\ where[k] = 0 /\ tag[k] # "FREE" /\ count[k] = 1
  BY DecRefEffect
<1>4. \A c : References(c)' = RefsAt(c, where)
  BY DecRefReferences
<1>5. CountsReferences'
  <2> SUFFICES ASSUME NEW c \in Cell, tag[c] \in ObjectTags, count'[c] < MaxRef
               PROVE  count'[c] = Cardinality(References(c)') + held'[c] + lost[c]
    BY DEF CountsReferences
  <2> DEFINE n == Cardinality(References(c))
             m == Cardinality(References(c)')
  <2>1. n \in Nat
    BY ReferencesFinite
  <2>2. m + held'[c] = n + held[c] - (IF c = k THEN 1 ELSE 0)
    BY <1>4 DEF OneLess
  <2>3. m \in Nat
    BY <1>4, SitesFinite DEF RefsAt
  <2>4. count[c] < MaxRef => count[c] = n + held[c] + lost[c]
    BY DEF CountInv, CountsReferences
  <2>5. count[c] \in 0 .. MaxRef /\ held[c] \in Nat /\ lost[c] \in Nat /\ held'[c] \in Nat
    BY <1>1, <1>2
  <2> HIDE DEF n, m
  <2>6. count'[c] = count[c] - (IF c = k THEN 1 ELSE 0) /\ count[c] < MaxRef
    <3>1. c # k => count'[c] = count[c]
      BY <1>1, <1>3
    <3>2. ASSUME c = k, count[k] \in {0, MaxRef} PROVE FALSE
      <4>1. count'[c] = count[c] /\ count[c] = 0
        BY <1>1, <1>3, <3>2
      <4>2. n + held[c] + lost[c] = 0
        BY <1>1, <2>4, <4>1
      <4>3. QED
        BY <2>1, <2>2, <2>3, <2>5, <3>2, <4>2
    <3>3. c = k /\ count[k] \notin {0, MaxRef} =>
            count'[c] = count[c] - 1 /\ count[c] < MaxRef
      BY <1>1, <1>3
    <3>4. CASE c = k
      BY <3>2, <3>3, <3>4
    <3>5. CASE c # k
      BY <2>5, <3>1, <3>5
    <3>6. QED
      BY <3>4, <3>5
  <2>7. count'[c] = m + held'[c] + lost[c]
    BY <2>1, <2>2, <2>3, <2>4, <2>5, <2>6
  <2>8. QED
    BY <2>7 DEF m
<1>6. Grounded'
  <2>1. \A c \in Cell : References(c)' \subseteq References(c) /\ held'[c] <= held[c]
    BY <1>4 DEF OneLess
  <2>2. \A c \in Cell : held'[c] > 0 => held[c] > 0
    BY <1>1, <1>2, <2>1
  <2>3. QED
    BY <2>1, <2>2 DEF CountInv, Grounded
<1>7. FreeingMarked'
  <2>1. CASE at' = where /\ freeing' = freeing
    BY <2>1 DEF CountInv, FreeingMarked
  <2>2. CASE at' = [where EXCEPT ![k] = 1] /\ freeing' = <<k>> \o freeing
    <3>1. /\ Len(freeing') = Len(freeing) + 1 /\ freeing'[1] = k
          /\ \A i \in 1 .. Len(freeing) : freeing'[i + 1] = freeing[i]
          /\ Len(freeing) \in Nat
      BY <1>1, <2>2
    <3>2. ASSUME NEW i \in 2 .. Len(freeing')
          PROVE  i - 1 \in 1 .. Len(freeing) /\ freeing'[i] = freeing[i - 1]
      <4>1. i - 1 \in 1 .. Len(freeing) /\ (i - 1) + 1 = i
        BY <3>1
      <4>2. freeing'[(i - 1) + 1] = freeing[i - 1]
        BY <3>1, <4>1
      <4>3. QED
        BY <4>1, <4>2
    <3>3. ASSUME NEW c \in Cell
          PROVE  at'[c] > 0 <=> \E i \in 1 .. Len(freeing') : freeing'[i] = c
      <4>1. CASE c = k
        BY <2>2, <3>1, <4>1
      <4>2. CASE c # k
        <5>1. at'[c] > 0 <=> \E i \in 1 .. Len(freeing) : freeing[i] = c
          BY <2>2, <4>2 DEF CountInv, FreeingMarked
        <5>2. (\E i \in 1 .. Len(freeing) : freeing[i] = c) =>
                \E i \in 1 .. Len(freeing') : freeing'[i] = c
          <6> SUFFICES ASSUME NEW i \in 1 .. Len(freeing), freeing[i] = c
                       PROVE  \E j \in 1 .. Len(freeing') : freeing'[j] = c
            OBVIOUS
          <6>1. i + 1 \in 1 .. Len(freeing') /\ freeing'[i + 1] = c
            BY <3>1
          <6>2. QED
            BY <6>1
        <5>3. (\E i \in 1 .. Len(freeing') : freeing'[i] = c) =>
                \E i \in 1 .. Len(freeing) : freeing[i] = c
          <6> SUFFICES ASSUME NEW i \in 1 .. Len(freeing'), freeing'[i] = c
                       PROVE  \E j \in 1 .. Len(freeing) : freeing[j] = c
            OBVIOUS
          <6>1. i \in 2 .. Len(freeing')
            BY <3>1, <4>2
          <6>2. QED
            BY <3>2, <6>1
        <5>4. QED
          BY <5>1, <5>2, <5>3
      <4>3. QED
        BY <4>1, <4>2
    <3>4. QED
      BY <3>3 DEF FreeingMarked
  <2>3. QED
    BY <1>3, <2>1, <2>2
<1>8. LiveCounted'
  <2>1. \A c \in Cell : lost'[c] > 0 => tag'[c] \in ObjectTags
    BY DEF CountInv, LiveCounted
  <2>2. ASSUME NEW c \in Cell, tag'[c] \in ObjectTags, at'[c] = 0
        PROVE  count'[c] > 0
    <3>1. where[c] = 0
      BY <1>1, <1>3, <2>2
    <3>2. at[c] = 0 /\ tag[c] \in ObjectTags
      BY <1>1, <2>2, <3>1
    <3>3. count[c] > 0 /\ count[c] \in 0 .. MaxRef
      BY <1>1, <3>2 DEF CountInv, LiveCounted, Live
    <3>4. CASE c # k
      BY <1>1, <1>3, <3>3, <3>4
    <3>5. CASE c = k
      <4>1. tag[k] # "FREE"
        BY <3>2, <3>5 DEF ObjectTags
      <4>2. count[k] \notin {0, MaxRef} => count[k] # 1
        BY <1>3, <2>2, <3>5, <4>1
      <4>3. QED
        BY <1>1, <1>3, <3>3, <3>5, <4>2
    <3>6. QED
      BY <3>4, <3>5
  <2>3. QED
    BY <2>1, <2>2 DEF LiveCounted, Live
<1>9. tag'[T] \in {"none", "TRUE"}
  BY DEF CountInv
<1>10. QED
  BY <1>5, <1>6, <1>7, <1>8, <1>9 DEF CountInv

-----------------------------------------------------------------------------
(* The actions that take and drop references, and free cells.              *)

LEMMA IncRefCounts ==
  ASSUME CountInv, StoreInv', NEW c \in Cell, IncRef(c)
  PROVE  CountInv'
<1>1. /\ Idle /\ Accessible(c) /\ c \notin Pinned
      /\ count' = [count EXCEPT ![c] = IF @ < MaxRef THEN @ + 1 ELSE @]
      /\ held' = [held EXCEPT ![c] = @ + 1]
      /\ UNCHANGED <<tag, child, freeing, at, lost>>
  BY DEF IncRef, history
<1>2. /\ count \in [Cell -> 0 .. MaxRef] /\ held \in [Cell -> Nat] /\ lost \in [Cell -> Nat]
  BY DEF CountInv, StoreInv, TypeOK
<1>3. tag[c] \in ObjectTags
  BY <1>1, AccessibleObject DEF Idle
<1>4. \A d : References(d)' = References(d)
  BY <1>1 DEF References
<1>5. CountsReferences'
  <2> SUFFICES ASSUME NEW d \in Cell, tag[d] \in ObjectTags, count'[d] < MaxRef
               PROVE  count'[d] = Cardinality(References(d)) + held'[d] + lost[d]
    BY <1>1, <1>4 DEF CountsReferences
  <2> DEFINE n == Cardinality(References(d))
  <2>1. n \in Nat
    BY ReferencesFinite
  <2>2. count[d] < MaxRef => count[d] = n + held[d] + lost[d]
    BY DEF CountInv, CountsReferences
  <2> HIDE DEF n
  <2>3. CASE d = c
    <3>1. count[c] < MaxRef /\ count'[c] = count[c] + 1 /\ held'[c] = held[c] + 1
      BY <1>1, <1>2, <2>3
    <3>2. count'[d] = n + held'[d] + lost[d]
      BY <1>2, <2>1, <2>2, <2>3, <3>1
    <3>3. QED
      BY <3>2 DEF n
  <2>4. CASE d # c
    <3>1. count'[d] = count[d] /\ held'[d] = held[d]
      BY <1>1, <1>2, <2>4
    <3>2. QED
      BY <2>2, <3>1 DEF n
  <2>5. QED
    BY <2>3, <2>4
<1>6. Grounded'
  <2>1. \A d \in Cell : held'[d] > 0 => held[d] > 0 \/ d = c
    BY <1>1, <1>2
  <2>2. QED
    BY <1>1, <1>3, <1>4, <2>1 DEF CountInv, Grounded
<1>7. FreeingMarked'
  BY <1>1 DEF CountInv, FreeingMarked
<1>8. LiveCounted'
  <2>1. \A d \in Cell : count[d] > 0 => count'[d] > 0
    BY <1>1, <1>2
  <2>2. QED
    BY <1>1, <2>1 DEF CountInv, LiveCounted, Live
<1>9. tag'[T] \in {"none", "TRUE"}
  BY <1>1 DEF CountInv
<1>10. QED
  BY <1>5, <1>6, <1>7, <1>8, <1>9 DEF CountInv

LEMMA DropRefCounts ==
  ASSUME CountInv, StoreInv', NEW c \in Cell, DropRef(c)
  PROVE  CountInv'
<1>1. /\ Idle /\ held[c] > 0 /\ held' = [held EXCEPT ![c] = @ - 1] /\ DecRef(c, at)
      /\ UNCHANGED <<tag, child, lost>>
  BY DEF DropRef, history
<1>2. held \in [Cell -> Nat] /\ at \in [Cell -> 0 .. NSlots + 1]
  BY DEF CountInv, StoreInv, TypeOK
<1>3. c \in Pinned \/ tag[c] \in ObjectTags
  BY <1>1 DEF CountInv, Grounded
<1>4. OneLess(c, at)
  <2> SUFFICES ASSUME NEW d \in Cell
               PROVE  /\ RefsAt(d, at) \subseteq References(d) /\ held'[d] <= held[d]
                      /\ Cardinality(RefsAt(d, at)) + held'[d] =
                           Cardinality(References(d)) + held[d] - (IF d = c THEN 1 ELSE 0)
    BY DEF OneLess
  <2>1. RefsAt(d, at) = References(d)
    BY DEF RefsAt, References
  <2> DEFINE n == Cardinality(References(d))
  <2>2. n \in Nat
    BY ReferencesFinite
  <2>3. /\ held[d] \in Nat
        /\ held'[d] = held[d] - (IF d = c THEN 1 ELSE 0)
    BY <1>1, <1>2
  <2> HIDE DEF n
  <2>4. n + held'[d] = n + held[d] - (IF d = c THEN 1 ELSE 0) /\ held'[d] <= held[d]
    BY <2>2, <2>3
  <2>5. QED
    BY <2>1, <2>4 DEF n
<1>5. \A d \in Cell : at[d] > 0 <=> at[d] > 0
  OBVIOUS
<1>6. QED
  BY <1>1, <1>2, <1>3, <1>4, <1>5, DecRefCounts

(* The cell on top of the stack is an object with a count of zero. *)
LEMMA TopFacts ==
  ASSUME CountInv, freeing # <<>>
  PROVE  /\ Head(freeing) \in Cell /\ Head(freeing) \notin Pinned
         /\ tag[Head(freeing)] \in ObjectTags /\ count[Head(freeing)] = 0
         /\ at[Head(freeing)] \in 1 .. NSlots + 1
         /\ References(Head(freeing)) = {}
         /\ held[Head(freeing)] = 0 /\ lost[Head(freeing)] = 0
<1> DEFINE c == Head(freeing)
<1>0. freeing \in Seq(Cell)
  BY DEF CountInv, StoreInv, TypeOK
<1>1. c = freeing[1] /\ 1 \in 1 .. Len(freeing) /\ c \in Cell
  BY <1>0
<1>2. tag[c] \in ObjectTags /\ count[c] = 0
  BY <1>1 DEF CountInv, StoreInv, StackSound
<1>3. c \notin Pinned
  BY <1>2, PinnedNoObject
<1>4. at[c] \in 1 .. NSlots + 1
  <2>1. at[c] > 0
    BY <1>1 DEF CountInv, FreeingMarked
  <2>2. at[c] \in 0 .. NSlots + 1
    BY <1>1 DEF CountInv, StoreInv, TypeOK
  <2> HIDE DEF c
  <2>3. QED
    BY <2>1, <2>2
<1> HIDE DEF c
<1>5. References(c) = {} /\ held[c] = 0 /\ lost[c] = 0
  <2> DEFINE n == Cardinality(References(c))
  <2>1. 0 = n + held[c] + lost[c]
    BY <1>1, <1>2 DEF CountInv, CountsReferences
  <2>2. n \in Nat /\ (n = 0 => References(c) = {})
    BY ReferencesFinite
  <2>3. held[c] \in Nat /\ lost[c] \in Nat
    BY <1>1 DEF CountInv, StoreInv, TypeOK
  <2> HIDE DEF n
  <2>4. n = 0 /\ held[c] = 0 /\ lost[c] = 0
    BY <2>1, <2>2, <2>3
  <2>5. QED
    BY <2>2, <2>4
<1>6. QED
  BY <1>1, <1>2, <1>3, <1>4, <1>5 DEF c

(* free_cell goes past one slot: the reference from there is gone. *)
LEMMA SlotPassed ==
  ASSUME CountInv, freeing # <<>>, NEW c, c = Head(freeing), NEW s, s = at[c],
         s <= NSlots, NEW d
  PROVE  RefsAt(d, [at EXCEPT ![c] = s + 1]) =
           IF <<tag[c], s>> \in Counted /\ child[c][s] = d
           THEN References(d) \ {<<c, s>>} ELSE References(d)
<1> DEFINE on == [at EXCEPT ![c] = s + 1]
<1>1. c \in Cell /\ s \in 1 .. NSlots + 1 /\ tag[c] \in ObjectTags
  BY TopFacts
<1>2. s \in Slot /\ at \in [Cell -> 0 .. NSlots + 1]
  <2>1. at \in [Cell -> 0 .. NSlots + 1]
    BY DEF CountInv, StoreInv, TypeOK
  <2>2. s \in Slot
    BY <1>1 DEF Slot
  <2>3. QED
    BY <2>1, <2>2
<1>3. ASSUME NEW r \in Cell \X Slot, r # <<c, s>>
      PROVE  r[2] >= on[r[1]] <=> r[2] >= at[r[1]]
  <2>0. r[1] \in Cell /\ r[2] \in Slot /\ r = <<r[1], r[2]>>
    OBVIOUS
  <2>1. CASE r[1] = c
    <3>1. on[r[1]] = s + 1 /\ at[r[1]] = s /\ r[2] # s
      BY <1>1, <1>2, <1>3, <2>0, <2>1
    <3>2. QED
      BY <1>2, <2>0, <3>1 DEF Slot
  <2>2. CASE r[1] # c
    BY <1>1, <1>2, <2>0, <2>2
  <2>3. QED
    BY <2>1, <2>2
<1>4. <<c, s>> \notin RefsAt(d, on)
  <2>1. on[c] = s + 1 /\ ~(s >= s + 1)
    BY <1>1, <1>2
  <2>2. QED
    BY <2>1 DEF RefsAt
<1>5. <<c, s>> \in References(d) <=> <<tag[c], s>> \in Counted /\ child[c][s] = d
  BY <1>1, <1>2 DEF References
<1> HIDE DEF on
<1>6. \A r \in Cell \X Slot : r \in RefsAt(d, on) <=> r \in References(d) /\ r # <<c, s>>
  BY <1>3, <1>4 DEF RefsAt, References
<1>7. RefsAt(d, on) \subseteq Cell \X Slot /\ References(d) \subseteq Cell \X Slot
  BY DEF RefsAt, References
<1>8. RefsAt(d, on) = References(d) \ {<<c, s>>}
  BY <1>6, <1>7
<1>9. QED
  BY <1>5, <1>8 DEF on

(* free_cell, the switch: a reference that the object had counted is dropped
   by dec_ref, or lost when free_cell has no case for it.                  *)
LEMMA FreeCellSlotCounts ==
  ASSUME CountInv, StoreInv', FreeCellSlot
  PROVE  CountInv'
<1> DEFINE c  == Head(freeing)
           s  == at[c]
           k  == child[c][s]
           on == [at EXCEPT ![c] = s + 1]
<1>1. /\ freeing # <<>> /\ s <= NSlots
      /\ IF <<tag[c], s>> \in Dropped
         THEN DecRef(k, on) /\ lost' = lost
         ELSE /\ at' = on /\ UNCHANGED <<count, freeing>>
              /\ lost' = IF <<tag[c], s>> \in Counted /\ count[k] # MaxRef
                         THEN [lost EXCEPT ![k] = @ + 1] ELSE lost
      /\ UNCHANGED <<tag, child, held>>
  BY DEF FreeCellSlot
<1>2. c \in Cell /\ s \in 1 .. NSlots + 1 /\ tag[c] \in ObjectTags /\ References(c) = {}
  BY <1>1, TopFacts
<1>3. /\ at \in [Cell -> 0 .. NSlots + 1] /\ child \in [Cell -> [Slot -> Cell]]
      /\ held \in [Cell -> Nat] /\ lost \in [Cell -> Nat] /\ count \in [Cell -> 0 .. MaxRef]
  BY DEF CountInv, StoreInv, TypeOK
<1>4. s \in Slot
  BY <1>1, <1>2 DEF Slot
<1>5. k \in Cell
  BY <1>2, <1>3, <1>4
<1>6. \A d : RefsAt(d, on) = IF <<tag[c], s>> \in Counted /\ k = d
                            THEN References(d) \ {<<c, s>>} ELSE References(d)
  BY <1>1, SlotPassed
<1>7. on \in [Cell -> 0 .. NSlots + 1] /\ \A d \in Cell : on[d] > 0 <=> at[d] > 0
  <2>1. s + 1 \in 0 .. NSlots + 1 /\ s + 1 > 0 /\ at[c] > 0
    BY <1>2, <1>4 DEF Slot
  <2> HIDE DEF c, s
  <2>2. QED
    BY <1>2, <1>3, <2>1 DEF s
<1> HIDE DEF c, s, k, on
<1>8. ASSUME <<tag[c], s>> \in Counted
      PROVE  /\ <<c, s>> \in References(k)
             /\ k \in Pinned \/ tag[k] \in ObjectTags
             /\ \A d \in Cell : Cardinality(RefsAt(d, on)) =
                               Cardinality(References(d)) - (IF d = k THEN 1 ELSE 0)
  <2>1. <<c, s>> \in References(k)
    BY <1>2, <1>4, <1>8 DEF References, s, k
  <2>2. k \in Pinned \/ tag[k] \in ObjectTags
    BY <1>5, <2>1 DEF CountInv, Grounded
  <2>3. ASSUME NEW d \in Cell
        PROVE  Cardinality(RefsAt(d, on)) =
                 Cardinality(References(d)) - (IF d = k THEN 1 ELSE 0)
    <3>1. Cardinality(References(d)) \in Nat /\ IsFiniteSet(References(d))
      BY ReferencesFinite
    <3>2. CASE d = k
      <4>1. RefsAt(d, on) = References(d) \ {<<c, s>>}
        BY <1>6, <1>8, <3>2
      <4>2. Cardinality(References(d) \ {<<c, s>>}) = Cardinality(References(d)) - 1
        BY <2>1, <3>1, <3>2, FS_RemoveElement
      <4>3. QED
        BY <3>2, <4>1, <4>2
    <3>3. CASE d # k
      BY <1>6, <3>1, <3>3
    <3>4. QED
      BY <3>2, <3>3
  <2>4. QED
    BY <2>1, <2>2, <2>3
<1>9. CASE <<tag[c], s>> \in Dropped
  <2>1. DecRef(k, on) /\ <<tag[c], s>> \in Counted /\ UNCHANGED <<tag, child, lost>>
    BY <1>1, <1>9, CountedFacts DEF c, s, k, on
  <2>2. OneLess(k, on)
    <3> SUFFICES ASSUME NEW d \in Cell
                 PROVE  /\ RefsAt(d, on) \subseteq References(d) /\ held'[d] <= held[d]
                        /\ Cardinality(RefsAt(d, on)) + held'[d] =
                             Cardinality(References(d)) + held[d] - (IF d = k THEN 1 ELSE 0)
      BY DEF OneLess
    <3>1. RefsAt(d, on) \subseteq References(d)
      BY <1>6
    <3> DEFINE n == Cardinality(References(d))
               m == Cardinality(RefsAt(d, on))
    <3>2. n \in Nat /\ held[d] \in Nat /\ held'[d] = held[d]
      BY <1>1, <1>3, ReferencesFinite
    <3>3. m = n - (IF d = k THEN 1 ELSE 0)
      BY <1>8, <2>1
    <3> HIDE DEF n, m
    <3>4. m + held'[d] = n + held[d] - (IF d = k THEN 1 ELSE 0) /\ held'[d] <= held[d]
      BY <3>2, <3>3
    <3>5. QED
      BY <3>1, <3>4 DEF n, m
  <2>3. QED
    BY <1>5, <1>7, <1>8, <2>1, <2>2, DecRefCounts
<1>10. CASE <<tag[c], s>> \notin Dropped
  <2>1. /\ at' = on /\ UNCHANGED <<count, freeing, tag, child, held>>
        /\ lost' = IF <<tag[c], s>> \in Counted /\ count[k] # MaxRef
                   THEN [lost EXCEPT ![k] = @ + 1] ELSE lost
    BY <1>1, <1>10 DEF c, s, k, on
  <2>2. \A d : References(d)' = RefsAt(d, on)
    BY <2>1 DEF References, RefsAt
  <2>3. CountsReferences'
    <3> SUFFICES ASSUME NEW d \in Cell, tag[d] \in ObjectTags, count[d] < MaxRef
                 PROVE  count[d] = Cardinality(RefsAt(d, on)) + held[d] + lost'[d]
      BY <2>1, <2>2 DEF CountsReferences
    <3> DEFINE n == Cardinality(References(d))
               m == Cardinality(RefsAt(d, on))
    <3>1. /\ n \in Nat /\ held[d] \in Nat /\ lost[d] \in Nat
          /\ count[d] = n + held[d] + lost[d]
      BY <1>3, ReferencesFinite DEF CountInv, CountsReferences
    <3>2. CASE <<tag[c], s>> \in Counted /\ d = k
      <4>1. m = n - 1
        BY <1>8, <3>2
      <4>2. lost'[d] = lost[d] + 1
        <5>1. count[k] # MaxRef
          BY <1>3, <3>2
        <5>2. QED
          BY <1>3, <1>5, <2>1, <3>2, <5>1
      <4> HIDE DEF n, m
      <4>3. count[d] = m + held[d] + lost'[d]
        BY <3>1, <4>1, <4>2
      <4>4. QED
        BY <4>3 DEF m
    <3>3. CASE ~(<<tag[c], s>> \in Counted /\ d = k)
      <4>1. RefsAt(d, on) = References(d)
        BY <1>6, <3>3
      <4>2. lost'[d] = lost[d]
        BY <1>3, <1>5, <2>1, <3>3
      <4>3. QED
        BY <3>1, <4>1, <4>2
    <3>4. QED
      BY <3>2, <3>3
  <2>4. Grounded'
    <3>1. \A d : References(d)' \subseteq References(d)
      BY <1>6, <2>2
    <3>2. QED
      BY <2>1, <3>1 DEF CountInv, Grounded
  <2>5. FreeingMarked'
    BY <1>7, <2>1 DEF CountInv, FreeingMarked
  <2>6. LiveCounted'
    <3>1. ASSUME NEW d \in Cell, lost'[d] > 0
          PROVE  tag[d] \in ObjectTags
      <4>1. CASE lost'[d] = lost[d]
        BY <3>1, <4>1 DEF CountInv, LiveCounted
      <4>2. CASE lost'[d] # lost[d]
        <5>1. d = k /\ <<tag[c], s>> \in Counted /\ count[k] # MaxRef
          BY <1>3, <1>5, <2>1, <4>2
        <5>2. k \in Pinned => count[k] = MaxRef
          <6>1. k[1] = 0 /\ c[1] < pages /\ pages \in Nat => ~(k[1] >= pages)
            BY <1>2, CellFacts
          <6>2. k \in Pinned => k[1] = 0
            BY DEF Pinned, NIL, T
          <6>3. c[1] < pages /\ pages \in Nat
            <7>1. tag[c] # "none"
              BY <1>2 DEF ObjectTags
            <7>2. ~(c[1] >= pages) /\ pages \in Nat /\ c[1] \in Nat
              BY <1>2, <7>1, CellFacts DEF CountInv, StoreInv, TypeOK, PagesMapped
            <7>3. QED
              BY <7>2
          <6>4. k \in Pinned => tag[k] # "none"
            BY <1>5, <6>1, <6>2, <6>3 DEF CountInv, StoreInv, PagesMapped
          <6>5. k \in Pinned => tag[k] \in {"NIL", "TRUE"}
            BY <6>4 DEF Pinned, CountInv, StoreInv, FreelistSound, Linked
          <6>6. QED
            BY <1>5, <6>5 DEF CountInv, StoreInv, PagesMapped
        <5>3. QED
          BY <1>8, <5>1, <5>2
      <4>3. QED
        BY <4>1, <4>2
    <3>2. ASSUME NEW d \in Cell, tag[d] \in ObjectTags, at'[d] = 0
          PROVE  count[d] > 0
      <4>1. at[d] = 0
        BY <1>3, <1>7, <2>1, <3>2
      <4>2. QED
        BY <3>2, <4>1 DEF CountInv, LiveCounted, Live
    <3>3. QED
      BY <2>1, <3>1, <3>2 DEF LiveCounted, Live
  <2>7. tag'[T] \in {"none", "TRUE"}
    BY <2>1 DEF CountInv
  <2>8. QED
    BY <2>3, <2>4, <2>5, <2>6, <2>7 DEF CountInv
<1>11. QED
  BY <1>9, <1>10

(* free_cell, its end: an object with no slot left to drop, to which nothing
   refers, becomes a free cell, and no reference changes.                  *)
LEMMA ReleaseReferences ==
  ASSUME CountInv, FreeCellRelease, NEW d
  PROVE  References(d)' = References(d)
<1> DEFINE c == Head(freeing)
<1>1. /\ freeing # <<>> /\ at[c] = NSlots + 1
      /\ tag' = [tag EXCEPT ![c] = "FREE"] /\ at' = [at EXCEPT ![c] = 0]
      /\ child' = [child EXCEPT ![c] = [s \in Slot |-> IF s = 2 THEN freelist ELSE NIL]]
  BY DEF FreeCellRelease
<1>2. c \in Cell
  BY <1>1, TopFacts
<1>3. /\ tag \in [Cell -> CellTags] /\ at \in [Cell -> 0 .. NSlots + 1]
      /\ child \in [Cell -> [Slot -> Cell]]
  BY DEF CountInv, StoreInv, TypeOK, CellTags
<1> HIDE DEF c
<1>4. \A r \in Cell \X Slot : r[1] = c => r \notin References(d) /\ r \notin References(d)'
  <2>1. \A s \in Slot : ~(s >= at[c])
    BY <1>1 DEF Slot
  <2>2. tag'[c] = "FREE" /\ "FREE" \notin ObjectTags
    BY <1>1, <1>2, <1>3 DEF ObjectTags
  <2>3. QED
    BY <2>1, <2>2 DEF References
<1>5. \A r \in Cell \X Slot : r[1] # c => (r \in References(d) <=> r \in References(d)')
  BY <1>1, <1>3 DEF References
<1>6. References(d) \subseteq Cell \X Slot /\ References(d)' \subseteq Cell \X Slot
  BY DEF References
<1>7. QED
  BY <1>4, <1>5, <1>6

LEMMA ReleaseCounts ==
  ASSUME CountInv, StoreInv', FreeCellRelease
  PROVE  CountInv'
<1> DEFINE c == Head(freeing)
<1>1. /\ freeing # <<>> /\ freeing' = Tail(freeing)
      /\ tag' = [tag EXCEPT ![c] = "FREE"] /\ at' = [at EXCEPT ![c] = 0]
      /\ lost' = [lost EXCEPT ![c] = 0] /\ UNCHANGED <<count, held>>
  BY DEF FreeCellRelease
<1>2. /\ c \in Cell /\ c \notin Pinned /\ References(c) = {} /\ held[c] = 0
      /\ lost[c] = 0 /\ at[c] > 0
  BY <1>1, TopFacts
<1>3. /\ tag \in [Cell -> CellTags] /\ at \in [Cell -> 0 .. NSlots + 1]
      /\ lost \in [Cell -> Nat] /\ freeing \in Seq(Cell)
  BY DEF CountInv, StoreInv, TypeOK, CellTags
<1>4. \A d : References(d)' = References(d)
  BY ReleaseReferences
<1>a. c = freeing[1]
  BY <1>1, <1>3
<1> HIDE DEF c
<1>5. \A d \in Cell : /\ d # c => tag'[d] = tag[d] /\ at'[d] = at[d]
                      /\ lost'[d] = lost[d]
                      /\ d = c => tag'[d] = "FREE" /\ at'[d] = 0
  BY <1>1, <1>2, <1>3
<1>6. "FREE" \notin ObjectTags
  BY DEF ObjectTags
<1>7. CountsReferences'
  BY <1>1, <1>4, <1>5, <1>6 DEF CountInv, CountsReferences
<1>8. Grounded'
  BY <1>1, <1>2, <1>4, <1>5 DEF CountInv, Grounded
<1>9. FreeingMarked'
  <2>1. /\ Len(freeing) \in Nat \ {0} /\ Len(freeing') = Len(freeing) - 1
        /\ \A i \in 1 .. Len(freeing') : freeing'[i] = freeing[i + 1]
    BY <1>1, <1>3
  <2>2. \A i, j \in 1 .. Len(freeing) : freeing[i] = freeing[j] => i = j
    BY DEF CountInv, StoreInv, StackSound
  <2>3. ASSUME NEW d \in Cell
        PROVE  at'[d] > 0 <=> \E i \in 1 .. Len(freeing') : freeing'[i] = d
    <3>1. at[d] > 0 <=> \E i \in 1 .. Len(freeing) : freeing[i] = d
      BY DEF CountInv, FreeingMarked
    <3>2. CASE d = c
      <4>1. ~ \E i \in 1 .. Len(freeing') : freeing'[i] = d
        <5> SUFFICES ASSUME NEW i \in 1 .. Len(freeing'), freeing'[i] = d
                     PROVE  FALSE
          OBVIOUS
        <5>1. i + 1 \in 1 .. Len(freeing) /\ 1 \in 1 .. Len(freeing) /\ i + 1 # 1
          BY <2>1
        <5>2. freeing[i + 1] = freeing[1]
          BY <1>a, <2>1, <3>2
        <5>3. QED
          BY <2>2, <5>1, <5>2
      <4>2. QED
        BY <1>5, <3>2, <4>1
    <3>3. CASE d # c
      <4>1. ASSUME NEW i \in 1 .. Len(freeing), freeing[i] = d
            PROVE  \E j \in 1 .. Len(freeing') : freeing'[j] = d
        <5>1. i # 1
          BY <1>a, <3>3, <4>1
        <5>2. i - 1 \in 1 .. Len(freeing') /\ (i - 1) + 1 = i
          BY <2>1, <5>1
        <5>3. freeing'[i - 1] = d
          BY <2>1, <4>1, <5>2
        <5>4. QED
          BY <5>2, <5>3
      <4>2. ASSUME NEW i \in 1 .. Len(freeing'), freeing'[i] = d
            PROVE  \E j \in 1 .. Len(freeing) : freeing[j] = d
        <5>1. i + 1 \in 1 .. Len(freeing) /\ freeing[i + 1] = d
          BY <2>1, <4>2
        <5>2. QED
          BY <5>1
      <4>3. QED
        BY <1>5, <3>1, <3>3, <4>1, <4>2
    <3>4. QED
      BY <3>2, <3>3
  <2>4. QED
    BY <2>3 DEF FreeingMarked
<1>10. LiveCounted'
  <2>1. \A d \in Cell : tag'[d] \in ObjectTags => d # c
    BY <1>5, <1>6
  <2>2. \A d \in Cell : lost'[d] > 0 => tag'[d] \in ObjectTags
    BY <1>2, <1>5 DEF CountInv, LiveCounted
  <2>3. \A d \in Cell : tag'[d] \in ObjectTags /\ at'[d] = 0 => count[d] > 0
    BY <1>5, <2>1 DEF CountInv, LiveCounted, Live
  <2>4. QED
    BY <1>1, <2>2, <2>3 DEF LiveCounted, Live
<1>11. tag'[T] \in {"none", "TRUE"}
  BY <1>2, <1>5, CellFacts DEF CountInv, Pinned
<1>12. QED
  BY <1>7, <1>8, <1>9, <1>10, <1>11 DEF CountInv

-----------------------------------------------------------------------------
(* The counts are right from the start and every step keeps them so. *)

LEMMA InitCounts == Init => CountInv
<1> SUFFICES ASSUME Init PROVE CountInv
  OBVIOUS
<1>1. StoreInv
  BY InitStore
<1>2. /\ \A c \in Cell : tag[c] = "none" /\ at[c] = 0 /\ held[c] = 0 /\ lost[c] = 0
      /\ freeing = <<>> /\ "none" \notin ObjectTags
  BY DEF Init, ObjectTags
<1>3. \A c : References(c) = {}
  BY <1>2 DEF References
<1>4. CountsReferences /\ Grounded /\ LiveCounted
  BY <1>2, <1>3 DEF CountsReferences, Grounded, LiveCounted, Live
<1>5. FreeingMarked
  BY <1>2 DEF FreeingMarked
<1>6. tag[T] \in {"none", "TRUE"}
  BY <1>2, CellFacts
<1>7. QED
  BY <1>1, <1>4, <1>5, <1>6 DEF CountInv

(* The first page makes no object. *)
LEMMA FirstPageObjects ==
  ASSUME StoreInv, InitialiseConsPages
  PROVE  SameObjects(tag', count', child')
<1>1. pages = 0 /\ tag' = MoreTag
  BY DEF InitialiseConsPages
<1>2. \A c \in Cell : c[1] \in Nat
  BY CellFacts
<1>3. \A c \in Cell : tag[c] \notin ObjectTags
  BY <1>1, <1>2 DEF StoreInv, PagesMapped, ObjectTags
<1>4. \A c \in Cell : MoreTag[c] \notin ObjectTags
  BY <1>3 DEF MoreTag, ObjectTags
<1>5. QED
  BY <1>1, <1>3, <1>4 DEF SameObjects

LEMMA NextCounts == CountInv /\ [Next]_vars => CountInv'
<1> SUFFICES ASSUME CountInv, [Next]_vars PROVE CountInv'
  OBVIOUS
<1>1. StoreInv'
  BY NextStore DEF CountInv
<1>2. tag'[T] \in {"none", "TRUE"}
  BY <1>1, TruthKept DEF CountInv
<1>3. CASE InitialiseConsPages
  <2>1. SameObjects(tag', count', child')
    BY <1>3, FirstPageObjects DEF CountInv
  <2>2. UNCHANGED <<freeing, at, held, lost>>
    BY <1>3 DEF InitialiseConsPages, control
  <2>3. QED
    BY <1>1, <1>2, <2>1, <2>2, QuietCounts
<1>4. ASSUME NEW t \in Tags, NEW v \in [Slot -> Cell], Construct(t, v)
      PROVE  CountInv'
  BY <1>1, <1>2, <1>4, ConstructBuilds, BuiltCounts
<1>5. ASSUME NEW t \in Tags, NEW v \in [Slot -> Cell], ConstructOnNewPage(t, v)
      PROVE  CountInv'
  BY <1>1, <1>2, <1>5, NewPageBuilds, BuiltCounts
<1>6. ASSUME NEW c \in Cell, IncRef(c)
      PROVE  CountInv'
  BY <1>1, <1>6, IncRefCounts
<1>7. ASSUME NEW c \in Cell, DropRef(c)
      PROVE  CountInv'
  BY <1>1, <1>7, DropRefCounts
<1>8. CASE FreeCellSlot
  BY <1>1, <1>8, FreeCellSlotCounts
<1>9. CASE FreeCellRelease
  BY <1>1, <1>9, ReleaseCounts
<1>10. CASE Exhaust \/ Exited \/ UNCHANGED vars
  <2>1. UNCHANGED <<tag, count, child, freeing, at, held, lost>>
    BY <1>10 DEF Exhaust, Exited, vars, store, control, history
  <2>2. SameObjects(tag', count', child')
    BY <2>1 DEF SameObjects
  <2>3. QED
    BY <1>1, <1>2, <2>1, <2>2, QuietCounts
<1>11. QED
  BY <1>3, <1>4, <1>5, <1>6, <1>7, <1>8, <1>9, <1>10 DEF Next

(* The inductive invariant of the reference counts: always. *)
THEOREM CountsCorrect == Spec => []CountInv
BY InitCounts, NextCounts, PTL DEF Spec

(* The count of an object that is not locked in is the number of references
   to it, from objects, from the C code and lost: inc_ref in the constructors
   and dec_ref in free_cell balance, also in the middle of a cascade.      *)
THEOREM CountsAreReferences == Spec => []CountsReferences
<1>1. CountInv => CountsReferences
  BY DEF CountInv
<1>2. QED
  BY <1>1, CountsCorrect, PTL

(* Nothing refers to a cell that is free, being freed or not yet there:
   dec_ref never recycles a cell that somebody can still reach.            *)
THEOREM NothingDangles == Spec => []NoDanglingReference
<1>1. CountInv => NoDanglingReference
  BY ReferredTo DEF NoDanglingReference, Live
<1>2. QED
  BY <1>1, CountsCorrect, PTL

-----------------------------------------------------------------------------
(* The allocation counters.                                                *)

(* Division with a remainder, and that the remainder is determined. *)
LEMMA DivMod ==
  ASSUME NEW R \in Nat \ {0}, NEW x \in Int
  PROVE  x % R \in 0 .. R - 1 /\ x \div R \in Int /\ x = R * (x \div R) + (x % R)
OBVIOUS

LEMMA Remainder ==
  ASSUME NEW R \in Nat \ {0}, NEW q \in Int, NEW r \in 0 .. R - 1
  PROVE  (R * q + r) % R = r
OBVIOUS

(* A number and its successor, and whole turns of a counter. *)
LEMMA ModSuccessor ==
  ASSUME NEW R \in Nat \ {0}, NEW x \in Int
  PROVE  (x + 1) % R = IF x % R = R - 1 THEN 0 ELSE (x % R) + 1
<1> DEFINE q == x \div R
           r == x % R
<1>1. r \in 0 .. R - 1 /\ q \in Int /\ x = R * q + r
  BY DivMod
<1> HIDE DEF q, r
<1>2. CASE r = R - 1
  <2>1. x + 1 = R * (q + 1) + 0
    BY <1>1, <1>2
  <2>2. (R * (q + 1) + 0) % R = 0
    <3>1. q + 1 \in Int /\ 0 \in 0 .. R - 1
      BY <1>1
    <3>2. QED
      BY <3>1, Remainder
  <2>3. (x + 1) % R = 0
    BY <2>1, <2>2
  <2>4. QED
    BY <1>2, <2>3 DEF r
<1>3. CASE r # R - 1
  <2>1. x + 1 = R * q + (r + 1) /\ r + 1 \in 0 .. R - 1
    BY <1>1, <1>3
  <2>2. (R * q + (r + 1)) % R = r + 1
    BY <1>1, <2>1, Remainder
  <2>3. (x + 1) % R = r + 1
    BY <2>1, <2>2
  <2>4. QED
    BY <1>3, <2>3 DEF r
<1>4. QED
  BY <1>2, <1>3

LEMMA ModTurn ==
  ASSUME NEW R \in Nat \ {0}, NEW x \in Int
  PROVE  (x + R) % R = x % R
<1> DEFINE q == x \div R
           r == x % R
<1>1. r \in 0 .. R - 1 /\ q \in Int /\ x = R * q + r
  BY DivMod
<1> HIDE DEF q, r
<1>2. x + R = R * (q + 1) + r /\ q + 1 \in Int
  BY <1>1
<1>3. (R * (q + 1) + r) % R = r
  BY <1>1, <1>2, Remainder
<1>4. (x + R) % R = r
  BY <1>2, <1>3
<1>5. QED
  BY <1>4 DEF r

(* Numbers that agree in the ring of the counters still do after one step up
   or one step down.                                                       *)
LEMMA ModStep ==
  ASSUME NEW R \in Nat \ {0}, NEW x \in Int, NEW y \in Int, x % R = y % R
  PROVE  (x + 1) % R = (y + 1) % R /\ (x - 1) % R = (y - 1) % R
<1>1. (x + 1) % R = (y + 1) % R
  BY ModSuccessor
<1>2. (x - 1) % R = (y - 1) % R
  <2>1. x - 1 \in Int /\ y - 1 \in Int /\ (x - 1) + 1 = x /\ (y - 1) + 1 = y
    OBVIOUS
  <2> DEFINE a == (x - 1) % R
             b == (y - 1) % R
  <2>2. a \in 0 .. R - 1 /\ b \in 0 .. R - 1
    BY <2>1, DivMod
  <2>3. x % R = IF a = R - 1 THEN 0 ELSE a + 1
    BY <2>1, ModSuccessor
  <2>4. y % R = IF b = R - 1 THEN 0 ELSE b + 1
    BY <2>1, ModSuccessor
  <2> HIDE DEF a, b
  <2>5. a = b
    BY <2>2, <2>3, <2>4
  <2>6. QED
    BY <2>5 DEF a, b
<1>3. QED
  BY <1>1, <1>2

(* A counter that wraps goes one step up in its ring. *)
LEMMA CounterUp ==
  ASSUME NEW n \in 0 .. CounterRange - 1
  PROVE  Counter(n) = n + 1 \/ Counter(n) = n + 1 - CounterRange
<1>1. n % CounterRange = n
  <2>1. CounterRange * 0 + n = n /\ 0 \in Int
    OBVIOUS
  <2>2. QED
    BY <2>1, Remainder
<1>2. Counter(n) = IF n = CounterRange - 1 THEN 0 ELSE n + 1
  <2>1. n \in Int /\ CounterRange \in Nat \ {0}
    OBVIOUS
  <2>2. QED
    BY <1>1, <2>1, ModSuccessor DEF Counter
<1>3. QED
  BY <1>2

LEMMA LedgerUp ==
  ASSUME NEW n \in 0 .. CounterRange - 1, NEW m \in Int
  PROVE  /\ (Counter(n) - m) % CounterRange = (n - m + 1) % CounterRange
         /\ (m - Counter(n)) % CounterRange = (m - n - 1) % CounterRange
<1>1. Counter(n) = n + 1 \/ Counter(n) = n + 1 - CounterRange
  BY CounterUp
<1>2. CASE Counter(n) = n + 1
  <2>1. Counter(n) - m = n - m + 1 /\ m - Counter(n) = m - n - 1
    BY <1>2
  <2>2. QED
    BY <2>1
<1>3. CASE Counter(n) = n + 1 - CounterRange
  <2>1. /\ (Counter(n) - m) + CounterRange = n - m + 1
        /\ m - Counter(n) = (m - n - 1) + CounterRange
        /\ Counter(n) - m \in Int /\ m - n - 1 \in Int
    BY <1>3
  <2>2. ((Counter(n) - m) + CounterRange) % CounterRange = (Counter(n) - m) % CounterRange
    BY <2>1, ModTurn
  <2>3. ((m - n - 1) + CounterRange) % CounterRange = (m - n - 1) % CounterRange
    BY <2>1, ModTurn
  <2>4. QED
    BY <2>1, <2>2, <2>3
<1>4. QED
  BY <1>1, <1>2, <1>3

(* The objects of the heap. *)
Objects == {c \in Cell : tag[c] \in ObjectTags}

LEMMA ObjectsFinite == IsFiniteSet(Objects) /\ Cardinality(Objects) \in Nat
<1>1. IsFiniteSet(0 .. NPages - 1) /\ IsFiniteSet(0 .. PageSize - 1)
  <2>1. NPages - 1 \in Int /\ PageSize - 1 \in Int /\ 0 \in Int
    OBVIOUS
  <2>2. QED
    BY <2>1, FS_Interval
<1>2. IsFiniteSet(Cell)
  BY <1>1, FS_Product DEF Cell
<1>3. IsFiniteSet(Objects)
  BY <1>2, FS_Subset DEF Objects
<1>4. QED
  BY <1>3, FS_CardinalityType

(* A constructor adds one object to the heap, the end of free_cell takes one
   away, and no other action changes which cells are objects.              *)
LEMMA ObjectsStep ==
  ASSUME CountInv, [Next]_vars
  PROVE  \/ /\ \E fl \in Cell \ Objects : Objects' = Objects \cup {fl}
            /\ allocated' = Counter(allocated) /\ freed' = freed
         \/ /\ \E c \in Objects : Objects' = Objects \ {c}
            /\ freed' = Counter(freed) /\ allocated' = allocated
         \/ UNCHANGED <<Objects, allocated, freed>>
<1>1. ASSUME NEW fl \in Cell, NEW t, NEW v, Built(fl, t, v)
      PROVE  /\ \E d \in Cell \ Objects : Objects' = Objects \cup {d}
             /\ allocated' = Counter(allocated) /\ freed' = freed
  <2>1. /\ fl \in Cell \ Objects /\ t \in ObjectTags /\ tag'[fl] = t
        /\ \A c \in Cell \ {fl} : tag[c] \in ObjectTags <=> tag'[c] \in ObjectTags
        /\ allocated' = Counter(allocated) /\ freed' = freed
    BY <1>1 DEF Built, Objects
  <2>2. Objects' = Objects \cup {fl}
    BY <2>1 DEF Objects
  <2>3. QED
    BY <2>1, <2>2
<1>2. CASE InitialiseConsPages
  <2>1. SameObjects(tag', count', child') /\ UNCHANGED <<allocated, freed>>
    BY <1>2, FirstPageObjects DEF CountInv, InitialiseConsPages
  <2>2. \A c \in Cell : tag[c] \in ObjectTags <=> tag'[c] \in ObjectTags
    BY <2>1 DEF SameObjects
  <2>3. QED
    BY <2>1, <2>2 DEF Objects
<1>3. ASSUME NEW t \in Tags, NEW v \in [Slot -> Cell],
             Construct(t, v) \/ ConstructOnNewPage(t, v)
      PROVE  /\ \E d \in Cell \ Objects : Objects' = Objects \cup {d}
             /\ allocated' = Counter(allocated) /\ freed' = freed
  BY <1>1, <1>3, ConstructBuilds, NewPageBuilds
<1>4. CASE FreeCellRelease
  <2> DEFINE c == Head(freeing)
  <2>1. c \in Cell /\ tag[c] \in ObjectTags
    BY <1>4, TopFacts DEF FreeCellRelease
  <2>2. /\ tag' = [tag EXCEPT ![c] = "FREE"]
        /\ freed' = Counter(freed) /\ allocated' = allocated
    BY <1>4 DEF FreeCellRelease
  <2>3. tag \in [Cell -> CellTags]
    BY DEF CountInv, StoreInv, TypeOK, CellTags
  <2> HIDE DEF c
  <2>4. c \in Objects /\ Objects' = Objects \ {c}
    BY <2>1, <2>2, <2>3 DEF Objects, ObjectTags
  <2>5. QED
    BY <2>2, <2>4
<1>5. CASE \/ \E c \in Cell : IncRef(c) \/ DropRef(c)
           \/ FreeCellSlot \/ Exhaust \/ Exited \/ UNCHANGED vars
  <2>1. UNCHANGED <<tag, allocated, freed>>
    BY <1>5 DEF IncRef, DropRef, FreeCellSlot, Exhaust, Exited, vars, store
  <2>2. QED
    BY <2>1 DEF Objects
<1>6. QED
  BY <1>2, <1>3, <1>4, <1>5 DEF Next

(* total_cells_allocated - total_cells_freed is the number of cells in use,
   in the ring of the counters: also after they have wrapped.              *)
THEOREM LedgerStaysBalanced == Spec => []LedgerBalanced
<1> DEFINE Ledger == (allocated - freed) % CounterRange =
                       Cardinality(Objects) % CounterRange
<1>1. Init => Ledger
  <2> SUFFICES ASSUME Init PROVE Ledger
    OBVIOUS
  <2>1. Objects = {}
    BY DEF Init, Objects, ObjectTags
  <2>2. Cardinality(Objects) = 0 /\ allocated - freed = 0
    BY <2>1, FS_EmptySet DEF Init
  <2>3. QED
    BY <2>2
<1>2. CountInv /\ Ledger /\ [Next]_vars => Ledger'
  <2> SUFFICES ASSUME CountInv, Ledger, [Next]_vars PROVE Ledger'
    OBVIOUS
  <2>1. /\ allocated \in 0 .. CounterRange - 1 /\ freed \in 0 .. CounterRange - 1
        /\ CounterRange \in Nat \ {0}
    BY DEF CountInv, StoreInv, TypeOK
  <2> DEFINE n == Cardinality(Objects)
             x == allocated - freed
  <2>2. n \in Nat /\ x \in Int /\ IsFiniteSet(Objects) /\ x % CounterRange = n % CounterRange
    BY <2>1, ObjectsFinite
  <2>3. /\ (x + 1) % CounterRange = (n + 1) % CounterRange
        /\ (x - 1) % CounterRange = (n - 1) % CounterRange
    <3> HIDE DEF n, x
    <3>1. n \in Int
      BY <2>2
    <3>2. QED
      BY <2>1, <2>2, <3>1, ModStep
  <2>4. ASSUME NEW fl \in Cell \ Objects, Objects' = Objects \cup {fl},
               allocated' = Counter(allocated), freed' = freed
        PROVE  Ledger'
    <3>1. Cardinality(Objects') = n + 1
      BY <2>2, <2>4, FS_AddElement
    <3>2. (Counter(allocated) - freed) % CounterRange = (x + 1) % CounterRange
      BY <2>1, LedgerUp
    <3>3. (allocated' - freed') % CounterRange = Cardinality(Objects') % CounterRange
      BY <2>3, <2>4, <3>1, <3>2
    <3>4. QED
      BY <3>3
  <2>5. ASSUME NEW c \in Objects, Objects' = Objects \ {c},
               freed' = Counter(freed), allocated' = allocated
        PROVE  Ledger'
    <3>1. Cardinality(Objects') = n - 1
      BY <2>2, <2>5, FS_RemoveElement
    <3>2. (allocated - Counter(freed)) % CounterRange = (x - 1) % CounterRange
      BY <2>1, LedgerUp
    <3>3. (allocated' - freed') % CounterRange = Cardinality(Objects') % CounterRange
      BY <2>3, <2>5, <3>1, <3>2
    <3>4. QED
      BY <3>3
  <2>6. CASE UNCHANGED <<Objects, allocated, freed>>
    BY <2>6
  <2>7. QED
    BY <2>4, <2>5, <2>6, ObjectsStep
<1>3. Ledger => LedgerBalanced
  BY DEF LedgerBalanced, Objects
<1>4. QED
  BY <1>1, <1>2, <1>3, CountsCorrect, PTL DEF Spec

-----------------------------------------------------------------------------
(***************************************************************************)
(* What can be reached in cons space: no object contains itself, and so    *)
(* every object that nobody can reach has been freed.                      *)
(***************************************************************************)

-----------------------------------------------------------------------------
(* What is reached step by step.                                           *)

(* The cells reached in n steps from S, for n up to the number of cells:
   the function that Closure defines.                                      *)
Steps(S) ==
  CHOOSE step : step = [n \in 0 .. Cardinality(Cell) |->
                          IF n = 0 THEN S ELSE step[n - 1] \cup Parts(step[n - 1])]

LEMMA ClosureSteps ==
  ASSUME NEW S
  PROVE  Closure(S) = Steps(S)[Cardinality(Cell)]
BY DEF Closure, Steps

LEMMA CellsFinite == IsFiniteSet(Cell) /\ Cardinality(Cell) \in Nat
<1>1. IsFiniteSet(0 .. NPages - 1) /\ IsFiniteSet(0 .. PageSize - 1)
  <2>1. NPages - 1 \in Int /\ PageSize - 1 \in Int /\ 0 \in Int
    OBVIOUS
  <2>2. QED
    BY <2>1, FS_Interval
<1>2. QED
  BY <1>1, FS_Product, FS_CardinalityType DEF Cell

(* A function that is S at 0 and goes one step further at each number. *)
StepsUpTo(S, m, g) ==
  g = [n \in 0 .. m |-> IF n = 0 THEN S ELSE g[n - 1] \cup Parts(g[n - 1])]

LEMMA StepsExist ==
  ASSUME NEW S, NEW m \in Nat
  PROVE  \E g : StepsUpTo(S, m, g)
<1> DEFINE Bad == {n \in Nat : ~ \E g : StepsUpTo(S, n, g)}
<1>1. SUFFICES ASSUME Bad # {} PROVE FALSE
  OBVIOUS
<1>2. PICK n \in Bad : \A y \in Bad : n <= y
  <2>1. Bad \in SUBSET Nat
    OBVIOUS
  <2> HIDE DEF Bad
  <2>2. QED
    BY <1>1, <2>1, Least
<1>3. n \in Nat /\ ~ \E g : StepsUpTo(S, n, g)
  BY <1>2
<1>4. CASE n = 0
  <2> DEFINE g == [i \in 0 .. 0 |-> S]
  <2>1. StepsUpTo(S, 0, g)
    BY DEF StepsUpTo
  <2>2. QED
    BY <1>3, <1>4, <2>1
<1>5. CASE n # 0
  <2>1. n - 1 \in Nat /\ n - 1 \notin Bad
    <3>1. n - 1 \in Nat /\ ~(n <= n - 1)
      BY <1>3, <1>5
    <3> HIDE DEF Bad
    <3>2. QED
      BY <1>2, <3>1
  <2>2. PICK g : StepsUpTo(S, n - 1, g)
    BY <2>1
  <2> DEFINE last == g[n - 1] \cup Parts(g[n - 1])
             h == [i \in 0 .. n |-> IF i = n THEN last ELSE g[i]]
  <2>3. \A i \in 0 .. n - 1 : h[i] = g[i]
    BY <1>3
  <2>4. \A i \in 0 .. n - 1 :
          g[i] = IF i = 0 THEN S ELSE g[i - 1] \cup Parts(g[i - 1])
    BY <2>2 DEF StepsUpTo
  <2>5. \A i \in 0 .. n : h[i] = IF i = 0 THEN S ELSE h[i - 1] \cup Parts(h[i - 1])
    <3> TAKE i \in 0 .. n
    <3>1. CASE i = n
      <4>1. h[i] = last /\ h[i - 1] = g[n - 1]
        BY <1>3, <1>5, <2>3, <3>1
      <4> HIDE DEF h
      <4>2. QED
        BY <1>5, <3>1, <4>1
    <3>2. CASE i # n
      <4>1. i \in 0 .. n - 1 /\ (i # 0 => i - 1 \in 0 .. n - 1)
        BY <1>3, <3>2
      <4>2. h[i] = g[i] /\ (i # 0 => h[i - 1] = g[i - 1])
        BY <2>3, <4>1
      <4> HIDE DEF h
      <4>3. QED
        BY <2>4, <4>1, <4>2
    <3>3. QED
      BY <3>1, <3>2
  <2>6. h = [i \in 0 .. n |-> h[i]]
    OBVIOUS
  <2> HIDE DEF h
  <2>7. h = [i \in 0 .. n |-> IF i = 0 THEN S ELSE h[i - 1] \cup Parts(h[i - 1])]
    BY <2>5, <2>6
  <2>8. StepsUpTo(S, n, h)
    BY <2>7 DEF StepsUpTo
  <2>9. QED
    BY <1>3, <2>8
<1>6. QED
  BY <1>4, <1>5

LEMMA StepsDefined ==
  ASSUME NEW S
  PROVE  /\ Steps(S)[0] = S
         /\ \A n \in 1 .. Cardinality(Cell) :
              Steps(S)[n] = Steps(S)[n - 1] \cup Parts(Steps(S)[n - 1])
<1> DEFINE N == Cardinality(Cell)
<1>1. N \in Nat
  BY CellsFinite
<1>2. \E g : g = [n \in 0 .. N |-> IF n = 0 THEN S ELSE g[n - 1] \cup Parts(g[n - 1])]
  <2>1. \E g : StepsUpTo(S, N, g)
    BY <1>1, StepsExist
  <2> HIDE DEF N
  <2>2. QED
    BY <2>1 DEF StepsUpTo
<1>3. Steps(S) = [n \in 0 .. N |-> IF n = 0 THEN S
                                   ELSE Steps(S)[n - 1] \cup Parts(Steps(S)[n - 1])]
  BY <1>2 DEF Steps
<1> HIDE DEF N
<1> DEFINE F == Steps(S)
<1>4. F = [n \in 0 .. N |-> IF n = 0 THEN S ELSE F[n - 1] \cup Parts(F[n - 1])]
  BY <1>3
<1> HIDE DEF F
<1>5. F[0] = S /\ \A n \in 1 .. N : F[n] = F[n - 1] \cup Parts(F[n - 1])
  <2>1. \A n \in 0 .. N : F[n] = IF n = 0 THEN S ELSE F[n - 1] \cup Parts(F[n - 1])
    BY <1>4
  <2>2. 0 \in 0 .. N /\ \A n \in 1 .. N : n \in 0 .. N /\ n # 0
    BY <1>1
  <2>3. QED
    BY <2>1, <2>2
<1>6. QED
  BY <1>5 DEF F, N

-----------------------------------------------------------------------------
(* What can be reached is the least set that contains the start and the parts
   of its members.                                                         *)

LEMMA PartsOf ==
  ASSUME NEW S, NEW d
  PROVE  d \in Parts(S) <=>
           \E c \in S, s \in Slot : /\ tag[c] \in ObjectTags
                                    /\ <<tag[c], s>> \in Counted /\ child[c][s] = d
<1>1. ASSUME d \in Parts(S)
      PROVE  \E c \in S, s \in Slot : /\ tag[c] \in ObjectTags
                                      /\ <<tag[c], s>> \in Counted /\ child[c][s] = d
  <2>1. PICK q \in S \X Slot : /\ tag[q[1]] \in ObjectTags
                               /\ <<tag[q[1]], q[2]>> \in Counted
                               /\ child[q[1]][q[2]] = d
    BY <1>1 DEF Parts
  <2>2. q[1] \in S /\ q[2] \in Slot
    OBVIOUS
  <2>3. QED
    BY <2>1, <2>2
<1>2. ASSUME NEW c \in S, NEW s \in Slot, tag[c] \in ObjectTags,
             <<tag[c], s>> \in Counted, child[c][s] = d
      PROVE  d \in Parts(S)
  <2>1. <<c, s>> \in {q \in S \X Slot : /\ tag[q[1]] \in ObjectTags
                                       /\ <<tag[q[1]], q[2]>> \in Counted}
    BY <1>2
  <2>2. QED
    BY <1>2, <2>1 DEF Parts
<1>3. QED
  BY <1>1, <1>2

LEMMA PartsMonotone ==
  ASSUME NEW S, NEW W, S \subseteq W
  PROVE  Parts(S) \subseteq Parts(W)
BY PartsOf

LEMMA PartsCells ==
  ASSUME TypeOK, NEW S \in SUBSET Cell
  PROVE  Parts(S) \subseteq Cell
<1>1. child \in [Cell -> [Slot -> Cell]]
  BY DEF TypeOK
<1>2. \A c \in S, s \in Slot : child[c][s] \in Cell
  BY <1>1
<1>3. ASSUME NEW d \in Parts(S)
      PROVE  d \in Cell
  <2>1. \E c \in S, s \in Slot : child[c][s] = d
    BY PartsOf
  <2>2. QED
    BY <1>2, <2>1
<1>4. QED
  BY <1>3

LEMMA ClosureLeast ==
  ASSUME NEW S, NEW W, S \subseteq W, Parts(W) \subseteq W
  PROVE  Closure(S) \subseteq W
<1> DEFINE N   == Cardinality(Cell)
           F   == Steps(S)
           Bad == {n \in 0 .. N : ~(F[n] \subseteq W)}
<1>1. /\ N \in Nat /\ F[0] = S
      /\ \A n \in 1 .. N : F[n] = F[n - 1] \cup Parts(F[n - 1])
  BY CellsFinite, StepsDefined
<1> HIDE DEF N, F
<1>2. Bad = {}
  <2> SUFFICES ASSUME Bad # {} PROVE FALSE
    OBVIOUS
  <2>1. PICK n \in Bad : \A m \in Bad : n <= m
    <3>1. Bad \in SUBSET Nat
      BY <1>1
    <3> HIDE DEF Bad
    <3>2. QED
      BY <3>1, Least
  <2>2. n # 0 /\ n \in 1 .. N
    BY <1>1
  <2>3. n - 1 \in 0 .. N /\ ~(n <= n - 1)
    BY <1>1, <2>2
  <2>4. F[n - 1] \subseteq W
    BY <2>1, <2>3
  <2>5. F[n] \subseteq W
    BY <1>1, <2>2, <2>4, PartsMonotone
  <2>6. QED
    BY <2>5
<1>3. F[N] \subseteq W
  BY <1>1, <1>2
<1>4. QED
  BY <1>3, ClosureSteps DEF F, N

(* Each step of the closure adds a cell or nothing more is ever added; there
   are no more cells than steps.                                           *)
LEMMA StepsGrow ==
  ASSUME TypeOK, NEW S \in SUBSET Cell,
         NEW m \in 0 .. Cardinality(Cell)
  PROVE  /\ Steps(S)[m] \in SUBSET Cell /\ S \subseteq Steps(S)[m]
         /\ \/ Cardinality(Steps(S)[m]) >= m
            \/ Parts(Steps(S)[m]) \subseteq Steps(S)[m]
<1> DEFINE N == Cardinality(Cell)
           F == Steps(S)
           Good(n) == /\ F[n] \in SUBSET Cell /\ S \subseteq F[n]
                      /\ \/ Cardinality(F[n]) >= n
                         \/ Parts(F[n]) \subseteq F[n]
           Bad == {n \in 0 .. N : ~Good(n)}
<1>1. /\ N \in Nat /\ IsFiniteSet(Cell) /\ F[0] = S
      /\ \A n \in 1 .. N : F[n] = F[n - 1] \cup Parts(F[n - 1])
  BY CellsFinite, StepsDefined
<1> HIDE DEF N, F
<1>2. Good(0)
  <2>1. IsFiniteSet(S) /\ Cardinality(S) \in Nat
    BY <1>1, FS_Subset, FS_CardinalityType
  <2>2. QED
    BY <1>1, <2>1
<1>3. ASSUME NEW n \in 1 .. N, Good(n - 1)
      PROVE  Good(n)
  <2> DEFINE A == F[n - 1]
  <2>1. F[n] = A \cup Parts(A) /\ n - 1 \in Nat
    BY <1>1
  <2>2. F[n] \in SUBSET Cell /\ S \subseteq F[n]
    BY <1>3, <2>1, PartsCells
  <2>3. CASE Parts(A) \subseteq A
    <3>1. F[n] = A
      BY <2>1, <2>3
    <3>2. QED
      BY <2>2, <2>3, <3>1
  <2>4. CASE ~(Parts(A) \subseteq A)
    <3>1. A \subseteq F[n] /\ A # F[n]
      BY <2>1, <2>4
    <3>2. IsFiniteSet(F[n]) /\ IsFiniteSet(A)
      BY <1>1, <1>3, <2>2, FS_Subset
    <3>3. /\ Cardinality(A) <= Cardinality(F[n])
          /\ Cardinality(A) # Cardinality(F[n])
      BY <3>1, <3>2, FS_Subset
    <3>4. Cardinality(A) \in Nat /\ Cardinality(F[n]) \in Nat
      BY <3>2, FS_CardinalityType
    <3>5. Cardinality(A) >= n - 1
      BY <1>3, <2>4
    <3> HIDE DEF A
    <3>6. Cardinality(F[n]) >= n
      BY <3>3, <3>4, <3>5
    <3>7. QED
      BY <2>2, <3>6
  <2>5. QED
    BY <2>3, <2>4
<1>4. Bad = {}
  <2> HIDE DEF Good
  <2> SUFFICES ASSUME Bad # {} PROVE FALSE
    OBVIOUS
  <2>1. PICK n \in Bad : \A k \in Bad : n <= k
    <3>1. Bad \in SUBSET Nat
      BY <1>1
    <3> HIDE DEF Bad
    <3>2. QED
      BY <3>1, Least
  <2>2. n # 0 /\ n \in 1 .. N
    BY <1>1, <1>2
  <2>3. n - 1 \in 0 .. N /\ ~(n <= n - 1)
    BY <1>1, <2>2
  <2>4. Good(n - 1)
    BY <2>1, <2>3
  <2>5. QED
    BY <1>3, <2>2, <2>4
<1>5. m \in 0 .. N
  BY DEF N
<1>6. Good(m)
  <2> HIDE DEF Good
  <2>1. QED
    BY <1>4, <1>5
<1>7. QED
  BY <1>6 DEF F

LEMMA ClosureClosed ==
  ASSUME TypeOK, NEW S \in SUBSET Cell
  PROVE  S \subseteq Closure(S) /\ Parts(Closure(S)) \subseteq Closure(S)
<1> DEFINE N == Cardinality(Cell)
           C == Closure(S)
<1>1. N \in Nat /\ IsFiniteSet(Cell) /\ N \in 0 .. N
  BY CellsFinite
<1>2. C = Steps(S)[N]
  BY ClosureSteps
<1>3. /\ C \in SUBSET Cell /\ S \subseteq C
      /\ Cardinality(C) >= N \/ Parts(C) \subseteq C
  BY <1>1, <1>2, StepsGrow
<1>4. ASSUME Cardinality(C) >= N
      PROVE  Parts(C) \subseteq C
  <2>1. Cardinality(C) <= N /\ (N = Cardinality(C) => Cell = C)
    BY <1>1, <1>3, FS_Subset
  <2>2. IsFiniteSet(C)
    BY <1>1, <1>3, FS_Subset
  <2>3. Cardinality(C) \in Nat
    BY <2>2, FS_CardinalityType
  <2> HIDE DEF N, C
  <2>4. Cell = C
    BY <1>1, <1>4, <2>1, <2>3
  <2>5. QED
    BY <1>3, <2>4, PartsCells
<1>5. QED
  BY <1>3, <1>4

-----------------------------------------------------------------------------
(* No object contains itself.                                              *)

(* The objects can be numbered so that each has a smaller number than those
   it refers to, whether or not free_cell has dropped the reference yet.   *)
Ranked(rank) ==
  \A p \in Cell, s \in Slot :
    tag[p] \in ObjectTags /\ <<tag[p], s>> \in Counted /\ tag[child[p][s]] \in ObjectTags =>
      rank[p] < rank[child[p][s]]

Acyclic == \E rank \in [Cell -> Nat] : Ranked(rank)

(* An object is built from objects that are there already, and while a
   constructor runs nothing refers to the cell it takes.                   *)
LEMMA BuiltAcyclic ==
  ASSUME CountInv, Acyclic, NEW fl \in Cell, NEW t, NEW v, Built(fl, t, v)
  PROVE  Acyclic'
<1>0. PICK rank \in [Cell -> Nat] : Ranked(rank)
  BY DEF Acyclic
<1>1. /\ t \in ObjectTags /\ v \in [Slot -> Cell] /\ tag[fl] \notin ObjectTags
      /\ tag'[fl] = t /\ child'[fl] = v /\ \A s \in Slot : v[s] # fl
      /\ freeing = <<>> /\ fl \notin Pinned
  BY DEF Built, Idle
<1>2. \A c \in Cell \ {fl} :
        /\ tag[c] \in ObjectTags => tag'[c] = tag[c] /\ child'[c] = child[c]
        /\ tag'[c] \in ObjectTags => tag[c] \in ObjectTags
  BY DEF Built
<1>3. child \in [Cell -> [Slot -> Cell]]
  BY DEF CountInv, StoreInv, TypeOK
<1>4. ASSUME NEW p \in Cell, NEW s \in Slot, tag[p] \in ObjectTags, <<tag[p], s>> \in Counted
      PROVE  child[p][s] # fl
  <2>1. at[p] = 0
    BY <1>1, NothingMarked DEF CountInv, StoreInv
  <2>2. References(fl) = {}
    BY <1>1 DEF CountInv, Grounded
  <2>3. child[p][s] = fl => <<p, s>> \in References(fl)
    BY <1>4, <2>1 DEF References, Slot
  <2>4. QED
    BY <2>2, <2>3
<1> DEFINE more == [c \in Cell |-> IF c = fl THEN 0 ELSE rank[c] + 1]
<1>5. more \in [Cell -> Nat]
  OBVIOUS
<1>6. ASSUME NEW p \in Cell, NEW s \in Slot, tag'[p] \in ObjectTags,
             <<tag'[p], s>> \in Counted, tag'[child'[p][s]] \in ObjectTags
      PROVE  more[p] < more[child'[p][s]]
  <2>1. CASE p = fl
    <3>1. child'[p][s] \in Cell /\ child'[p][s] # fl
      BY <1>1, <2>1
    <3>2. rank[child'[p][s]] \in Nat
      BY <3>1
    <3>3. more[p] = 0 /\ more[child'[p][s]] = rank[child'[p][s]] + 1
      BY <2>1, <3>1
    <3> HIDE DEF more
    <3>4. QED
      BY <3>2, <3>3
  <2>2. CASE p # fl
    <3>1. /\ tag[p] \in ObjectTags /\ <<tag[p], s>> \in Counted /\ child'[p][s] = child[p][s]
          /\ child[p][s] \in Cell
      BY <1>2, <1>3, <1>6, <2>2
    <3>2. child[p][s] # fl
      BY <1>4, <3>1
    <3>3. tag[child[p][s]] \in ObjectTags
      BY <1>2, <1>6, <3>1, <3>2
    <3>4. rank[p] < rank[child[p][s]] /\ rank[p] \in Nat /\ rank[child[p][s]] \in Nat
      BY <1>0, <3>1, <3>3 DEF Ranked
    <3>5. more[p] = rank[p] + 1 /\ more[child'[p][s]] = rank[child[p][s]] + 1
      BY <2>2, <3>1, <3>2
    <3> HIDE DEF more
    <3>6. QED
      BY <3>4, <3>5
  <2>3. QED
    BY <2>1, <2>2
<1> HIDE DEF more
<1>7. Ranked(more)'
  BY <1>6 DEF Ranked
<1>8. QED
  BY <1>5, <1>7 DEF Acyclic

(* The other actions make no object and no reference. *)
LEMMA FewerAcyclic ==
  ASSUME CountInv, Acyclic,
         \A c \in Cell : tag'[c] \in ObjectTags => tag'[c] = tag[c] /\ child'[c] = child[c]
  PROVE  Acyclic'
<1>1. PICK rank \in [Cell -> Nat] : Ranked(rank)
  BY DEF Acyclic
<1>2. ASSUME NEW p \in Cell, NEW s \in Slot, tag'[p] \in ObjectTags,
             <<tag'[p], s>> \in Counted, tag'[child'[p][s]] \in ObjectTags
      PROVE  rank[p] < rank[child'[p][s]]
  <2>1. child[p][s] \in Cell
    BY DEF CountInv, StoreInv, TypeOK
  <2>2. /\ tag[p] \in ObjectTags /\ <<tag[p], s>> \in Counted
        /\ child'[p][s] = child[p][s] /\ tag[child[p][s]] \in ObjectTags
    BY <1>2, <2>1
  <2>3. QED
    BY <1>1, <2>2 DEF Ranked
<1>3. Ranked(rank)'
  BY <1>2 DEF Ranked
<1>4. QED
  BY <1>3 DEF Acyclic

LEMMA InitAcyclic == Init => Acyclic
<1> SUFFICES ASSUME Init PROVE Acyclic
  OBVIOUS
<1> DEFINE rank == [c \in Cell |-> 0]
<1>1. \A c \in Cell : tag[c] \notin ObjectTags
  BY DEF Init, ObjectTags
<1>2. rank \in [Cell -> Nat] /\ Ranked(rank)
  BY <1>1 DEF Ranked
<1>3. QED
  BY <1>2 DEF Acyclic

LEMMA NextAcyclic == CountInv /\ Acyclic /\ [Next]_vars => Acyclic'
<1> SUFFICES ASSUME CountInv, Acyclic, [Next]_vars PROVE Acyclic'
  OBVIOUS
<1>1. ASSUME NEW t \in Tags, NEW v \in [Slot -> Cell],
             Construct(t, v) \/ ConstructOnNewPage(t, v)
      PROVE  Acyclic'
  BY <1>1, ConstructBuilds, NewPageBuilds, BuiltAcyclic
<1>2. CASE InitialiseConsPages
  <2>1. SameObjects(tag', count', child')
    BY <1>2, FirstPageObjects DEF CountInv
  <2>2. \A c \in Cell : tag'[c] \in ObjectTags => tag'[c] = tag[c] /\ child'[c] = child[c]
    BY <2>1 DEF SameObjects
  <2>3. QED
    BY <2>2, FewerAcyclic
<1>3. CASE FreeCellRelease
  <2>1. PICK c \in Cell : c = Head(freeing)
    BY <1>3, TopFacts DEF FreeCellRelease
  <2>2. /\ tag' = [tag EXCEPT ![c] = "FREE"]
        /\ child' = [child EXCEPT ![c] = [s \in Slot |-> IF s = 2 THEN freelist ELSE NIL]]
    BY <1>3, <2>1 DEF FreeCellRelease
  <2>3. tag \in [Cell -> CellTags] /\ child \in [Cell -> [Slot -> Cell]]
    BY DEF CountInv, StoreInv, TypeOK, CellTags
  <2>4. tag'[c] \notin ObjectTags
    BY <2>2, <2>3 DEF ObjectTags
  <2>5. \A d \in Cell : tag'[d] \in ObjectTags => tag'[d] = tag[d] /\ child'[d] = child[d]
    BY <2>2, <2>3, <2>4
  <2>6. QED
    BY <2>5, FewerAcyclic
<1>4. CASE \/ \E c \in Cell : IncRef(c) \/ DropRef(c)
           \/ FreeCellSlot \/ Exhaust \/ Exited \/ UNCHANGED vars
  <2>1. UNCHANGED <<tag, child>>
    BY <1>4 DEF IncRef, DropRef, FreeCellSlot, Exhaust, Exited, vars, store
  <2>2. QED
    BY <2>1, FewerAcyclic
<1>5. QED
  BY <1>1, <1>2, <1>3, <1>4 DEF Next

LEMMA AlwaysAcyclic == Spec => [](CountInv /\ Acyclic)
BY InitCounts, NextCounts, InitAcyclic, NextAcyclic, PTL DEF Spec

(* No object contains itself, directly or through others: what can be reached
   from its parts has higher numbers.                                      *)
THEOREM NothingContainsItself == Spec => []NoCycles
<1>1. ASSUME CountInv, Acyclic, NEW c \in Cell, tag[c] \in ObjectTags
      PROVE  c \notin Closure(Parts({c}))
  <2>1. PICK rank \in [Cell -> Nat] : Ranked(rank)
    BY <1>1 DEF Acyclic
  <2> DEFINE W == {d \in Cell : tag[d] \in ObjectTags => rank[c] < rank[d]}
  <2>2. child \in [Cell -> [Slot -> Cell]]
    BY <1>1 DEF CountInv, StoreInv, TypeOK
  <2>3. Parts({c}) \subseteq W
    <3> SUFFICES ASSUME NEW d \in Parts({c}) PROVE d \in W
      OBVIOUS
    <3>1. \E b \in {c}, s \in Slot : /\ tag[b] \in ObjectTags
                                     /\ <<tag[b], s>> \in Counted /\ child[b][s] = d
      <4> DEFINE one == {c}
      <4>1. d \in Parts(one)
        OBVIOUS
      <4> HIDE DEF one
      <4>2. \E b \in one, s \in Slot : /\ tag[b] \in ObjectTags
                                      /\ <<tag[b], s>> \in Counted /\ child[b][s] = d
        BY <4>1, PartsOf
      <4>3. QED
        BY <4>2 DEF one
    <3>2. PICK s \in Slot : <<tag[c], s>> \in Counted /\ child[c][s] = d
      BY <3>1
    <3>3. QED
      BY <1>1, <2>1, <2>2, <3>2 DEF Ranked
  <2>4. Parts(W) \subseteq W
    <3> SUFFICES ASSUME NEW d \in Parts(W) PROVE d \in W
      OBVIOUS
    <3>1. PICK p \in W, s \in Slot : /\ tag[p] \in ObjectTags
                                     /\ <<tag[p], s>> \in Counted /\ child[p][s] = d
      BY PartsOf
    <3>2. p \in Cell /\ d \in Cell /\ rank[c] < rank[p]
      BY <2>2, <3>1
    <3>3. tag[d] \in ObjectTags => rank[p] < rank[d]
      BY <2>1, <3>1, <3>2 DEF Ranked
    <3>4. rank[c] \in Nat /\ rank[p] \in Nat /\ rank[d] \in Nat
      BY <1>1, <3>2
    <3>5. QED
      BY <3>2, <3>3, <3>4
  <2>5. c \notin W
    BY <1>1
  <2> HIDE DEF W
  <2>6. QED
    BY <2>3, <2>4, <2>5, ClosureLeast
<1>2. CountInv /\ Acyclic => NoCycles
  BY <1>1 DEF NoCycles
<1>3. QED
  BY <1>2, AlwaysAcyclic, PTL

(* Between operations every object can be reached from what the C code holds,
   from what is locked in or from what a keyword lost: the cascade of dec_ref
   and free_cell frees all it should.                                      *)
THEOREM NothingIsGarbage == Spec => []NoGarbage
<1>1. ASSUME CountInv, Acyclic, freeing = <<>>
      PROVE  \A c \in Cell : tag[c] \in ObjectTags =>
               c \in Closure({d \in Cell : held[d] > 0 \/ lost[d] > 0 \/ count[d] = MaxRef})
  <2> DEFINE Start == {d \in Cell : held[d] > 0 \/ lost[d] > 0 \/ count[d] = MaxRef}
             C     == Closure(Start)
             Bad   == {c \in Cell : tag[c] \in ObjectTags /\ c \notin C}
  <2>1. PICK rank \in [Cell -> Nat] : Ranked(rank)
    BY <1>1 DEF Acyclic
  <2>2. Start \subseteq C /\ Parts(C) \subseteq C
    <3>1. Start \in SUBSET Cell /\ TypeOK
      BY <1>1 DEF CountInv, StoreInv
    <3> HIDE DEF Start
    <3>2. QED
      BY <3>1, ClosureClosed
  <2>3. ASSUME Bad # {}
        PROVE  FALSE
    <3> DEFINE A == {rank[c] : c \in Bad}
    <3>1. PICK c \in Bad : \A d \in Bad : rank[c] <= rank[d]
      <4>1. A \in SUBSET Nat /\ A # {}
        BY <2>3
      <4>2. PICK x \in A : \A y \in A : x <= y
        <5> HIDE DEF A
        <5>1. QED
          BY <4>1, Least
      <4>3. QED
        BY <4>2
    <3>2. c \in Cell /\ tag[c] \in ObjectTags /\ c \notin C /\ c \notin Start
      BY <2>2, <3>1
    <3> HIDE DEF Start, C, Bad, A
    <3>3. ~(held[c] > 0) /\ ~(lost[c] > 0) /\ count[c] # MaxRef
      BY <3>2 DEF Start
    <3>4. /\ held[c] \in Nat /\ lost[c] \in Nat /\ count[c] \in 0 .. MaxRef
          /\ TypeOK
      BY <1>1, <3>2 DEF CountInv, StoreInv, TypeOK
    <3>5. at[c] = 0
      BY <1>1, <3>2, <3>4, NothingMarked DEF CountInv
    <3>6. count[c] > 0
      BY <1>1, <3>2, <3>5 DEF CountInv, LiveCounted, Live
    <3>7. count[c] = Cardinality(References(c)) + held[c] + lost[c]
      BY <1>1, <3>2, <3>3, <3>4 DEF CountInv, CountsReferences
    <3>8. References(c) # {}
      <4>1. Cardinality(References(c)) \in Nat
        BY ReferencesFinite
      <4>2. References(c) = {} => Cardinality(References(c)) = 0
        BY FS_EmptySet
      <4>3. Cardinality(References(c)) # 0
        BY <3>3, <3>4, <3>6, <3>7
      <4>4. QED
        BY <4>2, <4>3
    <3>9. PICK p \in Cell, s \in Slot : /\ tag[p] \in ObjectTags /\ child[p][s] = c
                                        /\ <<tag[p], s>> \in Counted
      <4>1. PICK r \in Cell \X Slot : /\ tag[r[1]] \in ObjectTags /\ child[r[1]][r[2]] = c
                                      /\ <<tag[r[1]], r[2]>> \in Counted
        BY <3>8 DEF References
      <4>2. r[1] \in Cell /\ r[2] \in Slot
        OBVIOUS
      <4>3. QED
        BY <4>1, <4>2
    <3>10. rank[p] < rank[c] /\ rank[p] \in Nat /\ rank[c] \in Nat
      BY <2>1, <3>2, <3>9 DEF Ranked
    <3>11. p \notin Bad
      BY <3>1, <3>10
    <3>12. p \in C
      BY <3>9, <3>11 DEF Bad
    <3>13. c \in Parts(C)
      BY <3>9, <3>12, PartsOf
    <3>14. QED
      BY <2>2, <3>2, <3>13
  <2>4. QED
    BY <2>3
<1>2. CountInv /\ Acyclic => NoGarbage
  BY <1>1 DEF NoGarbage
<1>3. QED
  BY <1>2, AlwaysAcyclic, PTL

-----------------------------------------------------------------------------
(***************************************************************************)
(* Cons space implements the safe store: every step of the pages, the free *)
(* list and the reference counts builds, retains, forgets or recycles an   *)
(* object as SafeStore allows, or is invisible.                            *)
(***************************************************************************)

-----------------------------------------------------------------------------
(* What the safe store sees of cons space. *)
PartsMap == [c \in Cell |-> Parts({c})]
Roots    == {c \in Cell : held[c] > 0}

LEMMA PartsOfOne ==
  ASSUME NEW c, NEW d
  PROVE  d \in Parts({c}) <=> /\ tag[c] \in ObjectTags
                              /\ \E s \in Slot : <<tag[c], s>> \in Counted /\ child[c][s] = d
<1>1. ASSUME d \in Parts({c})
      PROVE  /\ tag[c] \in ObjectTags
             /\ \E s \in Slot : <<tag[c], s>> \in Counted /\ child[c][s] = d
  <2>1. PICK q \in {c} \X Slot : /\ tag[q[1]] \in ObjectTags
                                 /\ <<tag[q[1]], q[2]>> \in Counted
                                 /\ child[q[1]][q[2]] = d
    BY <1>1 DEF Parts
  <2>2. q[1] = c /\ q[2] \in Slot
    OBVIOUS
  <2>3. QED
    BY <2>1, <2>2
<1>2. ASSUME tag[c] \in ObjectTags, NEW s \in Slot, <<tag[c], s>> \in Counted, child[c][s] = d
      PROVE  d \in Parts({c})
  <2>1. <<c, s>> \in {q \in {c} \X Slot : /\ tag[q[1]] \in ObjectTags
                                         /\ <<tag[q[1]], q[2]>> \in Counted}
    BY <1>2
  <2>2. QED
    BY <1>2, <2>1 DEF Parts
<1>3. QED
  BY <1>1, <1>2

(* The same, of every cell and in the next state. *)
PartsRead ==
  \A c, d : d \in Parts({c}) <=>
    /\ tag[c] \in ObjectTags
    /\ \E s \in Slot : <<tag[c], s>> \in Counted /\ child[c][s] = d

LEMMA PartsReadNow == PartsRead
BY PartsOfOne DEF PartsRead

LEMMA PartsReadNext == PartsRead'
BY PartsReadNow, PTL

(* The parts of an object that is as it was are what they were. *)
LEMMA SameParts ==
  ASSUME NEW c, \/ tag'[c] = tag[c] /\ child'[c] = child[c]
                \/ tag'[c] \notin ObjectTags /\ tag[c] \notin ObjectTags
  PROVE  Parts({c})' = Parts({c})
<1> DEFINE Q == {q \in {c} \X Slot : tag[q[1]] \in ObjectTags
                                     /\ <<tag[q[1]], q[2]>> \in Counted}
<1>1. \A q \in {c} \X Slot : q[1] = c
  OBVIOUS
<1>2. CASE tag'[c] = tag[c] /\ child'[c] = child[c]
  BY <1>1, <1>2 DEF Parts
<1>3. CASE tag'[c] \notin ObjectTags /\ tag[c] \notin ObjectTags
  BY <1>1, <1>3 DEF Parts
<1>4. QED
  BY <1>2, <1>3

-----------------------------------------------------------------------------
(* A constructor builds an object of what is there. *)
LEMMA BuiltIsBuild ==
  ASSUME CountInv, NEW fl \in Cell, NEW t, NEW v, Built(fl, t, v)
  PROVE  \E ps \in SUBSET Cell :
           /\ fl \notin Objects /\ fl \notin Pinned
           /\ ps \subseteq Objects \cup Pinned
           /\ Objects' = Objects \cup {fl}
           /\ PartsMap' = [PartsMap EXCEPT ![fl] = ps]
           /\ fl \in Roots' /\ Roots' \subseteq Roots \cup {fl}
<1> DEFINE ps == Parts({fl})'
<1>1. /\ fl \notin Pinned /\ tag[fl] \notin ObjectTags /\ v \in [Slot -> Cell]
      /\ \A s \in Slot : v[s] # fl /\ (v[s] \in Pinned \/ tag[v[s]] \in ObjectTags)
      /\ t \in ObjectTags /\ tag'[fl] = t /\ child'[fl] = v /\ held'[fl] = 1
  BY DEF Built
<1>2. \A c \in Cell \ {fl} :
        /\ tag[c] \in ObjectTags => tag'[c] = tag[c] /\ child'[c] = child[c]
        /\ tag'[c] \in ObjectTags => tag[c] \in ObjectTags
        /\ held'[c] = IF c \in Pinned THEN held[c] ELSE held[c] - Uses(Moved, t, v, c)
  BY DEF Built
<1>3. \A d \in ps : \E s \in Slot : d = v[s]
  <2> SUFFICES ASSUME NEW d \in ps PROVE \E s \in Slot : d = v[s]
    OBVIOUS
  <2>1. \E s \in Slot : <<tag'[fl], s>> \in Counted /\ child'[fl][s] = d
    BY PartsReadNext DEF PartsRead
  <2>2. QED
    BY <1>1, <2>1
<1>4. ps \subseteq Cell /\ ps \subseteq Objects \cup Pinned
  BY <1>1, <1>3 DEF Objects
<1>5. fl \notin Objects /\ Objects' = Objects \cup {fl}
  BY <1>1, <1>2 DEF Objects
<1>6. \A c \in Cell \ {fl} : Parts({c})' = Parts({c})
  BY <1>2, SameParts
<1>7. PartsMap' = [PartsMap EXCEPT ![fl] = ps]
  BY <1>6 DEF PartsMap
<1>8. fl \in Roots' /\ Roots' \subseteq Roots \cup {fl}
  <2>1. ASSUME NEW c \in Cell \ {fl}, held'[c] > 0
        PROVE  held[c] > 0
    <3>1. held[c] \in Nat /\ Uses(Moved, t, v, c) \in Nat
      BY UsesNat DEF CountInv, StoreInv, TypeOK
    <3>2. held'[c] = held[c] \/ held'[c] = held[c] - Uses(Moved, t, v, c)
      BY <1>2
    <3>3. QED
      BY <2>1, <3>1, <3>2
  <2>2. QED
    BY <1>1, <2>1 DEF Roots
<1> HIDE DEF ps
<1>9. QED
  BY <1>1, <1>4, <1>5, <1>7, <1>8

(* Some set of objects that contains the roots and the parts of its members
   does without c.                                                         *)
Unreachable(c) ==
  \E S \in SUBSET Objects : /\ Roots \subseteq S
                            /\ \A d \in S : PartsMap[d] \cap Objects \subseteq S
                            /\ c \notin S

(* What the client can name can be reached. *)
LEMMA AccessibleReachable ==
  ASSUME CountInv, freeing = <<>>, NEW c \in Cell, Accessible(c), c \notin Pinned
  PROVE  c \in Objects /\ ~Unreachable(c)
<1>1. tag[c] \in ObjectTags
  BY AccessibleObject
<1>2. ASSUME NEW S \in SUBSET Objects, Roots \subseteq S,
             \A d \in S : PartsMap[d] \cap Objects \subseteq S
      PROVE  c \in S
  <2>1. CASE held[c] > 0
    BY <1>2, <2>1 DEF Roots
  <2>2. ASSUME NEW p \in Cell, held[p] > 0, NEW s \in Slot,
               <<tag[p], s>> \in Counted, child[p][s] = c
        PROVE  c \in S
    <3>1. p \in S
      BY <1>2, <2>2 DEF Roots
    <3>2. c \in Parts({p})
      BY <2>2, CountedFacts, PartsOfOne
    <3>3. c \in PartsMap[p] \cap Objects
      BY <1>1, <3>2 DEF PartsMap, Objects
    <3>4. QED
      BY <1>2, <3>1, <3>3
  <2>3. QED
    BY <2>1, <2>2 DEF Accessible
<1>3. QED
  BY <1>1, <1>2 DEF Unreachable, Objects

(* What free_cell recycles cannot be reached: the objects that have not been
   begun to be freed keep together.                                        *)
LEMMA ReleasedUnreachable ==
  ASSUME CountInv, freeing # <<>>
  PROVE  Unreachable(Head(freeing))
<1> DEFINE S == {d \in Objects : at[d] = 0}
<1>1. \A c \in Cell : at[c] \in Nat
  BY DEF CountInv, StoreInv, TypeOK
<1>2. Roots \subseteq S
  <2>1. ASSUME NEW c \in Cell, held[c] > 0
        PROVE  tag[c] \in ObjectTags /\ at[c] = 0
    <3>1. tag[c] \in ObjectTags
      BY <2>1 DEF CountInv, Grounded
    <3>2. c \notin Pinned
      BY <3>1, PinnedNoObject
    <3>3. QED
      BY <2>1, <3>2, ReferredTo
  <2>2. QED
    BY <2>1 DEF Roots, Objects
<1>3. ASSUME NEW d \in S, NEW e \in PartsMap[d] \cap Objects
      PROVE  e \in S
  <2>1. /\ d \in Cell /\ tag[d] \in ObjectTags /\ at[d] = 0
        /\ e \in Cell /\ tag[e] \in ObjectTags /\ e \in Parts({d})
    BY <1>3 DEF Objects, PartsMap
  <2>2. PICK s \in Slot : <<tag[d], s>> \in Counted /\ child[d][s] = e
    BY <2>1, PartsOfOne
  <2>3. <<d, s>> \in References(e)
    BY <2>1, <2>2 DEF References, Slot
  <2>4. e \notin Pinned
    BY <2>1, PinnedNoObject
  <2>5. at[e] = 0
    BY <2>1, <2>3, <2>4, ReferredTo
  <2>6. QED
    BY <2>1, <2>5 DEF Objects
<1>4. Head(freeing) \notin S
  <2>1. at[Head(freeing)] \in 1 .. NSlots + 1
    BY TopFacts
  <2>2. QED
    BY <2>1
<1>5. S \in SUBSET Objects
  OBVIOUS
<1> HIDE DEF S
<1>6. QED
  BY <1>2, <1>3, <1>4, <1>5 DEF Unreachable

-----------------------------------------------------------------------------
(* The refinement.                                                         *)

LEMMA InitRefines == Init => Store!Init
<1> SUFFICES ASSUME Init PROVE Store!Init
  OBVIOUS
<1>1. \A c \in Cell : tag[c] \notin ObjectTags /\ held[c] = 0
  BY DEF Init, ObjectTags
<1>2. \A c \in Cell : Parts({c}) = {}
  BY <1>1, PartsOfOne
<1>3. QED
  BY <1>1, <1>2 DEF Store!Init

(* A step that changes neither the objects, nor what they refer to, nor what
   the client refers to is invisible.                                      *)
LEMMA Invisible ==
  ASSUME UNCHANGED held,
         \A c \in Cell : \/ tag'[c] = tag[c] /\ child'[c] = child[c]
                         \/ tag'[c] \notin ObjectTags /\ tag[c] \notin ObjectTags
  PROVE  UNCHANGED <<Objects, PartsMap, Roots>>
<1>1. \A c \in Cell : Parts({c})' = Parts({c})
  BY SameParts
<1>2. Objects' = Objects /\ Roots' = Roots
  BY DEF Objects, Roots
<1>3. PartsMap' = PartsMap
  BY <1>1 DEF PartsMap
<1>4. QED
  BY <1>2, <1>3

LEMMA BuildRefines ==
  ASSUME CountInv, NEW fl \in Cell, NEW t, NEW v, Built(fl, t, v)
  PROVE  Store!Next
<1>1. PICK ps \in SUBSET Cell :
        /\ fl \notin Objects /\ fl \notin Pinned
        /\ ps \subseteq Objects \cup Pinned
        /\ Objects' = Objects \cup {fl}
        /\ PartsMap' = [PartsMap EXCEPT ![fl] = ps]
        /\ fl \in Roots' /\ Roots' \subseteq Roots \cup {fl}
  BY BuiltIsBuild
<1>2. Store!Build(fl, ps)
  BY <1>1 DEF Store!Build, Objects, PartsMap, Roots
<1>3. QED
  BY <1>2 DEF Store!Next

LEMMA IncRefRefines ==
  ASSUME CountInv, NEW c \in Cell, IncRef(c)
  PROVE  Store!Next
<1>1. /\ freeing = <<>> /\ Accessible(c) /\ c \notin Pinned
      /\ held' = [held EXCEPT ![c] = @ + 1] /\ UNCHANGED <<tag, child>>
  BY DEF IncRef, Idle
<1>2. c \in Objects /\ ~Unreachable(c)
  BY <1>1, AccessibleReachable
<1>3. held \in [Cell -> Nat]
  BY DEF CountInv, StoreInv, TypeOK
<1>4. Roots' = Roots \cup {c}
  BY <1>1, <1>3 DEF Roots
<1>5. \A d \in Cell : Parts({d})' = Parts({d})
  BY <1>1, SameParts
<1>6. Objects' = Objects /\ PartsMap' = PartsMap
  BY <1>1, <1>5 DEF Objects, PartsMap
<1>7. Store!Retain(c)
  BY <1>2, <1>4, <1>6
     DEF Store!Retain, Store!Garbage, Unreachable, Objects, PartsMap, Roots
<1>8. QED
  BY <1>7 DEF Store!Next

LEMMA DropRefRefines ==
  ASSUME CountInv, NEW c \in Cell, DropRef(c)
  PROVE  Store!Next \/ UNCHANGED <<Objects, PartsMap, Roots>>
<1>1. held' = [held EXCEPT ![c] = @ - 1] /\ held[c] > 0 /\ UNCHANGED <<tag, child>>
  BY DEF DropRef
<1>2. held \in [Cell -> Nat]
  BY DEF CountInv, StoreInv, TypeOK
<1>3. \A d \in Cell : Parts({d})' = Parts({d})
  BY <1>1, SameParts
<1>4. Objects' = Objects /\ PartsMap' = PartsMap
  BY <1>1, <1>3 DEF Objects, PartsMap
<1>5. Roots' = Roots \/ Roots' = Roots \ {c}
  BY <1>1, <1>2 DEF Roots
<1>6. CASE Roots' = Roots
  BY <1>4, <1>6
<1>7. CASE Roots' = Roots \ {c}
  <2>1. Store!Forget(c)
    BY <1>4, <1>7 DEF Store!Forget, Objects, PartsMap, Roots
  <2>2. QED
    BY <2>1 DEF Store!Next
<1>8. QED
  BY <1>5, <1>6, <1>7

LEMMA ReleaseRefines ==
  ASSUME CountInv, FreeCellRelease
  PROVE  Store!Next
<1>0. PICK c \in Cell : c = Head(freeing)
  BY TopFacts DEF FreeCellRelease
<1>1. /\ freeing # <<>> /\ tag' = [tag EXCEPT ![c] = "FREE"] /\ held' = held
      /\ child' = [child EXCEPT ![c] = [s \in Slot |-> IF s = 2 THEN freelist ELSE NIL]]
  BY <1>0 DEF FreeCellRelease
<1>2. tag[c] \in ObjectTags /\ Unreachable(c)
  BY <1>0, <1>1, TopFacts, ReleasedUnreachable
<1>3. tag \in [Cell -> CellTags] /\ child \in [Cell -> [Slot -> Cell]]
  BY DEF CountInv, StoreInv, TypeOK, CellTags
<1>4. /\ tag'[c] \notin ObjectTags
      /\ \A d \in Cell \ {c} : tag'[d] = tag[d] /\ child'[d] = child[d]
  BY <1>1, <1>2, <1>3 DEF ObjectTags
<1>5. \A d \in Cell \ {c} : Parts({d})' = Parts({d})
  BY <1>4, SameParts
<1>6. Parts({c})' = {}
  BY <1>4, PartsReadNext DEF PartsRead
<1>a. c \in Objects /\ Objects' = Objects \ {c}
  BY <1>2, <1>4 DEF Objects
<1>b. PartsMap' = [PartsMap EXCEPT ![c] = {}]
  BY <1>5, <1>6 DEF PartsMap
<1>7. /\ c \in Objects /\ Objects' = Objects \ {c}
      /\ PartsMap' = [PartsMap EXCEPT ![c] = {}] /\ Roots' = Roots
  BY <1>1, <1>a, <1>b DEF Roots
<1>8. Store!Recycle(c)
  BY <1>2, <1>7 DEF Store!Recycle, Store!Garbage, Unreachable, Objects, PartsMap, Roots
<1>9. QED
  BY <1>2, <1>8 DEF Store!Next

LEMMA NextRefines ==
  CountInv /\ [Next]_vars => [Store!Next]_(Store!vars)
<1> SUFFICES ASSUME CountInv, [Next]_vars
             PROVE  Store!Next \/ UNCHANGED <<Objects, PartsMap, Roots>>
  BY DEF Store!vars, Objects, PartsMap, Roots
<1>1. CASE InitialiseConsPages
  <2>1. SameObjects(tag', count', child') /\ UNCHANGED held
    BY <1>1, FirstPageObjects DEF CountInv, InitialiseConsPages, control
  <2>2. \A c \in Cell : \/ tag'[c] = tag[c] /\ child'[c] = child[c]
                        \/ tag'[c] \notin ObjectTags /\ tag[c] \notin ObjectTags
    BY <2>1 DEF SameObjects
  <2>3. QED
    BY <2>1, <2>2, Invisible
<1>2. ASSUME NEW t \in Tags, NEW v \in [Slot -> Cell],
             Construct(t, v) \/ ConstructOnNewPage(t, v)
      PROVE  Store!Next
  BY <1>2, ConstructBuilds, NewPageBuilds, BuildRefines
<1>3. ASSUME NEW c \in Cell, IncRef(c) \/ DropRef(c)
      PROVE  Store!Next \/ UNCHANGED <<Objects, PartsMap, Roots>>
  BY <1>3, IncRefRefines, DropRefRefines
<1>4. CASE FreeCellRelease
  BY <1>4, ReleaseRefines
<1>5. CASE FreeCellSlot \/ Exhaust \/ Exited \/ UNCHANGED vars
  <2>1. UNCHANGED <<tag, child, held>>
    BY <1>5 DEF FreeCellSlot, Exhaust, Exited, vars, store, control
  <2>2. QED
    BY <2>1, Invisible
<1>6. QED
  BY <1>1, <1>2, <1>3, <1>4, <1>5 DEF Next

(* Cons space is a safe store: constructors build from what is there, inc_ref
   takes only what can be reached, and free_cell recycles only what cannot.  *)
THEOREM ConsSpaceIsSafe == Spec => ImplementsSafeStore
BY InitRefines, NextRefines, CountsCorrect, PTL DEF Spec, ImplementsSafeStore, Store!Spec
=============================================================================
