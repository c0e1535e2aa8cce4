------------------------------ MODULE ConsSpace ------------------------------
(***************************************************************************)
(* Cons space: the store in which every object of the Lisp lives.          *)
(*                                                                         *)
(* conspage.c keeps pages of equal cells and threads the free ones on one  *)
(* list; consspaceobject.c builds objects in the cells and counts the      *)
(* references to them; a cell whose count falls to zero is freed, and      *)
(* freeing it drops the references it holds, which may free further cells. *)
(*                                                                         *)
(* The program has one thread, so an operation of the client (the reader,  *)
(* the evaluator, the arithmetic) is one step - except for dec_ref, whose  *)
(* recursion through free_cell is modelled activation by activation: the   *)
(* stack `freeing' holds the cells free_cell is working on, innermost      *)
(* first, and `at' how far it has got with each of them.                   *)
(***************************************************************************)
EXTENDS Integers, Sequences, FiniteSets

CONSTANTS
  NPages,        \* NCONSPAGES: how many cons pages there can be
  PageSize,      \* CONSPAGESIZE: cells on a page
  NSlots,        \* pointers an object can hold; 1 and 2 are in the cell itself,
                 \* the others in the vector space object of a VECP cell
  MaxRef,        \* MAXREFERENCE: the count that locks a cell in
  CounterRange,  \* the allocation counters are unsigned: they wrap here (2^64)
  StaleCounts,   \* what malloc may leave in the count field of a new page
  Tags,          \* the types of object the client builds
  PinnedArgs,    \* bound: which of NIL and T the client puts into objects
  MaxHeld        \* bound: references to one cell the client owns at once

VARIABLES
  pages,         \* initialised_cons_pages
  freelist,      \* freelist, the first free cell
  tag,           \* cell->tag
  count,         \* cell->count
  child,         \* the pointers in the payload of each cell, by slot
  allocated,     \* total_cells_allocated
  freed,         \* total_cells_freed
  freeing,       \* activations of free_cell, innermost first
  at,            \* the slot each activation looks at next; 0: not being freed
  held,          \* how many references to each cell the C code itself owns
  status,        \* "running", or "exited" by exit( 1)
  depth,         \* history: place on the free list, counted from its end
  lost           \* history: references dropped without a decrement

store   == <<pages, freelist, tag, count, child, allocated, freed>>
control == <<freeing, at, held, status>>
history == <<depth, lost>>
vars    == <<store, control, history>>

-----------------------------------------------------------------------------
(* A struct cons_pointer is a page and an offset in it.                    *)
Cell   == (0 .. NPages - 1) \X (0 .. PageSize - 1)
NIL    == <<0, 0>>
T      == <<0, 1>>
Pinned == {NIL, T}
Slot   == 1 .. NSlots

ObjectTags == {"CONS", "EXEP", "FUNC", "INTR", "KEYW", "LMDA", "NLMD", "RTIO",
               "READ", "WRIT", "SPFM", "STRG", "SYMB", "REAL", "TIME", "VECP"}

ASSUME SizesAssumption ==
  /\ NPages \in Nat \ {0}
  /\ PageSize \in Nat /\ PageSize > 2
  /\ NSlots \in Nat /\ NSlots >= 2
  /\ MaxRef \in Nat /\ MaxRef > 1
  /\ CounterRange \in Nat \ {0}
  /\ MaxHeld \in Nat

ASSUME ValuesAssumption ==
  /\ StaleCounts \subseteq 0 .. MaxRef
  /\ StaleCounts # {}
  /\ Tags \subseteq ObjectTags
  /\ NIL \in PinnedArgs /\ PinnedArgs \subseteq Pinned

(***************************************************************************)
(* What becomes of a pointer given to a constructor: it is counted afresh  *)
(* (the caller keeps its own reference), or the new object takes over the  *)
(* reference the caller owned.                                             *)
(***************************************************************************)
Copied == ({"CONS", "LMDA", "NLMD", "RTIO"} \X {1, 2})
            \cup ({"FUNC", "SPFM"} \X {1}) \cup {<<"EXEP", 2>>}
Moved  == ({"INTR", "KEYW", "STRG", "SYMB", "READ", "WRIT"} \X {2})
            \cup {<<"EXEP", 1>>}

(* The slots that hold a counted reference, by type of object. *)
Counted == Copied \cup Moved \cup ({"VECP"} \X (3 .. NSlots))

(* The slots free_cell drops: it has no case for a keyword. *)
Dropped == ({"CONS", "EXEP", "LMDA", "NLMD", "RTIO"} \X {1, 2})
             \cup ({"FUNC", "SPFM"} \X {1})
             \cup ({"INTR", "READ", "WRIT", "STRG", "SYMB"} \X {2})
             \cup ({"VECP"} \X (3 .. NSlots))

Live(c) == tag[c] \in ObjectTags /\ at[c] = 0

(* The counted references to c from the objects of the heap; an object that
   is being freed no longer counts for the slots it has already dropped.   *)
References(c) ==
  {r \in Cell \X Slot : /\ tag[r[1]] \in ObjectTags
                        /\ <<tag[r[1]], r[2]>> \in Counted
                        /\ r[2] >= at[r[1]]
                        /\ child[r[1]][r[2]] = c}

(* What the client can name: what it holds, and the parts of what it holds. *)
Accessible(c) ==
  \/ c \in Pinned \/ held[c] > 0
  \/ \E p \in Cell : held[p] > 0 /\ \E s \in Slot : /\ <<tag[p], s>> \in Counted
                                                   /\ child[p][s] = c

-----------------------------------------------------------------------------
Init ==
  /\ pages = 0 /\ freelist = NIL
  /\ tag = [c \in Cell |-> "none"]
  /\ count = [c \in Cell |-> 0]
  /\ child = [c \in Cell |-> [s \in Slot |-> NIL]]
  /\ allocated = 0 /\ freed = 0
  /\ freeing = <<>> /\ at = [c \in Cell |-> 0]
  /\ held = [c \in Cell |-> 0]
  /\ status = "running"
  /\ depth = [c \in Cell |-> 0] /\ lost = [c \in Cell |-> 0]

(***************************************************************************)
(* make_cons_page: the store with one page more.  All the cells of the new *)
(* page go on the free list, except that the first two cells of page 0     *)
(* become NIL and T for ever.  The count of a new free cell is not set.    *)
(***************************************************************************)
OnNewPage(c) == c[1] = pages
FirstFree    == IF pages = 0 THEN 2 ELSE 0
ShortPageHead == <<pages, PageSize - 2>>       \* faulty: one cell is forgotten
NewHead      == <<pages, PageSize - 1>>
MoreTag      == [c \in Cell |-> IF ~OnNewPage(c) THEN tag[c]
                                ELSE IF c = NIL THEN "NIL"
                                ELSE IF c = T THEN "TRUE" ELSE "FREE"]
MoreCount(stale) ==
  [c \in Cell |-> IF ~OnNewPage(c) THEN count[c]
                  ELSE IF c \in Pinned THEN MaxRef ELSE stale[c[2]]]
BrokenCdr(c) == NIL                            \* faulty: the cells are not linked
FreeCdr(c)   == IF c[2] = FirstFree THEN freelist ELSE <<c[1], c[2] - 1>>
MoreChild    == [c \in Cell |-> IF ~OnNewPage(c) THEN child[c]
                                ELSE [s \in Slot |-> IF c = T /\ s <= 2 THEN T
                                                     ELSE IF c \notin Pinned /\ s = 2
                                                     THEN FreeCdr(c) ELSE NIL]]
MoreDepth    == [c \in Cell |-> IF OnNewPage(c) /\ c \notin Pinned
                                THEN c[2] - FirstFree + 1 ELSE depth[c]]

(* The allocation counters wrap (a faulty form: they stick at their limit). *)
StickyCounter(n) == IF n < CounterRange - 1 THEN n + 1 ELSE n
Counter(n)       == (n + 1) % CounterRange

Idle == status = "running" /\ freeing = <<>>

(* initialise_cons_pages: called once, before anything else. *)
InitialiseConsPages ==
  /\ Idle /\ pages = 0
  /\ \E stale \in [0 .. PageSize - 1 -> StaleCounts] : count' = MoreCount(stale)
  /\ pages' = 1 /\ freelist' = NewHead
  /\ tag' = MoreTag /\ child' = MoreChild /\ depth' = MoreDepth
  /\ UNCHANGED <<allocated, freed, control, lost>>

-----------------------------------------------------------------------------
(***************************************************************************)
(* Construction.  The arguments v of a constructor, by slot: the types the *)
(* constructors test, and references the caller can give.                  *)
(***************************************************************************)
IsA(c, ts) == c = NIL \/ tag[c] \in ts

Uses(kind, t, v, c) == Cardinality({s \in Slot : <<t, s>> \in kind /\ v[s] = c})

Arguments(t, v) ==
  /\ \A s \in Slot : /\ <<t, s>> \notin Copied \cup Moved => v[s] = NIL
                     /\ Accessible(v[s])
                     /\ v[s] \in Pinned => v[s] \in PinnedArgs
  /\ t \in {"STRG", "SYMB", "KEYW", "INTR"} => IsA(v[2], {t})
  /\ t = "RTIO" => tag[v[1]] = "INTR" /\ tag[v[2]] = "INTR"
  /\ \A c \in Cell \ Pinned : Uses(Moved, t, v, c) <= held[c]

(* Faulty forms of Incremented: a count runs past MaxRef; an object with the
   same thing in two slots counts it once.                                 *)
Unlimited(cn, t, v) == [c \in Cell |-> cn[c] + Uses(Copied, t, v, c)]
CountedOnce(cn, t, v) ==
  [c \in Cell |-> LET n == cn[c] + (IF Uses(Copied, t, v, c) > 0 THEN 1 ELSE 0)
                  IN  IF n < MaxRef THEN n ELSE MaxRef]

(* inc_ref on each copied pointer; a count stops at MaxRef. *)
Incremented(cn, t, v) ==
  [c \in Cell |-> LET n == cn[c] + Uses(Copied, t, v, c)
                  IN  IF n < MaxRef THEN n ELSE MaxRef]

(* allocate_cell takes the head of the free list fl, out of cells with tags
   tg, counts cn, payloads ch and free list places dp; the constructor
   fills it and the caller owns the one reference.                         *)
Take(t, v, fl, tg, cn, ch, dp) ==
  /\ tg[fl] = "FREE"
  /\ freelist' = ch[fl][2]
  /\ tag' = [tg EXCEPT ![fl] = t]
  /\ count' = Incremented([cn EXCEPT ![fl] = 1], t, v)
  /\ child' = [ch EXCEPT ![fl] = v]
  /\ depth' = [dp EXCEPT ![fl] = 0]
  /\ held' = [c \in Cell |-> IF c = fl THEN 1
                             ELSE IF c \in Pinned THEN held[c]
                             ELSE held[c] - Uses(Moved, t, v, c)]
  /\ allocated' = Counter(allocated)

(* A constructor, when there is a free cell. *)
Construct(t, v) ==
  /\ Idle /\ pages > 0 /\ freelist # NIL
  /\ Arguments(t, v)
  /\ Take(t, v, freelist, tag, count, child, depth)
  /\ UNCHANGED <<pages, freed, freeing, at, status, lost>>

(* A constructor, when allocate_cell must first make another page. *)
ConstructOnNewPage(t, v) ==
  /\ Idle /\ pages > 0 /\ freelist = NIL /\ pages < NPages
  /\ Arguments(t, v)
  /\ \E stale \in [0 .. PageSize - 1 -> StaleCounts] :
       Take(t, v, NewHead, MoreTag, MoreCount(stale), MoreChild, MoreDepth)
  /\ pages' = pages + 1
  /\ UNCHANGED <<freed, freeing, at, status, lost>>

(* A page is needed, and there are NPages already or malloc fails: exit( 1). *)
Exhaust ==
  /\ Idle /\ freelist = NIL
  /\ status' = "exited"
  /\ UNCHANGED <<store, freeing, at, held, history>>

-----------------------------------------------------------------------------
(* inc_ref by the client, of anything it can name; the cells pinned at
   MaxRef are not accounted for.                                           *)
IncRef(c) ==
  /\ Idle /\ Accessible(c) /\ c \notin Pinned /\ held[c] < MaxHeld
  /\ count' = [count EXCEPT ![c] = IF @ < MaxRef THEN @ + 1 ELSE @]
  /\ held' = [held EXCEPT ![c] = @ + 1]
  /\ UNCHANGED <<pages, freelist, tag, child, allocated, freed, freeing, at,
                 status, history>>

(***************************************************************************)
(* dec_ref(c): a count of zero or of MaxRef stays; a count that falls to   *)
(* zero calls free_cell.  `where' is the state of the activations of       *)
(* free_cell that are waiting for this one.                                *)
(***************************************************************************)
FreeCell(c, where) == freeing' = <<c>> \o freeing /\ at' = [where EXCEPT ![c] = 1]

(* Faulty forms of DecRef: it frees a cell that has one reference left; it
   decrements a count that is locked in; it never frees; free_cell does not
   go on after it.                                                         *)
DecRefEarly(c, where) ==
  IF count[c] \in {0, MaxRef}
  THEN at' = where /\ UNCHANGED <<count, freeing>>
  ELSE /\ count' = [count EXCEPT ![c] = 0]
       /\ IF count[c] <= 2 /\ tag[c] # "FREE" THEN FreeCell(c, where)
          ELSE freeing' = freeing /\ at' = where
DecRefUnlocks(c, where) ==
  IF count[c] = 0 THEN at' = where /\ UNCHANGED <<count, freeing>>
  ELSE /\ count' = [count EXCEPT ![c] = @ - 1]
       /\ IF count[c] = 1 /\ tag[c] # "FREE" THEN FreeCell(c, where)
          ELSE freeing' = freeing /\ at' = where
DecRefNeverFrees(c, where) ==
  /\ count' = [count EXCEPT ![c] = IF @ \in {0, MaxRef} THEN @ ELSE @ - 1]
  /\ at' = where /\ UNCHANGED freeing
DecRefStalls(c, where) ==
  IF count[c] \in {0, MaxRef} THEN UNCHANGED <<at, count, freeing>>
  ELSE /\ count' = [count EXCEPT ![c] = @ - 1]
       /\ IF count[c] = 1 /\ tag[c] # "FREE" THEN FreeCell(c, where)
          ELSE freeing' = freeing /\ at' = where

DecRef(c, where) ==
  IF count[c] \in {0, MaxRef}
  THEN at' = where /\ UNCHANGED <<count, freeing>>
  ELSE /\ count' = [count EXCEPT ![c] = @ - 1]
       /\ IF count[c] = 1 /\ tag[c] # "FREE" THEN FreeCell(c, where)
          ELSE freeing' = freeing /\ at' = where

(* The client drops a reference it owns. *)
DropRef(c) ==
  /\ Idle /\ held[c] > 0
  /\ held' = [held EXCEPT ![c] = @ - 1]
  /\ DecRef(c, at)
  /\ UNCHANGED <<pages, freelist, tag, child, allocated, freed, status, history>>

(* free_cell, the switch on the tag: the next slot of the cell on top. *)
FreeCellSlot ==
  /\ freeing # <<>> /\ at[Head(freeing)] <= NSlots
  /\ LET c   == Head(freeing)
         s   == at[c]
         k   == child[c][s]
         on  == [at EXCEPT ![c] = s + 1]
     IN  IF <<tag[c], s>> \in Dropped
         THEN DecRef(k, on) /\ UNCHANGED lost
         ELSE /\ at' = on
              /\ lost' = IF <<tag[c], s>> \in Counted /\ count[k] # MaxRef
                         THEN [lost EXCEPT ![k] = @ + 1] ELSE lost
              /\ UNCHANGED <<count, freeing>>
  /\ UNCHANGED <<pages, freelist, tag, child, allocated, freed, held, status, depth>>

(* free_cell, its end: the cell becomes the head of the free list. *)
FreeCellRelease ==
  /\ freeing # <<>> /\ at[Head(freeing)] = NSlots + 1
  /\ LET c == Head(freeing) IN
       /\ tag' = [tag EXCEPT ![c] = "FREE"]
       /\ child' = [child EXCEPT ![c] = [s \in Slot |-> IF s = 2 THEN freelist ELSE NIL]]
       /\ freelist' = c
       /\ depth' = [depth EXCEPT ![c] = depth[freelist] + 1]
       /\ at' = [at EXCEPT ![c] = 0]
       /\ lost' = [lost EXCEPT ![c] = 0]
  /\ freeing' = Tail(freeing)
  /\ freed' = Counter(freed)
  /\ UNCHANGED <<pages, count, allocated, held, status>>

(* The process is gone. *)
Exited == status = "exited" /\ UNCHANGED vars

Next ==
  \/ InitialiseConsPages
  \/ \E t \in Tags, v \in [Slot -> Cell] : Construct(t, v)
  \/ \E t \in Tags, v \in [Slot -> Cell] : ConstructOnNewPage(t, v)
  \/ \E c \in Cell : IncRef(c)
  \/ \E c \in Cell : DropRef(c)
  \/ FreeCellSlot
  \/ FreeCellRelease
  \/ Exhaust
  \/ Exited

Spec == Init /\ [][Next]_vars

(* The recursion of dec_ref runs on the one thread until it returns. *)
Fairness == WF_vars(FreeCellSlot) /\ WF_vars(FreeCellRelease)
FairSpec == Spec /\ Fairness

-----------------------------------------------------------------------------
(***************************************************************************)
(* Properties.                                                             *)
(***************************************************************************)

(* Types of the variables (the globals of conspage.c and the cell struct). *)
TypeOK ==
  /\ pages \in 0 .. NPages
  /\ freelist \in Cell
  /\ tag \in [Cell -> ObjectTags \cup {"none", "FREE", "NIL", "TRUE"}]
  /\ count \in [Cell -> 0 .. MaxRef]
  /\ child \in [Cell -> [Slot -> Cell]]
  /\ allocated \in 0 .. CounterRange - 1 /\ freed \in 0 .. CounterRange - 1
  /\ freeing \in Seq(Cell)
  /\ at \in [Cell -> 0 .. NSlots + 1]
  /\ held \in [Cell -> Nat]
  /\ status \in {"running", "exited"}
  /\ depth \in [Cell -> Nat] /\ lost \in [Cell -> Nat]

(* The free list, which is threaded through the payloads of the very cells
   it lists, holds every FREE cell once and nothing else, and ends: counted
   from its end the FREE cells have places 1, 2, 3, ... without repetition,
   the head has the highest and each cell points to the one below.         *)
Linked(fl, tg, ch, dp) ==
  /\ \A c \in Cell : (tg[c] = "FREE") <=> (dp[c] > 0)
  /\ \A c, d \in Cell : dp[c] = dp[d] /\ dp[c] > 0 => c = d
  /\ \A c \in Cell : dp[c] <= dp[fl]
  /\ \A c \in Cell : dp[c] > 0 => /\ dp[ch[c][2]] = dp[c] - 1
                                  /\ dp[c] = 1 => ch[c][2] = NIL
  /\ dp[fl] = 0 => fl = NIL
  /\ tg[NIL] \in {"none", "NIL"}

FreelistSound == Linked(freelist, tag, child, depth)

(* A cell belongs to a page that was made, or is nothing yet; NIL and T are
   locked in; what is not yet there has no count.                          *)
PagesMapped ==
  \A c \in Cell : /\ (tag[c] = "none") <=> (c[1] >= pages)
                  /\ tag[c] = "none" => count[c] = 0
                  /\ tag[c] \in {"NIL", "TRUE"} => count[c] = MaxRef

(* free_cell works on distinct objects, to which nothing refers any more:
   it is never entered for a cell that it has not left yet.                *)
StackSound ==
  /\ \A i \in 1 .. Len(freeing) : /\ tag[freeing[i]] \in ObjectTags
                                  /\ count[freeing[i]] = 0
  /\ \A i, j \in 1 .. Len(freeing) : freeing[i] = freeing[j] => i = j

(* Nothing refers to a page that was not made: neither the C code nor a
   payload (a fresh one holds NIL).                                        *)
ReferencesMapped ==
  \A c \in Cell : /\ held[c] > 0 => c[1] < pages
                  /\ \A s \in Slot : child[c][s] = NIL \/ child[c][s][1] < pages

(* What keeps the free list sound (the inductive invariant). *)
StoreInv ==
  TypeOK /\ FreelistSound /\ PagesMapped /\ StackSound /\ ReferencesMapped

(* The count of a cell that is not locked in is the number of references to
   it: from the objects of the heap, from the C code, and those a freed
   keyword failed to drop.  (inc_ref and dec_ref in the constructors and in
   free_cell balance, in the middle of a cascade too.)                     *)
CountsReferences ==
  \A c \in Cell : tag[c] \in ObjectTags /\ count[c] < MaxRef =>
    count[c] = Cardinality(References(c)) + held[c] + lost[c]

(* No object of the heap and no reference of the C code refers to a cell
   that is free, being freed, or not yet there: dec_ref never recycles a
   cell that somebody can still reach.                                     *)
NoDanglingReference ==
  \A c \in Cell : References(c) # {} \/ held[c] > 0 =>
    c \in Pinned \/ (Live(c) /\ count[c] > 0)

(* What keeps the counts right (the inductive invariant): moreover T is T,
   whatever is referred to is an object, exactly the cells on the stack of
   activations have been begun to be freed, only an object can have lost a
   decrement, and a count of zero is found on the stack only.              *)
Grounded      ==
  \A c \in Cell : /\ References(c) # {} => c \in Pinned \/ tag[c] \in ObjectTags
                  /\ held[c] > 0 => tag[c] \in ObjectTags
FreeingMarked == \A c \in Cell :
                   at[c] > 0 <=> \E i \in 1 .. Len(freeing) : freeing[i] = c
LiveCounted   ==
  \A c \in Cell : /\ Live(c) => count[c] > 0
                  /\ lost[c] > 0 => tag[c] \in ObjectTags
CountInv ==
  /\ StoreInv /\ CountsReferences /\ tag[T] \in {"none", "TRUE"}
  /\ Grounded /\ FreeingMarked /\ LiveCounted

(* What the objects in a set refer to, and what can be reached from a set. *)
Parts(S) == {child[r[1]][r[2]] : r \in
              {q \in S \X Slot : /\ tag[q[1]] \in ObjectTags
                                 /\ <<tag[q[1]], q[2]>> \in Counted}}
Closure(S) ==
  LET step[n \in 0 .. Cardinality(Cell)] ==
        IF n = 0 THEN S
        ELSE LET before == step[n - 1] IN before \cup Parts(before)
  IN  step[Cardinality(Cell)]

(* Between operations every object is reachable from a reference the C code
   owns, from a cell locked in at MaxRef, or from one lost by a keyword:
   the cascade frees all it should.                                        *)
NoGarbage ==
  freeing = <<>> =>
    \A c \in Cell : tag[c] \in ObjectTags =>
      c \in Closure({d \in Cell : held[d] > 0 \/ lost[d] > 0 \/ count[d] = MaxRef})

(* No object contains itself, so that counting references is enough to find
   garbage: an object is built only from objects that are there already.   *)
NoCycles ==
  \A c \in Cell : tag[c] \in ObjectTags => c \notin Closure(Parts({c}))

(* total_cells_allocated - total_cells_freed is the number of cells in use,
   also after the counters have wrapped.                                   *)
LedgerBalanced ==
  LET inUse == Cardinality({c \in Cell : tag[c] \in ObjectTags})
  IN  (allocated - freed) % CounterRange = inUse % CounterRange

(* A count that has reached MaxRef never changes again, and its cell stays
   what it is: NIL, T and whatever is locked in.                           *)
LockedIn ==
  [][\A c \in Cell : count[c] = MaxRef /\ tag[c] \notin {"none", "FREE"} =>
       count'[c] = MaxRef /\ tag'[c] = tag[c]]_vars

(* Another page is made only when no cell at all is free. *)
PagesOnlyWhenFull ==
  [][pages' # pages => \A c \in Cell : tag[c] # "FREE"]_vars

(* A cascade of decrements comes to its end. *)
CascadeEnds == freeing # <<>> ~> freeing = <<>>

(* Cons space is a safe store: only what nobody can reach is recycled, and
   an object keeps its parts until then.                                   *)
Store == INSTANCE SafeStore WITH
  Permanent <- Pinned,
  objects   <- {c \in Cell : tag[c] \in ObjectTags},
  parts     <- [c \in Cell |-> Parts({c})],
  roots     <- {c \in Cell : held[c] > 0}

ImplementsSafeStore == Store!Spec
=============================================================================
