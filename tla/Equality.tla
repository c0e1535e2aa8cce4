------------------------------ MODULE Equality ------------------------------
(***************************************************************************)
(* equal(), by which namespaces compare keys: structural comparison of     *)
(* lists and of strings, with a hash to tell most strings apart and a      *)
(* buffer into which strings are copied block by block (equal.c; the hash  *)
(* is made with the string, in consspaceobject.c).                         *)
(*                                                                         *)
(* Objects are built by the constructors, so that each refers to older     *)
(* ones; a call of equal is a stack of comparisons that are still to be    *)
(* made, and one step makes the innermost.                                 *)
(***************************************************************************)
EXTENDS Integers, Sequences

CONSTANTS
  Chars,      \* the characters of strings, as code points; 0 only ends one
  HashRange,  \* hashes are unsigned: they wrap here (2^32)
  Shipyard,   \* STRING_SHIPYARD_SIZE
  TextTags,   \* which of the types of string, symbol and keyword there are
  MaxCells    \* bound: objects built

VARIABLES
  heap,       \* the objects, each a cell; a pointer is an index, NIL is 0
  asked,      \* the pair of pointers equal was called with, or none
  todo,       \* the comparisons that are left, innermost first
  verdict     \* "open" until equal returns "true" or "false"

vars == <<heap, asked, todo, verdict>>

NIL == 0

ASSUME ConstantsAssumption ==
  /\ Chars \subseteq 0 .. HashRange - 1
  /\ HashRange \in Nat \ {0} /\ Shipyard \in Nat /\ Shipyard > 1
  /\ TextTags \subseteq {"STRG", "SYMB", "KEYW"}
  /\ MaxCells \in Nat

Pointer == 0 .. Len(heap)
Object(tag, car, cdr, chr, hash) ==
  [tag |-> tag, car |-> car, cdr |-> cdr, chr |-> chr, hash |-> hash]

Tag(p)   == IF p = NIL THEN "NIL" ELSE heap[p].tag
IsText(p) == Tag(p) \in TextTags
(* c_cdr: no error, but NIL, for what has no cdr. *)
Cdr(p)   == IF IsText(p) \/ Tag(p) = "CONS" THEN heap[p].cdr ELSE NIL

-----------------------------------------------------------------------------
(* Faulty forms of CalculateHash: it depends on the cell, not only on the
   characters; it does not wrap.                                           *)
HashOfPlace(c, tail) == (c + Len(heap)) % HashRange
HashUnbounded(c, tail) ==
  IF ~ IsText(tail) THEN 0
  ELSE IF heap[tail].cdr = NIL THEN c ELSE c * heap[tail].hash

(* calculate_hash.  The character of the last cell is never part of it. *)
CalculateHash(c, tail) ==
  IF ~ IsText(tail) THEN 0
  ELSE IF heap[tail].cdr = NIL THEN c
  ELSE (c * heap[tail].hash) % HashRange

Init == heap = <<>> /\ asked = <<>> /\ todo = <<>> /\ verdict = "open"

Build(object) ==
  /\ asked = <<>> /\ Len(heap) < MaxCells
  /\ heap' = Append(heap, object)
  /\ UNCHANGED <<asked, todo, verdict>>

(* make_string, make_symbol, make_keyword: only onto a tail of their type. *)
MakeStringLikeThing(c, tail, tag) ==
  /\ Tag(tail) \in {tag, "NIL"} /\ (c = 0 => tail = NIL)
  /\ Build(Object(tag, NIL, tail, c, CalculateHash(c, tail)))

MakeCons(car, cdr) == Build(Object("CONS", car, cdr, 0, 0))
MakeInteger(n)     == Build(Object("INTR", NIL, NIL, n, 0))
(* A hashmap, into which nothing has been put. *)
MakeHashmap        == Build(Object("VECP", NIL, NIL, 0, 0))

-----------------------------------------------------------------------------
(* The place n characters after p, n no more than the size of the buffer. *)
After(p, n) ==
  LET place[i \in 0 .. Shipyard] == IF i = 0 THEN p ELSE Cdr(place[i - 1])
  IN  place[n]
(* How far a block goes: to the end of the shorter, or of the buffer. *)
Block(a, b) ==
  CHOOSE n \in 0 .. Shipyard - 1 :
    /\ \A i \in 0 .. n - 1 : After(a, i) # NIL /\ After(b, i) # NIL
    /\ n = Shipyard - 1 \/ After(a, n) = NIL \/ After(b, n) = NIL

CharAt(p, i) == heap[After(p, i)].chr

(* Faulty: only the first character is compared. *)
SameFirst(a, b, n) == n > 0 => CharAt(a, 0) = CharAt(b, 0)
(* wcsncmp of the two buffers: what follows a null does not matter. *)
SameBlock(a, b, n) ==
  \A i \in 0 .. n - 1 :
    \/ CharAt(a, i) = CharAt(b, i)
    \/ \E j \in 0 .. i - 1 : CharAt(a, j) = 0 /\ CharAt(b, j) = 0

Return(v) == verdict' = v /\ todo' = <<>> /\ UNCHANGED <<heap, asked>>
Go(on)    == /\ todo' = on
             /\ verdict' = IF on = <<>> THEN "true" ELSE "open"
             /\ UNCHANGED <<heap, asked>>

Call(a, b) ==
  /\ asked = <<>> /\ heap # <<>> /\ Len(heap) \in {a, b}
  /\ asked' = <<a, b>> /\ todo' = <<<<a, b>>>>
  /\ UNCHANGED <<heap, verdict>>

Pending == asked # <<>> /\ todo # <<>>
A    == Head(todo)[1]
B    == Head(todo)[2]
Rest == Tail(todo)

CompareIdentical == Pending /\ A = B /\ Go(Rest)

CompareNumbers ==
  /\ Pending /\ A # B /\ Tag(A) = "INTR" /\ Tag(B) = "INTR"
  /\ IF heap[A].chr = heap[B].chr THEN Go(Rest) ELSE Return("false")

(* Faulty: after the cars, it starts over with the conses. *)
CompareConsesAgain ==
  /\ Pending /\ A # B /\ Tag(A) = "CONS" /\ Tag(B) = "CONS"
  /\ Go(<<<<heap[A].car, heap[B].car>>, <<A, B>>>> \o Rest)

CompareConses ==
  /\ Pending /\ A # B /\ Tag(A) = "CONS" /\ Tag(B) = "CONS"
  /\ Go(<<<<heap[A].car, heap[B].car>>, <<heap[A].cdr, heap[B].cdr>>>> \o Rest)

(* Faulty: the hash is not looked at. *)
CompareTextsBlindly ==
  /\ Pending /\ A # B /\ IsText(A) /\ Tag(A) = Tag(B)
  /\ LET n == Block(A, B)
     IN  IF SameBlock(A, B, n)
         THEN Go(<<<<Cdr(After(A, n)), Cdr(After(B, n))>>>> \o Rest)
         ELSE Return("false")

(* Strings with the same hash: a block, then the cdrs of what is left. *)
CompareTexts ==
  /\ Pending /\ A # B /\ IsText(A) /\ Tag(A) = Tag(B)
  /\ LET n == Block(A, B)
     IN  IF heap[A].hash = heap[B].hash /\ SameBlock(A, B, n)
         THEN Go(<<<<Cdr(After(A, n)), Cdr(After(B, n))>>>> \o Rest)
         ELSE Return("false")

(* Different types; or a type that has no case, or only pretends to. *)
CompareOthers ==
  /\ Pending /\ A # B
  /\ Tag(A) # Tag(B) \/ Tag(A) = "VECP"
  /\ Return("false")

(* equal has returned; the program may call it again. *)
Done == asked # <<>> /\ todo = <<>>
Forget ==
  /\ Done /\ asked' = <<>> /\ verdict' = "open"
  /\ UNCHANGED <<heap, todo>>

Compare == \/ CompareIdentical \/ CompareNumbers \/ CompareConses
           \/ CompareTexts \/ CompareOthers

Next ==
  \/ \E c \in Chars, tail \in Pointer, t \in TextTags : MakeStringLikeThing(c, tail, t)
  \/ \E car, cdr \in Pointer : MakeCons(car, cdr)
  \/ \E n \in 1 .. 2 : MakeInteger(n)
  \/ MakeHashmap
  \/ \E a, b \in Pointer : Call(a, b)
  \/ CompareIdentical \/ CompareNumbers \/ CompareConses
  \/ CompareTexts \/ CompareOthers
  \/ Forget

Spec == Init /\ [][Next]_vars
(* equal runs on the one thread until it returns. *)
FairSpec == Spec /\ WF_vars(Compare)

-----------------------------------------------------------------------------
(***************************************************************************)
(* Properties.                                                             *)
(***************************************************************************)

(* Types of the variables; every object refers to older ones. *)
TypeOK ==
  /\ heap \in Seq([tag : TextTags \cup {"CONS", "INTR", "VECP"}, car : Nat, cdr : Nat,
                   chr : Nat, hash : 0 .. HashRange - 1])
  /\ \A p \in DOMAIN heap : heap[p].car \in 0 .. p - 1 /\ heap[p].cdr \in 0 .. p - 1
  /\ asked \in {<<>>} \cup (Pointer \X Pointer) /\ todo \in Seq(Pointer \X Pointer)
  /\ verdict \in {"open", "true", "false"}

(* The objects of identical structure with each: cell by cell the same.  Maps
   are: of a hashmap there is nothing but its cell here, it is always empty. *)
Copies ==
  LET copies[p \in Pointer] ==
        {q \in Pointer :
           \/ p = q
           \/ /\ p # NIL /\ q # NIL
              /\ heap[p].tag = heap[q].tag /\ heap[p].chr = heap[q].chr
              /\ heap[q].car \in copies[heap[p].car]
              /\ heap[q].cdr \in copies[heap[p].cdr]}
  IN  copies
Identical == asked[2] \in Copies[asked[1]]

(* Those copies whose hashmaps are not copied, but shared with the original. *)
SharingCopies ==
  LET sharing[p \in Pointer] ==
        {q \in Pointer :
           \/ p = q
           \/ /\ p # NIL /\ q # NIL
              /\ heap[p].tag = heap[q].tag /\ heap[p].tag # "VECP"
              /\ heap[p].chr = heap[q].chr
              /\ heap[q].car \in sharing[heap[p].car]
              /\ heap[q].cdr \in sharing[heap[p].cdr]}
  IN  sharing
SharesMaps == asked[2] \in SharingCopies[asked[1]]

(* The characters of a string; a null at the end is not one of them. *)
Characters ==
  LET text[p \in Pointer] ==
        IF p = NIL THEN <<>>
        ELSE IF heap[p].chr = 0 THEN <<>> ELSE <<heap[p].chr>> \o text[heap[p].cdr]
  IN  text

(* The objects that look like each, with or without a null at the end of
   strings; a hashmap only like itself, as the code has it.                *)
Lookalikes ==
  LET alike[p \in Pointer] ==
        {q \in Pointer :
           \/ p = q
           \/ /\ p # NIL /\ q # NIL /\ heap[p].tag = heap[q].tag
              /\ \/ IsText(p) /\ Characters[p] = Characters[q]
                 \/ /\ heap[p].tag = "CONS"
                    /\ heap[q].car \in alike[heap[p].car]
                    /\ heap[q].cdr \in alike[heap[p].cdr]
                 \/ heap[p].tag = "INTR" /\ heap[p].chr = heap[q].chr}
  IN  alike
LooksTheSame == asked[2] \in Lookalikes[asked[1]]

(* A copy is equal to the original if it shares the original's hashmaps, and
   only then: of lists, numbers and texts no comparison fails that should
   not; but a hashmap is equal to nothing but itself, for vectorp
   (vectorspace.h:50) tests a tag that no object has.  (Like maps are meant to
   be equal, equal.c:246-256 and unit-tests/equal.sh:180-183: the code
   differs, and so does this.)                                             *)
CopiesAreEqual == Done /\ Identical => (verdict = "true" <=> SharesMaps)

(* Strings that are equal have the same hash, so that a hashmap looks for a
   key in the bucket where an equal key was put.                           *)
EqualTextsHashAlike ==
  Done /\ verdict = "true" /\ IsText(asked[1]) /\ IsText(asked[2])
    => heap[asked[1]].hash = heap[asked[2]].hash

(* All strings as the reader makes them: a null at the end, and shorter than
   the buffer.                                                             *)
AsRead ==
  \A p \in DOMAIN heap : IsText(p) =>
    \E n \in 0 .. Shipyard - 2 : After(p, n) # NIL /\ CharAt(p, n) = 0

(* Of such strings, and lists of them, those that are equal look the same. *)
EqualReadsLookTheSame == Done /\ verdict = "true" /\ AsRead => LooksTheSame

(* What equal.c:331 says of equal: "true if these two objects have identical
   structure, else false".                                                 *)
EqualLooksTheSame == Done /\ verdict = "true" => LooksTheSame

(* A call of equal returns. *)
EqualReturns == Pending ~> Done
=============================================================================
