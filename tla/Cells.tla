-------------------------------- MODULE Cells --------------------------------
(***************************************************************************)
(* Objects with reference counts, as the rest of the interpreter sees them:*)
(* what the constructors of consspaceobject.c, make_vso, inc_ref and       *)
(* dec_ref do to a heap, each as one step.  (ConsSpace has pages, the free *)
(* list, and what happens in the middle of a cascade.)                     *)
(*                                                                         *)
(* A heap is a sequence of cells; a cell that has been freed stays where   *)
(* it was and is never used again, so that a pointer to it can be told.    *)
(* What has no count that matters - NIL, T, names, small integers, which   *)
(* are locked, and primitives - is not in the heap.                        *)
(***************************************************************************)
EXTENDS Integers, Sequences, FiniteSets

CONSTANT ArgsInFrame   \* args_in_frame

ASSUME FrameAssumption == ArgsInFrame \in Nat \ {0}

-----------------------------------------------------------------------------
Obj(i)     == <<"obj", i>>
Nil        == <<"nil">>
T          == <<"t">>
Num(n)     == <<"int", n>>
Sym(n)     == <<"sym", n>>
Key(n)     == <<"key", n>>
Text(s)    == <<"text", s>>          \* the message of an error
Prim(n)    == <<"function", n>>      \* a function written in C
Special(n) == <<"special", n>>       \* a special form written in C

IsObj(p) == p[1] = "obj"

(* `given' is no field of the program's: it says how often a count was given
   up by one who may have had none: dec_ref of a result that is not wanted (in
   progn, lambda), or of a tail that a string took over from a register.
   previous, depth and args are those of a frame, whose parts are its
   registers and `more'.                                                   *)
NewCell(kind, parts) ==
  [kind |-> kind, free |-> FALSE, count |-> 1, given |-> 0, part |-> parts,
   prev |-> 0, depth |-> 0, args |-> 0]

Tag(h, p) == IF ~IsObj(p) THEN p[1]
             ELSE IF h[p[2]].free THEN "FREE" ELSE h[p[2]].kind

IsCons(h, p)      == Tag(h, p) = "CONS"
IsException(h, p) == Tag(h, p) = "EXEP"

Car(h, p) == IF IsCons(h, p) THEN h[p[2]].part[1] ELSE Nil
Cdr(h, p) == IF Tag(h, p) \in {"CONS", "STRG"} THEN h[p[2]].part[2] ELSE Nil

(* The cells of these kinds that follow each other from here, and the elements
   of a list, whatever it ends in.                                         *)
Chain(h, p, kinds) ==
  LET walk[n \in 0 .. Len(h)] ==
        IF n = 0 THEN [at |-> p, seen |-> <<>>]
        ELSE LET w == walk[n - 1]
             IN  IF Tag(h, w.at) \notin kinds THEN w
                 ELSE [at |-> Cdr(h, w.at), seen |-> Append(w.seen, w.at)]
  IN  walk[Len(h)].seen

Items(h, p) == LET cells == Chain(h, p, {"CONS"})
               IN  [i \in DOMAIN cells |-> Car(h, cells[i])]

-----------------------------------------------------------------------------
IncRef(h, p) == IF IsObj(p) THEN [h EXCEPT ![p[2]].count = @ + 1] ELSE h

(* The places that hold a pointer to an object, among the parts of these. *)
Places(h, cells, i) ==
  {x \in cells \X (1 .. ArgsInFrame + 1) :
     x[2] \in DOMAIN h[x[1]].part /\ h[x[1]].part[x[2]] = Obj(i)}

(* The count after so many calls of dec_ref. *)
Less(count, n) == IF count > n THEN count - n ELSE 0

(* free_cell of all these, and free_stack_frame: their parts are decremented.
   In which order makes no difference to what is freed in the end.         *)
FreeCells(h, cells) ==
  LET parts == UNION {{h[j].part[n] : n \in DOMAIN h[j].part} : j \in cells}
  IN  [i \in DOMAIN h |->
         IF i \in cells THEN [h[i] EXCEPT !.free = TRUE, !.part = <<>>]
         ELSE IF Obj(i) \notin parts THEN h[i]
         ELSE [h[i] EXCEPT !.count = Less(@, Cardinality(Places(h, cells, i)))]]

Live(h) == {i \in DOMAIN h : ~h[i].free}

(* What is to be freed, when counts went down from those in h. *)
Dead(h, g) == {i \in Live(h) : h[i].count > 0 /\ g[i].count = 0}
Lowered(h, g) == [heap |-> g, dead |-> Dead(h, g)]

(* dec_ref, with the cascade through free_cell, which ends when nothing more is
   to be freed.                                                            *)
DecRef(h, p) ==
  LET first == [h EXCEPT ![p[2]].count = Less(@, 1)]
      down[n \in 0 .. Cardinality(Live(h))] ==
        IF n = 0 THEN Lowered(h, first)
        ELSE LET s == down[n - 1]
             IN  IF s.dead = {} THEN s
                 ELSE Lowered(s.heap, FreeCells(s.heap, s.dead))
  IN  IF ~IsObj(p) THEN h
      ELSE IF h[p[2]].count = 1 THEN down[Cardinality(Live(h))].heap
      ELSE first

(* A count of this is given up that may be another's. *)
Lend(h, p) == IF IsObj(p) THEN [h EXCEPT ![p[2]].given = @ + 1] ELSE h

(* dec_ref of a result that nobody wants. *)
GiveUp(h, p) == DecRef(Lend(h, p), p)

(***************************************************************************)
(* The constructors return the new heap and a pointer.  make_cons counts   *)
(* both pointers, make_lambda too; make_exception counts the frame and     *)
(* takes the message over.                                                 *)
(***************************************************************************)
New(h, cell) == [heap |-> Append(h, cell), ptr |-> Obj(Len(h) + 1)]

MakeCons(h, a, d) == New(IncRef(IncRef(h, a), d), NewCell("CONS", <<a, d>>))

MakeExecutable(h, kind, args, body) ==
  New(IncRef(IncRef(h, args), body), NewCell(kind, <<args, body>>))

(* A string has a character and the rest of it, which it takes over. *)
MakeString(h, char, tail) == New(h, NewCell("STRG", <<char, tail>>))

MakeException(h, message, f) ==
  New(IncRef(h, Obj(f)), NewCell("EXEP", <<message, Obj(f)>>))

(* make_cons of a pair onto a list: how names are bound. *)
Bind(h, name, value, env) ==
  LET pair == MakeCons(h, name, value) IN MakeCons(pair.heap, pair.ptr, env)

(* make_cons of many values, each onto the list of those before. *)
ConsAll(h, values, tail) ==
  LET run[n \in 0 .. Len(values)] ==
        IF n = 0 THEN [heap |-> h, ptr |-> tail]
        ELSE LET l == run[n - 1] IN MakeCons(l.heap, values[n], l.ptr)
  IN  run[Len(values)]

(* c_reverse; what is no sequence is returned unchanged. *)
Reverse(h, p) ==
  LET cells == Chain(h, p, {"CONS", "STRG"})
      run[n \in 0 .. Len(cells)] ==
        IF n = 0 THEN [heap |-> h, ptr |-> Nil]
        ELSE LET r    == run[n - 1]
                 item == h[cells[n][2]].part[1]
             IN  IF IsCons(h, cells[n]) THEN MakeCons(r.heap, item, r.ptr)
                 ELSE MakeString(r.heap, item, r.ptr)
  IN  IF cells = <<>> THEN [heap |-> h, ptr |-> p] ELSE run[Len(cells)]

(* throw_exception_with_cause: an association list of where, what and why. *)
ThrowWithCause(h, location, message, cause, f) ==
  IF IsException(h, message) THEN [heap |-> h, ptr |-> message]
  ELSE LET why   == IF cause = Nil THEN [heap |-> h, ptr |-> Nil]
                    ELSE Bind(h, Key("cause"), cause, Nil)
           what  == Bind(why.heap, Key("payload"), message, why.ptr)
           where == Bind(what.heap, Key("location"), location, what.ptr)
       IN  MakeException(where.heap, where.ptr, f)

Throw(h, location, message, f) == ThrowWithCause(h, location, message, Nil, f)

-----------------------------------------------------------------------------
(* make_empty_frame, and set_reg; registers are numbered from 1. *)
FrameCell(f, depth) ==
  [NewCell("FRAME", [r \in 1 .. ArgsInFrame + 1 |-> Nil])
     EXCEPT !.prev = f, !.depth = depth]

Reg(h, f, r) == h[f].part[r]
More(h, f)   == h[f].part[ArgsInFrame + 1]

(* Faulty form of SetReg: the register does not count its value. *)
SetRegLent(h, f, r, v) ==
  [DecRef(h, Reg(h, f, r)) EXCEPT ![f].part[r] = v,
                                  ![f].args = IF r - 1 = @ THEN r ELSE @]

(* Faulty form of SetReg: a register that is set again is one more. *)
SetRegAnother(h, f, r, v) ==
  LET g == DecRef(h, Reg(h, f, r))
  IN  IncRef([g EXCEPT ![f].part[r] = v, ![f].args = @ + 1], v)

SetReg(h, f, r, v) ==
  LET g == DecRef(h, Reg(h, f, r))
  IN  IncRef([g EXCEPT ![f].part[r] = v,
                       ![f].args = IF r - 1 = @ THEN r ELSE @], v)

(* fetch_arg; the car of NIL, behind the end of the list, is NIL. *)
Arg(h, f, n) ==
  LET others == Items(h, More(h, f))
  IN  IF n <= ArgsInFrame THEN Reg(h, f, n)
      ELSE IF n - ArgsInFrame \in DOMAIN others THEN others[n - ArgsInFrame] ELSE Nil

-----------------------------------------------------------------------------
(***************************************************************************)
(* What is to be true of the heap whatever the program is.  A value is a   *)
(* pointer that programs can get hold of: never to a frame.                *)
(***************************************************************************)
Atoms == {"nil", "t", "int", "sym", "key", "text", "function", "special", "char", "cells"}

Points(h, p)  == IF IsObj(p) THEN p = Obj(p[2]) /\ p[2] \in DOMAIN h ELSE p[1] \in Atoms
Value(h, p)   == Points(h, p) /\ (IsObj(p) => h[p[2]].kind # "FRAME")
IsFrame(h, f) == f \in DOMAIN h /\ h[f].kind = "FRAME"

Arity(kind) == IF kind = "FRAME" THEN ArgsInFrame + 1
               ELSE IF kind \in {"INTR", "REAL"} THEN 1 ELSE 2

IsSequence(s) == Len(s) \in Nat /\ s = [i \in 1 .. Len(s) |-> s[i]]

CellOK(c) ==
  /\ c = [kind |-> c.kind, free |-> c.free, count |-> c.count, given |-> c.given,
          part |-> c.part, prev |-> c.prev, depth |-> c.depth, args |-> c.args]
  /\ c.free \in BOOLEAN
  /\ {c.count, c.given, c.prev, c.depth, c.args} \subseteq Nat
  /\ c.part = IF c.free THEN <<>> ELSE [n \in 1 .. Arity(c.kind) |-> c.part[n]]

(* Only an exception refers to a frame; a frame is nobody's to give up; and a
   string has a character.                                                 *)
PartsOK(h, c) ==
  /\ \A n \in DOMAIN c.part :
       IF c.kind = "EXEP" /\ n = 2
       THEN \E f \in DOMAIN h : c.part[n] = Obj(f) /\ h[f].kind = "FRAME"
       ELSE Value(h, c.part[n])
  /\ c.kind = "FRAME" => c.given = 0
  /\ c.kind = "STRG" /\ ~c.free => ~IsObj(c.part[1])

HeapOK(h) ==
  /\ IsSequence(h)
  /\ \A i \in DOMAIN h : CellOK(h[i]) /\ PartsOK(h, h[i])

(* Each object is counted for every part of an object that it is, and so many
   more times as claims says, unless somebody gave a count up.             *)
Covered(h, claims) ==
  \A i \in DOMAIN h :
    Cardinality(Places(h, DOMAIN h, i)) + claims[i] <= h[i].count + h[i].given
=============================================================================
