------------------------------- MODULE Meaning -------------------------------
(***************************************************************************)
(* What an expression means: the documented values (the comments in front  *)
(* of the functions of lispops.c), computed directly on trees, without     *)
(* frames, counts or an order of allocation.  Values are tuples:           *)
(* <<"CONS", car, cdr>>, <<"STRG", character, rest>>, <<"LAMBDA", names,   *)
(* body>>, <<"NLAMBDA", names, body>>, <<"EXEP">> and the atoms of Cells.  *)
(* Bindings are dynamic: a body sees the names of its callers.             *)
(***************************************************************************)
EXTENDS Evaluator

Exc == <<"EXEP">>

R(v, g) == [v |-> v, g |-> g]       \* a value, and the root namespace then

RECURSIVE ListOf(_), Elements(_)
ListOf(s)   == IF s = <<>> THEN Nil ELSE <<"CONS", Head(s), ListOf(Tail(s))>>
Elements(l) == IF l[1] = "CONS" THEN <<l[2]>> \o Elements(l[3]) ELSE <<>>

Lookup(n, env, g) ==
  LET hits == SelectSeq(env \o g, LAMBDA b : b[1] = Sym(n))
  IN  IF hits # <<>> THEN Head(hits)[2]
      ELSE IF n \in Functions THEN Prim(n)
      ELSE IF n \in Specials THEN Special(n) ELSE Exc

Bound(names, vals) ==
  [i \in 1 .. (IF Len(names) < Len(vals) THEN Len(names) ELSE Len(vals)) |->
     LET j == (IF Len(names) < Len(vals) THEN Len(names) ELSE Len(vals)) + 1 - i
     IN  <<names[j], vals[j]>>]

Pure(name, a) ==
  LET x == IF a = <<>> THEN Nil ELSE a[1]
      y == IF Len(a) < 2 THEN Nil ELSE a[2]
  IN  CASE name = "list"    -> ListOf(a)
        [] name = "cons"    -> IF x = Nil /\ y = Nil THEN Nil
                               ELSE IF x[1] = "STRG" /\ y[1] = "STRG" THEN <<"STRG", x[2], y>>
                               ELSE <<"CONS", x, y>>
        [] name = "car"     -> IF x[1] = "CONS" THEN x[2]
                               ELSE IF x[1] = "STRG" THEN <<"STRG", x[2], Nil>>
                               ELSE IF x = Nil THEN Nil ELSE Exc
        [] name = "cdr"     -> IF x[1] \in {"CONS", "STRG"} THEN x[3]
                               ELSE IF x = Nil THEN Nil ELSE Exc
        [] name = "not"     -> Truth(x = Nil)
        [] name = "and"     -> Truth(\A i \in DOMAIN a : a[i] # Nil)
        [] name = "or"      -> Truth(\E i \in DOMAIN a : a[i] # Nil)
        [] name = "reverse" -> IF x[1] = "CONS"
                               THEN LET e == Elements(x)
                                    IN  ListOf([i \in DOMAIN e |-> e[Len(e) + 1 - i]])
                               ELSE x
        [] name = "count"   -> Num(Len(Elements(x)))
        [] name = "source"  -> IF x[1] = "LAMBDA"
                               THEN <<"CONS", Sym("lambda"), <<"CONS", x[2], x[3]>>>>
                               ELSE IF x[1] = "NLAMBDA"
                               THEN <<"CONS", Sym("nlambda"), <<"CONS", x[2], x[3]>>>>
                               ELSE Nil
        [] name = "exception" -> Exc

RECURSIVE Val(_, _, _, _), Vals(_, _, _, _), InTurn(_, _, _, _, _, _),
          Invoke(_, _, _, _, _), Perform(_, _, _, _, _), FirstTrue(_, _, _, _),
          LetAll(_, _, _, _, _), MapAll(_, _, _, _, _)

(* d is how deep the recursion may yet go: one that does not end within the
   limit of the stack is an exception.                                     *)
Val(form, env, g, d) ==
  IF d = 0 THEN R(Exc, g)
  ELSE CASE form[1] = "sym" -> R(Lookup(form[2], env, g), g)
         [] form[1] = "CONS" ->
              LET fn == Val(form[2], env, g, d - 1)
              IN  CASE fn.v[1] \in {"function", "LAMBDA"} ->
                         LET args == Vals(Elements(form[3]), env, fn.g, d - 1)
                         IN  IF \E i \in DOMAIN args.v : args.v[i] = Exc
                             THEN R(Exc, args.g)
                             ELSE Invoke(fn.v, args.v, env, args.g, d - 1)
                    [] fn.v[1] = "NLAMBDA" ->
                         Invoke(fn.v, Elements(form[3]), env, fn.g, d - 1)
                    [] fn.v[1] = "special" ->
                         Perform(fn.v[2], Elements(form[3]), env, fn.g, d - 1)
                    [] OTHER -> R(Exc, fn.g)
         [] OTHER -> R(form, g)

(* The values of arguments, as far as the first that is an exception. *)
Vals(forms, env, g, d) ==
  IF forms = <<>> THEN R(<<>>, g)
  ELSE LET first == Val(Head(forms), env, g, d)
           rest  == Vals(Tail(forms), env, first.g, d)
       IN  IF first.v = Exc THEN R(<<Exc>>, first.g)
           ELSE R(<<first.v>> \o rest.v, rest.g)

(* The value of the last form; an exception ends it, where `ends'. *)
InTurn(forms, last, ends, env, g, d) ==
  IF forms = <<>> \/ (ends /\ last = Exc) THEN R(last, g)
  ELSE LET first == Val(Head(forms), env, g, d)
       IN  InTurn(Tail(forms), first.v, ends, env, first.g, d)

Invoke(fn, vals, env, g, d) ==
  CASE fn[1] \in {"LAMBDA", "NLAMBDA"} ->
         LET new == IF fn[2][1] = "sym" THEN <<<<fn[2], ListOf(vals)>>>>
                    ELSE Bound(Elements(fn[2]), vals)
         IN  InTurn(Elements(fn[3]), Nil, TRUE, new \o env, g, d)
    [] fn = Prim("eval")   -> Val(vals[1], env, g, d - 1)
    [] fn = Prim("apply")  -> IF d = 1 THEN R(Exc, g)
                              ELSE Invoke(vals[1], Elements(vals[2]), env, g, d - 1)
    [] fn = Prim("mapcar") -> MapAll(vals[1], Elements(vals[2]), env, g, d - 1)
    [] fn = Prim("set")    -> IF vals[1][1] = "sym"
                              THEN R(vals[2], <<<<vals[1], vals[2]>>>> \o g) ELSE R(Exc, g)
    [] OTHER -> R(Pure(fn[2], vals), g)

MapAll(fn, vals, env, g, d) ==
  IF vals = <<>> THEN R(Nil, g)
  ELSE LET first == Invoke(fn, <<Head(vals)>>, env, g, d)
           rest  == MapAll(fn, Tail(vals), env, first.g, d)
       IN  IF first.v = Exc THEN first
           ELSE IF rest.v = Exc THEN rest ELSE R(<<"CONS", first.v, rest.v>>, rest.g)

FirstTrue(clauses, env, g, d) ==
  IF clauses = <<>> THEN R(Nil, g)
  ELSE LET clause == Head(clauses)
           test   == Val(clause[2], env, g, d)
       IN  IF clause[1] # "CONS"
           THEN IF Len(clauses) = 1 THEN R(Exc, g) ELSE FirstTrue(Tail(clauses), env, g, d)
           ELSE IF test.v = Nil THEN FirstTrue(Tail(clauses), env, test.g, d)
           ELSE InTurn(Elements(clause[3]), Nil, TRUE, env, test.g, d)

LetAll(pairs, body, env, g, d) ==
  IF pairs = <<>> THEN InTurn(body, Nil, TRUE, env, g, d)
  ELSE LET pair  == Head(pairs)
           bound == Val(pair[3], env, g, d)
       IN  IF pair[1] # "CONS" \/ pair[2][1] # "sym" THEN R(Exc, g)
           ELSE LetAll(Tail(pairs), body, <<<<pair[2], bound.v>>>> \o env, bound.g, d)

Perform(name, forms, env, g, d) ==
  CASE name = "quote"   -> R(forms[1], g)
    [] name = "progn"   -> InTurn(forms, Nil, FALSE, env, g, d)
    [] name = "cond"    -> FirstTrue(forms, env, g, d)
    [] name = "let"     -> LetAll(Elements(forms[1]), Tail(forms), env, g, d)
    [] name = "try"     -> LET tried == InTurn(Elements(forms[1]), Nil, TRUE, env, g, d)
                           IN  IF tried.v # Exc THEN tried
                               ELSE InTurn(Elements(forms[2]), Nil, TRUE,
                                           <<<<Sym("*exception*"), Exc>>>> \o env, tried.g, d)
    [] name = "set!"    -> LET bound == Val(forms[2], env, g, d)
                           IN  IF forms[1][1] # "sym" THEN R(Exc, g)
                               ELSE R(bound.v, <<<<forms[1], bound.v>>>> \o bound.g)
    [] name = "lambda"  -> R(<<"LAMBDA", forms[1], ListOf(Tail(forms))>>, g)
    [] name = "nlambda" -> R(<<"NLAMBDA", forms[1], ListOf(Tail(forms))>>, g)

(* The values of expressions read one after the other. *)
RECURSIVE Values(_, _)
Values(forms, g) ==
  IF forms = <<>> THEN <<>>
  ELSE LET first == Val(Head(forms), <<>>, g, StackLimit \div 2)
       IN  <<first.v>> \o Values(Tail(forms), first.g)

-----------------------------------------------------------------------------
(* The tree of an object, and what the reader makes of a tree. *)
RECURSIVE Show(_, _), Load(_, _, _), LoadAll(_, _)
Show(h, p) ==
  CASE Tag(h, p) \in {"CONS", "LAMBDA", "NLAMBDA"} ->
         <<Tag(h, p), Show(h, h[p[2]].part[1]), Show(h, h[p[2]].part[2])>>
    [] Tag(h, p) = "STRG" -> <<"STRG", h[p[2]].part[1], Show(h, h[p[2]].part[2])>>
    [] IsObj(p) /\ Tag(h, p) \notin {"CONS", "LAMBDA", "NLAMBDA", "STRG"} -> <<Tag(h, p)>>
    [] ~IsObj(p) -> p

(* The cells of a tree, behind n others.  make_cons counts both its parts: each
   cell has its own count of 1, and one more if it is part of a pair.      *)
Root(n, cells, tree) == IF cells = <<>> THEN tree ELSE Obj(n + Len(cells))

Load(n, tree, count) ==
  CASE tree[1] = "CONS" ->
         LET a == Load(n, tree[2], 2)
             d == Load(n + Len(a), tree[3], 2)
             pair == <<Root(n, a, tree[2]), Root(n + Len(a), d, tree[3])>>
         IN  a \o d \o <<[NewCell("CONS", pair) EXCEPT !.count = count]>>
    [] tree[1] = "STRG" ->
         LET r == Load(n, tree[3], 1)
             parts == <<tree[2], Root(n, r, tree[3])>>
         IN  r \o <<[NewCell("STRG", parts) EXCEPT !.count = count]>>
    [] OTHER -> <<>>

LoadAll(n, trees) ==
  IF trees = <<>> THEN [cells |-> <<>>, ptrs |-> <<>>]
  ELSE LET first == Load(n, Head(trees), 1)
           rest  == LoadAll(n + Len(first), Tail(trees))
       IN  [cells |-> first \o rest.cells,
            ptrs  |-> <<Root(n, first, Head(trees))>> \o rest.ptrs]

Program(trees) ==
  LET l == LoadAll(Bottom, trees)
      v == Values(trees, <<>>)
  IN  [heap |-> <<FrameCell(0, 0)>> \o l.cells,
       items |-> [i \in DOMAIN trees |-> [expr |-> l.ptrs[i], answer |-> v[i]]]]

(* The evaluator returns what the comments say, to the last cons: through
   frames that are shared with the caller, arguments beyond the registers,
   bindings of callers and callees, values that are lent and given up.     *)
AnswersAsDocumented ==
  Wants("repl") => Show(heap, ctl.value) = Head(input).answer
=============================================================================
