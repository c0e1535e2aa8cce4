----------------------------- MODULE MCEvaluator -----------------------------
(* Programs for TLC: every Small expression in every place where one can be,
   and some that need more: recursion with and without an end, arguments
   that do not fit into the registers, functions that get their names from
   their callers.                                                          *)
EXTENDS Meaning

L(s)   == ListOf(s)
S(n)   == Sym(n)
C(f, s) == L(<<S(f)>> \o s)
Q(x)   == C("quote", <<x>>)
N(n)   == Num(n)
Str(c) == <<"STRG", <<"char", c>>, <<"STRG", Null, Nil>>>>
Fn(names, body) == C("lambda", <<L(names)>> \o body)
Pair(a, b)      == <<"CONS", a, b>>

Small == {N(1), Str(1), S("y"), Q(L(<<N(1), N(2)>>)), C("car", <<N(1)>>),
          C("list", <<N(1), Str(2)>>), C("cdr", <<Q(L(<<N(1)>>))>>),
          C("lambda", <<S("z"), N(3)>>)}

Around(x) == {
  <<C("list", <<x, x>>)>>, <<C("progn", <<x, N(3)>>)>>, <<C("not", <<x>>)>>,
  <<C("cond", <<L(<<x, N(1)>>), L(<<T, N(2)>>)>>)>>,
  <<C("cond", <<L(<<Nil, x>>), L(<<T, x>>)>>)>>,
  <<C("let", <<L(<<Pair(S("a"), x)>>), S("a"), C("list", <<S("a"), S("a")>>)>>)>>,
  <<C("try", <<L(<<x>>), L(<<N(5), C("not", <<S("*exception*")>>)>>)>>)>>,
  <<C("set!", <<S("y"), x>>), C("cons", <<S("y"), N(1)>>), S("y")>>,
  <<L(<<Fn(<<S("a"), S("b")>>, <<S("a"), S("b")>>), x, N(6)>>)>>,
  <<L(<<Fn(<<S("a")>>, <<x, C("cons", <<N(7), S("a")>>)>>), x>>)>>,
  <<L(<<C("nlambda", <<L(<<S("a")>>), S("a")>>), x>>)>>,
  <<C("reverse", <<C("cons", <<x, Q(L(<<N(4)>>))>>)>>)>>,
  <<C("and", <<x, T>>)>>, <<C("or", <<Nil, x>>)>>, <<C("source", <<x>>)>>,
  <<C("set", <<Q(S("y")), x>>), C("list", <<S("y")>>)>>,
  <<C("exception", <<x>>)>>, <<L(<<x, N(1)>>)>> }

OneTwo == Q(L(<<N(1), N(2)>>))
Others == {
  <<C("set!", <<S("f"), Fn(<<S("l")>>, <<C("cond", <<
        L(<<S("l"), C("cons", <<C("car", <<S("l")>>), L(<<S("f"), C("cdr", <<S("l")>>)>>)>>)>>),
        L(<<T, Nil>>)>>)>>)>>), L(<<S("f"), OneTwo>>)>>,
  <<C("set!", <<S("g"), Fn(<<>>, <<L(<<S("g")>>)>>)>>), L(<<S("g")>>), N(1)>>,
  <<C("set!", <<S("g"), C("nlambda", <<Nil, C("list", <<L(<<S("g")>>)>>)>>)>>),
    C("try", <<L(<<L(<<S("g")>>)>>), L(<<N(2)>>)>>)>>,
  <<C("set!", <<S("g"), Fn(<<>>, <<C("eval", <<Q(L(<<S("g")>>))>>)>>)>>), L(<<S("g")>>)>>,
  <<C("list", <<N(1), N(2), N(3), Str(4), C("list", <<N(5)>>)>>)>>,
  <<C("and", <<N(1), N(2), N(3), Nil>>), C("or", <<Nil, Nil, Nil, N(1)>>)>>,
  <<C("progn", <<N(1), N(2), N(3), Str(4), N(5)>>),
    C("progn", <<N(1), N(2), N(3), N(5), C("car", <<N(4)>>)>>)>>,
  <<L(<<C("lambda", <<S("a"), C("reverse", <<S("a")>>)>>), N(1), N(2), N(3), N(4)>>)>>,
  <<L(<<C("lambda", <<S("a"), S("a")>>), Str(1)>>)>>,
  <<L(<<Fn(<<S("a")>>, <<N(1), N(2), S("a")>>), Str(1)>>)>>,
  <<C("set!", <<S("h"), Fn(<<>>, <<S("a")>>)>>),
    C("let", <<L(<<Pair(S("a"), N(1))>>), L(<<S("h")>>)>>), L(<<S("h")>>)>>,
  <<C("mapcar", <<Fn(<<S("a")>>, <<C("list", <<S("a")>>)>>), OneTwo>>)>>,
  <<C("mapcar", <<S("car"), OneTwo>>), C("mapcar", <<S("list"), Nil>>)>>,
  <<C("apply", <<S("list"), Q(L(<<N(1), N(2), N(3), N(4)>>))>>)>>,
  <<C("eval", <<Q(C("cons", <<N(1), Nil>>))>>), C("eval", <<Q(S("q"))>>), C("eval", <<N(1)>>)>>,
  <<C("cond", <<N(1)>>), C("cond", <<N(1), L(<<T, N(2)>>)>>)>>,
  <<C("let", <<L(<<N(1)>>), N(2)>>), C("set!", <<N(1), N(2)>>), C("set", <<N(1), N(2)>>)>>,
  <<C("cons", <<Str(1), Str(2)>>), C("count", <<Q(L(<<N(1), N(2)>>))>>), C("cons", <<Nil, Nil>>)>>,
  <<C("car", <<Str(1)>>), C("cdr", <<Str(1)>>), C("cdr", <<N(1)>>), C("car", <<Nil>>)>>,
  <<C("set!", <<S("x"), C("list", <<N(1)>>)>>), C("progn", <<S("x"), S("x"), S("x"), N(1)>>)>> }

(* Expressions of one place within another. *)
Composed == {Head(p) : p \in {q \in UNION {Around(x) : x \in Small} : Len(q) = 1}}

AllPrograms ==
  UNION {{Program(p) : p \in ps} : ps \in {Others} \cup {Around(x) : x \in Small \cup Composed}}
TwoPrograms == {Program(p) : p \in {
  <<C("set!", <<S("x"), C("list", <<N(1)>>)>>), C("progn", <<S("x"), S("x"), N(1)>>)>>,
  <<C("eval", <<Q(C("car", <<N(1)>>))>>)>>}}

(* Strings on top of one that is bound, two of which are given up. *)
Empty == <<"STRG", Null, Nil>>
Onto  == C("cons", <<Empty, S("y")>>)
StringPrograms == {Program(<<
  C("set!", <<S("y"), C("car", <<Empty>>)>>), C("set!", <<S("x"), Onto>>),
  C("progn", <<Onto, Onto, N(1)>>)>>)}
=============================================================================
