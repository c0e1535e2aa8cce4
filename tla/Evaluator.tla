------------------------------ MODULE Evaluator ------------------------------
(***************************************************************************)
(* The evaluator (lispops.c), with the stack frames it makes (stack.c) and *)
(* the loop that drives it (lisp_repl, repl.c): eval_form, c_apply, the    *)
(* frames of functions and of special forms, lambdas, the special forms,   *)
(* the functions on lists, and exceptions.                                 *)
(*                                                                         *)
(* The C functions call each other recursively.  `kont' is their stack:    *)
(* one record for each activation that waits for the value of a form, the  *)
(* innermost first, with the local variables that it still needs.  `ctl'   *)
(* is what runs: eval_form on a form, or a return with a value.            *)
(*                                                                         *)
(* What a step adds to the counts of objects, it adds where the code does: *)
(* see Cells.  An environment is the list of local bindings; NIL stands    *)
(* for the cell at its end, which has the oblist.                          *)
(***************************************************************************)
EXTENDS Cells

CONSTANTS
  StackLimit,   \* stack_limit: frames to a stack; 0 means no limit
  Programs      \* what can be read: heaps with the text of some expressions,
                \* behind the frame of the REPL, and pointers to these, each
                \* with its value, which only AnswersAsDocumented looks at

VARIABLES
  heap,     \* all objects
  oblist,   \* the bindings in the root namespace, newest first
  input,    \* the expressions to be read, each with the value it should have
  ctl,      \* what runs
  kont      \* who waits

vars == <<heap, oblist, input, ctl, kont>>

Bottom == 1   \* the frame that repl() makes

Functions == {"eval", "apply", "mapcar", "set", "list", "cons", "car", "cdr",
              "not", "and", "or", "reverse", "count", "source", "exception"}
Specials  == {"quote", "progn", "cond", "let", "try", "set!", "lambda", "nlambda"}

SelfEvaluating == {"EXEP", "FREE", "int", "key", "nil", "STRG", "t", "text"}

(* How often each object is one of the expressions to be read. *)
Unread(items) == [i \in Nat |-> Cardinality({j \in DOMAIN items : items[j].expr = Obj(i)})]

(* What the reader makes is counted, and its expressions once more. *)
ASSUME EvaluatorAssumption ==
  /\ StackLimit \in Nat /\ ArgsInFrame >= 3
  /\ \A p \in Programs :
       /\ HeapOK(p.heap) /\ IsSequence(p.items)
       /\ \A j \in DOMAIN p.items : Value(p.heap, p.items[j].expr)
       /\ 1 \in DOMAIN p.heap /\ p.heap[Bottom] = FrameCell(0, 0)
       /\ \A i \in DOMAIN p.heap : p.heap[i].kind = "FRAME" => i = Bottom
       /\ Covered(p.heap, [i \in DOMAIN p.heap |->
                             Unread(p.items)[i] + IF i = Bottom THEN 1 ELSE 0])

-----------------------------------------------------------------------------
Eval(form, f, env) == [mode |-> "eval", form |-> form, frame |-> f, env |-> env]
Return(v)          == [mode |-> "return", value |-> v]
Idle               == [mode |-> "idle"]
Done               == [mode |-> "done"]

(* An activation of which C function, on which frame, in which environment;
   forms that wait, what it has got, what it calls, and a counter.         *)
K(k, f, env) == [k |-> k, frame |-> f, env |-> env, rest |-> Nil, acc |-> Nil,
                 fn |-> Nil, i |-> 0]

Go(h, c, ks) ==
  /\ heap' = h
  /\ ctl' = c
  /\ kont' = ks
  /\ UNCHANGED <<oblist, input>>

GoReturn(r, ks) == Go(r.heap, Return(r.ptr), ks)

Wants(k)  == ctl.mode = "return" /\ kont # <<>> /\ Head(kont).k = k
Top       == Head(kont)
Below     == Tail(kont)
Threw     == IsException(heap, ctl.value)

(* The value of a symbol: its innermost binding, or a primitive. *)
Foremost(S)           == CHOOSE j \in S : \A l \in S : j <= l
BindingsOf(h, p, env) == {j \in DOMAIN Items(h, env) : Car(h, Items(h, env)[j]) = p}
GlobalsOf(p)          == {j \in DOMAIN oblist : oblist[j][1] = p}

IsBound(h, n, env) == \/ BindingsOf(h, Sym(n), env) # {} \/ GlobalsOf(Sym(n)) # {}
                      \/ n \in Functions \cup Specials
ValueOf(h, n, env) ==
  LET here  == BindingsOf(h, Sym(n), env)
      there == GlobalsOf(Sym(n))
  IN  IF here # {} THEN Cdr(h, Items(h, env)[Foremost(here)])
      ELSE IF there # {} THEN oblist[Foremost(there)][2]
      ELSE IF n \in Functions THEN Prim(n) ELSE Special(n)

-----------------------------------------------------------------------------
(* Faulty form of MayCall: a frame too many. *)
MayCallOnce(f) == StackLimit = 0 \/ StackLimit >= heap[f].depth + 1

(* make_empty_frame: within the limit, or an exception in its place. *)
MayCall(f) == StackLimit = 0 \/ StackLimit > heap[f].depth + 1
EmptyFrame(f) == Append(heap, FrameCell(f, heap[f].depth + 1))
NextFrame     == Len(heap) + 1
TooDeep(f)    == MakeException(heap, Text("Stack limit exceeded."), f)

(* c_apply: the function is the value of the first element of the form. *)
Apply(h, f, env, ks) ==
  Go(h, Eval(Car(h, Reg(h, f, 1)), f, env), <<K("fn", f, env)>> \o ks)

LispEval(h, f, env, ks) ==
  LET form == Reg(h, f, 1)
  IN  \/ /\ IsCons(h, form)
         /\ Apply(h, f, env, ks)
      \/ /\ Tag(h, form) = "sym"
         /\ IsBound(h, form[2], env)
         /\ Go(h, Return(ValueOf(h, form[2], env)), ks)
      \/ /\ Tag(h, form) = "sym"
         /\ ~IsBound(h, form[2], env)
         /\ LET message == MakeCons(h, Text("Attempt to take value of unbound symbol."), form)
            IN  GoReturn(Throw(message.heap, Sym("eval"), message.ptr, f), ks)
      \/ /\ Tag(h, form) \notin {"CONS", "sym"}
         /\ Go(h, Return(form), ks)

(***************************************************************************)
(* eval_form: most atoms are their own value; anything else gets a frame,  *)
(* and lisp_eval.  The frame goes when the value is there, unless that is  *)
(* an exception.                                                           *)
(***************************************************************************)
EvalAtom ==
  /\ ctl.mode = "eval"
  /\ Tag(heap, ctl.form) \in SelfEvaluating
  /\ Go(heap, Return(ctl.form), kont)

EvalForm ==
  /\ ctl.mode = "eval"
  /\ Tag(heap, ctl.form) \notin SelfEvaluating
  /\ MayCall(ctl.frame)
  /\ LispEval(SetReg(EmptyFrame(ctl.frame), NextFrame, 1, ctl.form), NextFrame,
              ctl.env, <<K("form", NextFrame, ctl.env)>> \o kont)

EvalTooDeep ==
  /\ ctl.mode = "eval"
  /\ Tag(heap, ctl.form) \notin SelfEvaluating
  /\ ~MayCall(ctl.frame)
  /\ GoReturn(TooDeep(ctl.frame), kont)

FormValue ==
  /\ Wants("form")
  /\ Go(IF Threw THEN heap ELSE DecRef(heap, Obj(Top.frame)), ctl, Below)

-----------------------------------------------------------------------------
(* eval_forms: the list of the values of these forms. *)
EvalForms(h, forms, acc, f, env, ks) ==
  \/ /\ IsCons(h, forms)
     /\ Go(h, Eval(Car(h, forms), f, env),
           <<[K("forms", f, env) EXCEPT !.rest = forms, !.acc = acc]>> \o ks)
  \/ /\ ~IsCons(h, forms)
     /\ GoReturn(Reverse(h, acc), ks)

FormsValue ==
  /\ Wants("forms")
  /\ LET l == MakeCons(heap, ctl.value, Top.acc)
     IN  EvalForms(l.heap, Cdr(l.heap, Top.rest), l.ptr, Top.frame, Top.env, Below)

(* The rest of eval_lambda: the forms of the body in turn, in the new
   environment.  A value that is not the last is given up.                 *)
EvalBody(h, f, env, body, ks) ==
  \/ /\ body # Nil
     /\ Go(h, Eval(Car(h, body), f, env),
           <<[K("body", f, env) EXCEPT !.rest = Cdr(h, body)]>> \o ks)
  \/ /\ body = Nil
     /\ Go(h, Return(Nil), ks)

BodyValue ==
  /\ Wants("body")
  /\ \/ /\ Threw \/ Top.rest = Nil
        /\ Go(heap, ctl, Below)
     \/ /\ ~Threw /\ Top.rest # Nil
        /\ Go(GiveUp(heap, ctl.value), Eval(Car(heap, Top.rest), Top.frame, Top.env),
              <<[Top EXCEPT !.rest = Cdr(heap, @)]>> \o Below)

(* arg[i] of a frame, counted from 1; the field after the last register is
   `more', and the one after that is `function', which is NIL.             *)
RawArg(h, f, i) == IF i <= ArgsInFrame + 1 THEN h[f].part[i] ELSE Nil

BindNames(h, f, names, env) ==
  LET bound == IF h[f].args < Len(names) THEN h[f].args ELSE Len(names)
      run[i \in 0 .. bound] ==
        IF i = 0 THEN [heap |-> h, ptr |-> env]
        ELSE LET b == run[i - 1]
             IN  Bind(b.heap, names[i], RawArg(b.heap, f, i), b.ptr)
  IN  run[bound]

(* A lambda whose parameter is one symbol: the arguments are evaluated (once
   more), those in `more' and then the registers from the last to the first. *)
EvalRegisters(h, i, vals, names, body, f, env, ks) ==
  \/ /\ i > 0
     /\ Go(h, Eval(Reg(h, f, i), f, env),
           <<[K("register", f, env) EXCEPT !.i = i, !.acc = vals,
                                           !.fn = names, !.rest = body]>> \o ks)
  \/ /\ i = 0
     /\ LET e == Bind(h, names, vals, env)
        IN  EvalBody(e.heap, f, e.ptr, body, ks)

MoreEvaluated ==
  /\ Wants("varargs")
  /\ EvalRegisters(heap, ArgsInFrame, ctl.value, Top.fn, Top.rest, Top.frame, Top.env,
                   Below)

RegisterValue ==
  /\ Wants("register")
  /\ LET l == IF ctl.value = Nil /\ Top.acc = Nil
              THEN [heap |-> heap, ptr |-> Nil]
              ELSE MakeCons(heap, ctl.value, Top.acc)
     IN  EvalRegisters(l.heap, Top.i - 1, l.ptr, Top.fn, Top.rest, Top.frame, Top.env,
                       Below)

EvalLambda(h, fn, f, env, ks) ==
  LET names == h[fn[2]].part[1]
      body  == h[fn[2]].part[2]
  IN  \/ /\ IsCons(h, names)
         /\ LET e == BindNames(h, f, Items(h, names), env)
            IN  EvalBody(e.heap, f, e.ptr, body, ks)
      \/ /\ Tag(h, names) = "sym"
         /\ EvalForms(h, More(h, f), Nil, f, env,
                      <<[K("varargs", f, env) EXCEPT !.fn = names, !.rest = body]>> \o ks)
      \/ /\ Tag(h, names) \notin {"CONS", "sym"}
         /\ EvalBody(h, f, env, body, ks)

-----------------------------------------------------------------------------
(***************************************************************************)
(* Functions written in C that evaluate nothing.  Those that return a part *)
(* of an argument return it without a count.                               *)
(***************************************************************************)
Args(h, f) == [i \in 1 .. h[f].args |-> Arg(h, f, i)]
Truth(b)   == IF b THEN T ELSE Nil
Same(h, p) == [heap |-> h, ptr |-> p]

Backwards(s) == [i \in DOMAIN s |-> s[Len(s) + 1 - i]]

(* Faulty form of LispList: all arguments onto `more', those in it too. *)
ListOfAll(h, f) == ConsAll(h, Backwards(Args(h, f)), More(h, f))

LispList(h, f) ==
  ConsAll(h, IF More(h, f) = Nil THEN Backwards(Args(h, f))
             ELSE [i \in 1 .. ArgsInFrame |-> Reg(h, f, ArgsInFrame + 1 - i)],
          More(h, f))

(* A string that has been read ends in a null character. *)
Null == <<"char", 0>>
EndOfString(h, p) == \/ p = Nil
                     \/ Tag(h, p) = "STRG" /\ h[p[2]].part[1] = Null

LispCons(h, f) ==
  LET a == Reg(h, f, 1)
      d == Reg(h, f, 2)
  IN  IF a = Nil /\ d = Nil THEN Same(h, Nil)
      ELSE IF Tag(h, a) = "STRG" /\ Tag(h, d) = "STRG" /\ EndOfString(h, Cdr(h, a))
      THEN MakeString(Lend(h, d), h[a[2]].part[1], d)
      ELSE MakeCons(h, a, d)

LispCar(h, f) ==
  LET a == Reg(h, f, 1)
  IN  CASE Tag(h, a) \in {"CONS", "nil"} -> Same(h, Car(h, a))
        [] Tag(h, a) = "STRG" -> MakeString(h, h[a[2]].part[1], Nil)
        [] OTHER -> Throw(h, Sym("car"), Text("Attempt to take CAR of non sequence"), f)

LispCdr(h, f) ==
  LET a == Reg(h, f, 1)
  IN  IF Tag(h, a) \in {"CONS", "nil", "STRG"} THEN Same(h, Cdr(h, a))
      ELSE Throw(h, Sym("cdr"), Text("Attempt to take CDR of non sequence"), f)

(* (exception message location): its first argument becomes the location. *)
LispException(h, f) ==
  ThrowWithCause(h, Reg(h, f, 1), Reg(h, f, 2), Reg(h, f, 3), h[f].prev)

(* The form that made a lambda; it gets a count more than the cons gave it. *)
LispSource(h, f) ==
  LET fn    == Reg(h, f, 1)
      rest  == MakeCons(h, h[fn[2]].part[1], h[fn[2]].part[2])
      whole == MakeCons(rest.heap, IF Tag(h, fn) = "LAMBDA" THEN Sym("lambda")
                                   ELSE Sym("nlambda"), rest.ptr)
  IN  IF Tag(h, fn) \in {"LAMBDA", "NLAMBDA"}
      THEN Same(IncRef(whole.heap, whole.ptr), whole.ptr)
      ELSE Same(h, Nil)

Primitive(h, name, f) ==
  CASE name = "list"      -> LispList(h, f)
    [] name = "cons"      -> LispCons(h, f)
    [] name = "car"       -> LispCar(h, f)
    [] name = "cdr"       -> LispCdr(h, f)
    [] name = "not"       -> Same(h, Truth(Reg(h, f, 1) = Nil))
    [] name = "and"       -> Same(h, Truth(\A i \in DOMAIN Args(h, f) : Args(h, f)[i] # Nil))
    [] name = "or"        -> Same(h, Truth(\E i \in DOMAIN Args(h, f) : Args(h, f)[i] # Nil))
    [] name = "reverse"   -> Reverse(h, Reg(h, f, 1))
    [] name = "count"     -> Same(h, Num(Len(Chain(h, Reg(h, f, 1), {"CONS", "STRG"}))))
    [] name = "source"    -> LispSource(h, f)
    [] name = "exception" -> LispException(h, f)

Evaluating == {"eval", "apply", "mapcar", "set"}

(* lisp_mapcar: the form (fn element), for each element in turn. *)
MapNext(h, f, list, acc, env, ks) ==
  \/ /\ list # Nil
     /\ LET a    == MakeCons(h, Car(h, list), Nil)
            expr == MakeCons(a.heap, Reg(a.heap, f, 1), a.ptr)
        IN  Go(expr.heap, Eval(expr.ptr, f, env),
               <<[K("mapcar", f, env) EXCEPT !.rest = list, !.acc = acc,
                                             !.fn = expr.ptr]>> \o ks)
  \/ /\ list = Nil
     /\ GoReturn(Reverse(h, acc), ks)

MapValue ==
  /\ Wants("mapcar")
  /\ \/ /\ Threw
        /\ Go(IncRef(heap, Top.fn), ctl, Below)
     \/ /\ ~Threw
        /\ LET l == MakeCons(heap, ctl.value, Top.acc)
               h == DecRef(l.heap, Top.fn)
           IN  MapNext(h, Top.frame, Cdr(h, Top.rest), l.ptr, Top.env, Below)

(* deep_bind: a pair that has the value is put into the oblist. *)
DeepBind(h, name, value, ks) ==
  /\ oblist' = <<<<name, value>>>> \o oblist
  /\ heap' = IncRef(h, value)
  /\ ctl' = Return(value)
  /\ kont' = ks
  /\ UNCHANGED input

NotASymbol(h, who, f, ks) ==
  LET named   == MakeCons(h, Reg(h, f, 1), Nil)
      message == MakeCons(named.heap, Text("The first argument is not a symbol: "), named.ptr)
  IN  GoReturn(Throw(message.heap, Sym(who), message.ptr, f), ks)

(* A function, called on a frame that has its arguments. *)
Call(h, f, env, fn, ks) ==
  LET called == <<[K("function", f, env) EXCEPT !.fn = fn]>> \o ks
  IN  \/ /\ Tag(h, fn) = "LAMBDA"
         /\ EvalLambda(h, fn, f, env, <<K("lambda", f, env)>> \o ks)
      \/ /\ Tag(h, fn) = "function" /\ fn[2] \in Functions \ Evaluating
         /\ GoReturn(Primitive(h, fn[2], f), called)
      \/ /\ fn = Prim("eval")
         /\ LispEval(h, f, env, called)
      \/ /\ fn = Prim("apply")
         /\ LET form == MakeCons(h, Reg(h, f, 1), Reg(h, f, 2))
            IN  Apply(SetReg(SetReg(form.heap, f, 1, form.ptr), f, 2, Nil), f, env, called)
      \/ /\ fn = Prim("mapcar")
         /\ MapNext(h, f, Reg(h, f, 2), Nil, env, called)
      \/ /\ fn = Prim("set") /\ Tag(h, Reg(h, f, 1)) = "sym"
         /\ DeepBind(h, Reg(h, f, 1), Reg(h, f, 2), called)
      \/ /\ fn = Prim("set") /\ Tag(h, Reg(h, f, 1)) # "sym"
         /\ NotASymbol(h, "set", f, called)

-----------------------------------------------------------------------------
(***************************************************************************)
(* make_stack_frame: the arguments are evaluated, on the new frame, into   *)
(* its registers while there are any left; the rest, on the frame before,  *)
(* into the list `more'.  An exception among the former is returned at     *)
(* once, and the new frame forgotten.                                      *)
(***************************************************************************)
FillFrame(h, f, args, env, fn, ks) ==
  \/ /\ IsCons(h, args) /\ h[f].args < ArgsInFrame
     /\ Go(h, Eval(Car(h, args), f, env),
           <<[K("arg", f, env) EXCEPT !.rest = Cdr(h, args), !.fn = fn]>> \o ks)
  \/ /\ IsCons(h, args) /\ h[f].args = ArgsInFrame
     /\ EvalForms(h, args, Nil, h[f].prev, env,
                  <<[K("more", f, env) EXCEPT !.fn = fn, !.rest = args]>> \o ks)
  \/ /\ ~IsCons(h, args)
     /\ Call(h, f, env, fn, ks)

ArgValue ==
  /\ Wants("arg")
  /\ \/ /\ Threw
        /\ Go(heap, ctl, Below)
     \/ /\ ~Threw
        /\ FillFrame(SetReg(heap, Top.frame, heap[Top.frame].args + 1, ctl.value),
                     Top.frame, Top.rest, Top.env, Top.fn, Below)

MoreValue ==
  /\ Wants("more")
  /\ LET f == Top.frame
         h == [heap EXCEPT ![f].part[ArgsInFrame + 1] = ctl.value,
                           ![f].args = @ + Len(Items(heap, Top.rest))]
     IN  Call(IncRef(h, ctl.value), f, Top.env, Top.fn, Below)

(* make_special_frame: the same with the forms themselves, except that those
   in `more' are not counted in args.                                      *)
SpecialFrame(h, f, args) ==
  LET run[i \in 0 .. ArgsInFrame] ==
        IF i = 0 THEN [heap |-> h, args |-> args]
        ELSE LET s == run[i - 1]
             IN  IF s.args = Nil THEN s
                 ELSE [heap |-> SetReg(s.heap, f, i, Car(s.heap, s.args)),
                       args |-> Cdr(s.heap, s.args)]
      full == run[ArgsInFrame]
  IN  IF IsCons(full.heap, full.args)
      THEN IncRef([full.heap EXCEPT ![f].part[ArgsInFrame + 1] = full.args], full.args)
      ELSE full.heap

-----------------------------------------------------------------------------
(* c_progn and lisp_progn: each value is given up when the next one is there.
   lisp_progn goes through its registers as far as they are not NIL, whatever
   the values are; c_progn stops at an exception.                          *)
CProgn(h, forms, r, f, env, ks) ==
  \/ /\ IsCons(h, forms)
     /\ Go(h, Eval(Car(h, forms), f, env),
           <<[K("c_progn", f, env) EXCEPT !.rest = forms, !.acc = r]>> \o ks)
  \/ /\ ~IsCons(h, forms)
     /\ Go(h, Return(r), ks)

CPrognValue ==
  /\ Wants("c_progn")
  /\ LET h == GiveUp(heap, Top.acc)
     IN  CProgn(h, IF Threw THEN Nil ELSE Cdr(h, Top.rest), ctl.value,
                Top.frame, Top.env, Below)

Progn(h, i, r, f, env, ks) ==
  LET more == i > ArgsInFrame \/ Reg(h, f, i) = Nil
  IN  \/ /\ ~more
         /\ Go(h, Eval(Reg(h, f, i), f, env),
               <<[K("progn", f, env) EXCEPT !.i = i, !.acc = r]>> \o ks)
      \/ /\ more /\ IsCons(h, More(h, f))
         /\ CProgn(h, More(h, f), Nil, f, env, ks)
      \/ /\ more /\ ~IsCons(h, More(h, f))
         /\ Go(h, Return(r), ks)

(* Faulty form of PrognValue: the same register again. *)
PrognValueAgain ==
  /\ Wants("progn")
  /\ Progn(GiveUp(heap, Top.acc), Top.i, ctl.value, Top.frame, Top.env, Below)

PrognValue ==
  /\ Wants("progn")
  /\ Progn(GiveUp(heap, Top.acc), Top.i + 1, ctl.value, Top.frame, Top.env, Below)

(* lisp_cond: a clause whose test is not NIL decides; one that is no list
   makes an exception, which the next clause replaces.                     *)
Cond(h, i, r, f, env, ks) ==
  \/ /\ i <= h[f].args /\ IsCons(h, Reg(h, f, i))
     /\ Go(h, Eval(Car(h, Reg(h, f, i)), f, env),
           <<[K("test", f, env) EXCEPT !.i = i]>> \o ks)
  \/ /\ i <= h[f].args /\ ~IsCons(h, Reg(h, f, i))
     /\ GoReturn(Throw(h, Sym("cond"), Text("Arguments to cond must be lists"), f),
                 <<[K("no clause", f, env) EXCEPT !.i = i]>> \o ks)
  \/ /\ i > h[f].args
     /\ Go(h, Return(r), ks)

TestValue ==
  /\ Wants("test")
  /\ \/ /\ ctl.value = Nil
        /\ Cond(heap, Top.i + 1, Nil, Top.frame, Top.env, Below)
     \/ /\ ctl.value # Nil
        /\ CProgn(heap, Cdr(heap, Reg(heap, Top.frame, Top.i)), Nil, Top.frame, Top.env,
                  <<[Top EXCEPT !.k = "clause"]>> \o Below)

NoClause ==
  /\ Wants("no clause")
  /\ Cond(heap, Top.i + 1, ctl.value, Top.frame, Top.env, Below)

ClauseValue ==
  /\ Wants("clause")
  /\ Go(MakeCons(heap, T, ctl.value).heap, ctl, Below)

(* lisp_let: each binding in the environment of those before it. *)
LetBody(h, i, r, f, env, ks) ==
  \/ /\ i <= h[f].args
     /\ Go(h, Eval(Reg(h, f, i), f, env), <<[K("let body", f, env) EXCEPT !.i = i]>> \o ks)
  \/ /\ i > h[f].args
     /\ Go(h, Return(r), ks)

LetBodyValue ==
  /\ Wants("let body")
  /\ \/ /\ Threw
        /\ Go(heap, ctl, Below)
     \/ /\ ~Threw
        /\ LetBody(heap, Top.i + 1, ctl.value, Top.frame, Top.env, Below)

Let(h, cursor, f, env, ks) ==
  LET pair == Car(h, cursor)
  IN  \/ /\ cursor # Nil /\ Tag(h, Car(h, pair)) = "sym"
         /\ Go(h, Eval(Cdr(h, pair), f, env),
               <<[K("let", f, env) EXCEPT !.rest = cursor, !.acc = Car(h, pair)]>> \o ks)
      \/ /\ cursor # Nil /\ Tag(h, Car(h, pair)) # "sym"
         /\ GoReturn(Throw(h, Sym("let"), Text("Let: cannot bind, not a symbol"), f), ks)
      \/ /\ cursor = Nil
         /\ LetBody(h, 2, Nil, f, env, ks)

LetValue ==
  /\ Wants("let")
  /\ LET e == Bind(heap, Top.acc, ctl.value, Top.env)
     IN  Let(e.heap, Cdr(e.heap, Top.rest), Top.frame, e.ptr, Below)

(* lisp_try: the second list of forms, if the first one ends in an exception. *)
TryValue ==
  /\ Wants("try")
  /\ \/ /\ ~Threw
        /\ Go(heap, ctl, Below)
     \/ /\ Threw
        /\ LET e == Bind(heap, Sym("*exception*"), ctl.value, Top.env)
           IN  CProgn(e.heap, Reg(e.heap, Top.frame, 2), Nil, Top.frame, e.ptr, Below)

SetValue ==
  /\ Wants("set!")
  /\ DeepBind(heap, Reg(heap, Top.frame, 1), ctl.value, Below)

(* compose_body: the forms after the first, NILs at the end left out. *)
ComposeBody(h, f) ==
  LET run[i \in 0 .. ArgsInFrame - 1] ==
        IF i = 0 THEN [heap |-> h, ptr |-> More(h, f)]
        ELSE LET b   == run[i - 1]
                 arg == Reg(h, f, ArgsInFrame + 1 - i)
             IN  IF b.ptr = Nil /\ arg = Nil THEN b ELSE MakeCons(b.heap, arg, b.ptr)
  IN  run[ArgsInFrame - 1]

LispLambda(h, kind, f) ==
  LET body == ComposeBody(h, f)
  IN  MakeExecutable(body.heap, kind, Reg(h, f, 1), body.ptr)

CallSpecial(h, f, env, fn, ks) ==
  LET called == <<[K("special", f, env) EXCEPT !.fn = fn]>> \o ks
  IN  \/ /\ Tag(h, fn) = "NLAMBDA"
         /\ EvalLambda(h, fn, f, env, <<K("nlambda", f, env)>> \o ks)
      \/ /\ fn = Special("quote")
         /\ Go(h, Return(Reg(h, f, 1)), called)
      \/ /\ fn = Special("progn")
         /\ Progn(h, 1, Nil, f, env, called)
      \/ /\ fn = Special("cond")
         /\ Cond(h, 1, Nil, f, env, called)
      \/ /\ fn = Special("let")
         /\ Let(h, Reg(h, f, 1), f, env, called)
      \/ /\ fn = Special("try")
         /\ CProgn(h, Reg(h, f, 1), Nil, f, env, <<K("try", f, env)>> \o called)
      \/ /\ fn = Special("set!") /\ Tag(h, Reg(h, f, 1)) = "sym"
         /\ Go(h, Eval(Reg(h, f, 2), f, env), <<K("set!", f, env)>> \o called)
      \/ /\ fn = Special("set!") /\ Tag(h, Reg(h, f, 1)) # "sym"
         /\ NotASymbol(h, "set!", f, called)
      \/ /\ fn = Special("lambda")
         /\ GoReturn(LispLambda(h, "LAMBDA", f), called)
      \/ /\ fn = Special("nlambda")
         /\ GoReturn(LispLambda(h, "NLAMBDA", f), called)

-----------------------------------------------------------------------------
(* The rest of c_apply, when the value in function position is known. *)
ArgumentForms == Cdr(heap, Reg(heap, Top.frame, 1))

(* The limit does not stop a function here: its value was found on a frame as
   deep as its own, or eval_form returned an exception in its place.       *)
ApplyFunction ==
  /\ Wants("fn")
  /\ Tag(heap, ctl.value) \in {"function", "LAMBDA"}
  /\ IF MayCall(Top.frame)
     THEN FillFrame(EmptyFrame(Top.frame), NextFrame, ArgumentForms, Top.env, ctl.value, Below)
     ELSE GoReturn(TooDeep(Top.frame), Below)

ApplySpecial ==
  /\ Wants("fn")
  /\ Tag(heap, ctl.value) \in {"special", "NLAMBDA"}
  /\ IF MayCall(Top.frame)
     THEN CallSpecial(SpecialFrame(EmptyFrame(Top.frame), NextFrame, ArgumentForms),
                      NextFrame, Top.env, ctl.value, Below)
     ELSE GoReturn(TooDeep(Top.frame), Below)

ApplyOther ==
  /\ Wants("fn")
  /\ Tag(heap, ctl.value) \notin {"function", "LAMBDA", "special", "NLAMBDA"}
  /\ IF Threw THEN Go(heap, ctl, Below)
     ELSE GoReturn(Throw(heap, Sym("apply"),
                         Text("Unexpected cell with tag in function position"), Top.frame),
                   Below)

(* maybe_fixup_exception_location: the name of the function as the location
   of an exception that has none.                                          *)
LocationOf(h, list) ==
  LET hits == BindingsOf(h, Key("location"), list)
  IN  IF hits = {} THEN Nil ELSE Cdr(h, Items(h, list)[Foremost(hits)])

Fixed(h, p, fn) ==
  LET payload == h[p[2]].part[1]
      wrapped == Bind(h, Key("payload"), payload, Nil)
      located == IF Tag(h, payload) \in {"nil", "CONS"}
                 THEN Bind(h, Key("location"), Sym(fn[2]), payload)
                 ELSE Bind(wrapped.heap, Key("location"), Sym(fn[2]), wrapped.ptr)
  IN  IF Tag(h, payload) \in {"nil", "CONS"} /\ LocationOf(h, payload) # Nil THEN h
      ELSE [located.heap EXCEPT ![p[2]].part[1] = located.ptr]

(* The frame of a function or a special form goes whatever the value; that
   of a lambda stays for an exception.                                     *)
FunctionValue ==
  /\ Wants("function") \/ Wants("special")
  /\ Go(DecRef(IF Threw THEN Fixed(heap, ctl.value, Top.fn) ELSE heap, Obj(Top.frame)),
        ctl, Below)

(* Faulty form of LambdaValue: the frame is never given back. *)
LambdaValueKeeps ==
  /\ Wants("lambda")
  /\ Go(heap, ctl, Below)

LambdaValue ==
  /\ Wants("lambda")
  /\ Go(IF Threw THEN heap ELSE DecRef(heap, Obj(Top.frame)), ctl, Below)

NlambdaValue ==
  /\ Wants("nlambda")
  /\ Go(DecRef(heap, Obj(Top.frame)), ctl, Below)

-----------------------------------------------------------------------------
(* lisp_repl: the expression is given back when its value has been printed;
   the value is not.  repl() gives back its frame.                         *)
Read ==
  /\ ctl = Idle /\ input # <<>>
  /\ ctl' = Eval(Head(input).expr, Bottom, Nil)
  /\ kont' = <<K("repl", Bottom, Nil)>>
  /\ UNCHANGED <<heap, oblist, input>>

PrintValue ==
  /\ Wants("repl")
  /\ heap' = DecRef(heap, Head(input).expr)
  /\ ctl' = Idle
  /\ kont' = <<>>
  /\ input' = Tail(input)
  /\ UNCHANGED oblist

Leave ==
  /\ ctl = Idle /\ input = <<>>
  /\ Go(DecRef(heap, Obj(Bottom)), Done, <<>>)

Left == ctl = Done /\ UNCHANGED vars

Init ==
  /\ \E p \in Programs : heap = p.heap /\ input = p.items
  /\ oblist = <<>>
  /\ ctl = Idle
  /\ kont = <<>>

Next ==
  \/ EvalAtom \/ EvalForm \/ EvalTooDeep \/ FormValue \/ FormsValue
  \/ BodyValue \/ MoreEvaluated \/ RegisterValue
  \/ MapValue \/ ArgValue \/ MoreValue
  \/ CPrognValue \/ PrognValue \/ TestValue \/ NoClause \/ ClauseValue
  \/ LetBodyValue \/ LetValue \/ TryValue \/ SetValue
  \/ ApplyFunction \/ ApplySpecial \/ ApplyOther
  \/ FunctionValue \/ LambdaValue \/ NlambdaValue
  \/ Read \/ PrintValue \/ Leave \/ Left

(* The interpreter goes on running until it is done.  As some step other than
   a stutter is possible until then, this is WF_vars(Next); TLC evaluates it
   faster.                                                                 *)
Fairness == []<>(ctl = Done) \/ []<><<TRUE>>_vars

Spec == Init /\ [][Next]_vars /\ Fairness

-----------------------------------------------------------------------------
TypeOK ==
  /\ \A i \in DOMAIN heap :
       /\ heap[i].count \in Nat
       /\ heap[i].free = (heap[i].count = 0)
       /\ heap[i].kind = "FRAME" /\ ~heap[i].free
            => heap[i].args <= ArgsInFrame + Len(Items(heap, More(heap, i)))
       /\ \A j \in DOMAIN heap[i].part :
            IsObj(heap[i].part[j]) => heap[i].part[j][2] \in DOMAIN heap
  /\ \A i \in DOMAIN oblist : oblist[i][1][1] = "sym"
  /\ ctl.mode \in {"eval", "return", "idle", "done"}
  /\ ctl.mode \in {"idle", "done"} => kont = <<>>

(* The activations that have a frame of their own, which they made. *)
Owners == {"form", "arg", "more", "function", "lambda", "nlambda", "special"}
Owned  == {j \in DOMAIN kont : kont[j].k \in Owners}
Active == {kont[j].frame : j \in Owned}
            \cup (IF ctl = Done THEN {} ELSE {Bottom})

(* The frames of the activations are all there, each one's own, on top of a
   frame that is there too, and below the limit.  What could break it: a
   dec_ref too many anywhere in the evaluator frees a frame that is in use
   (every frame is freed by count), or a frame is made past the limit.     *)
StackSound ==
  /\ \A j, l \in Owned : kont[j].frame = kont[l].frame => j = l
  /\ \A j \in Owned : kont[j].frame # Bottom
  /\ \A f \in Active :
       /\ heap[f].kind = "FRAME" /\ ~heap[f].free
       /\ StackLimit > 0 => heap[f].depth < StackLimit
       /\ f # Bottom => /\ heap[f].prev \in Active
                        /\ heap[f].depth = heap[heap[f].prev].depth + 1
  /\ ctl.mode = "eval" => ctl.frame \in Active

(* How often an object is referred to: by parts of objects that are not free,
   by the oblist, by the activation that made it, by the reader.           *)
References(i) ==
  Cardinality(Places(heap, DOMAIN heap, i))
  + Cardinality({j \in DOMAIN oblist : oblist[j][2] = Obj(i)})
  + Cardinality({j \in Owned : kont[j].frame = i})
  + Cardinality({j \in DOMAIN input : input[j].expr = Obj(i)})

(* Every reference to an object is covered by its count, or by a value that a
   progn or a lambda gave up although it was not theirs to give (those give
   up values that they were only lent: see BoundValuesLive), or that a string
   took over as its tail although others had it.  Registers,
   `more', bindings, exceptions, the code of lambdas and expressions made on
   the fly must all be counted for it, on every path, exceptions included. *)
CountsCover ==
  \A i \in DOMAIN heap : References(i) <= heap[i].count + heap[i].given

(* As long as there was no exception, nothing of the stack is left when an
   expression has its value: each of the frames that eval_form, functions,
   lambdas and special forms made has been freed, and only by its maker's
   dec_ref, although arguments, bodies and values were counted in and out
   of it.                                                                  *)
NoFrameLeft ==
  ctl = Idle /\ (\A i \in DOMAIN heap : heap[i].kind # "EXEP")
    => \A i \in DOMAIN heap : heap[i].kind = "FRAME" /\ i # Bottom => heap[i].free

(* What is bound in the root namespace is not freed.  The code does not keep
   to it: docs/Cons-space.md:29.                                           *)
BoundValuesLive ==
  \A i \in DOMAIN oblist : Tag(heap, oblist[i][2]) # "FREE"

(* The frames that led to an exception are still there when it arrives at the
   REPL.  The code does not keep to it: lispops.c:105-107.                  *)
Behind(f) ==
  LET walk[n \in 0 .. Len(heap)] ==
        IF n = 0 THEN {f} ELSE walk[n - 1] \cup {heap[g].prev : g \in walk[n - 1] \ {Bottom}}
  IN  walk[heap[f].depth]
BacktraceLive ==
  Wants("repl") /\ Threw
    => \A f \in Behind(heap[ctl.value[2]].part[2][2]) : ~heap[f].free

(* Every expression gets a value or an exception, recursion without an end
   too, as there is a limit to the stack.  (Without a limit, 0, the program
   would run out of memory.)                                               *)
Returns == <>(ctl = Done)
=============================================================================
