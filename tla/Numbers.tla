------------------------------- MODULE Numbers -------------------------------
(***************************************************************************)
(* Numbers: integers of one or more cells, ratios and reals, read, bound   *)
(* to names, and handed to the arithmetic functions of the interpreter.    *)
(*                                                                         *)
(* An integer is one object here, with the values of its cells, the least  *)
(* significant first; only the first may be negative.  Small integers come *)
(* from a cache and are locked, so that a pointer to one is its value.  Of *)
(* a real only the sign is kept, and rounding may make it any.             *)
(***************************************************************************)
EXTENDS Cells

CONSTANTS Base,             \* INT_CELL_BASE
          SmallIntLimit,    \* SMALL_INT_LIMIT
          IntLimit,         \* 2^31: an int goes from -IntLimit to IntLimit - 1
          Garbage,          \* what a variable that was not set may hold
          Radix,            \* the base in which numbers are read
          Names, Texts,     \* what may be bound, and read
          MaxCalls          \* bound: how many functions are called

ASSUME NumbersAssumption ==
  /\ Base \in Nat /\ IntLimit \in 1 .. Base /\ MaxCalls \in Nat
  /\ SmallIntLimit \in 1 .. Base /\ Radix \in 2 .. Base - 1
  /\ IsFiniteSet(Names)

VARIABLES heap,    \* the cells
          env,     \* the number bound to each name
          call,    \* the function being called
          calls    \* how many were

vars == <<heap, env, call, calls>>

Int64Limit == 8 * Base      \* 2^63, when a cell has 60 bits
Signs      == {-1, 0, 1}

Abs(n) == IF n < 0 THEN -n ELSE n

(* Signed arithmetic of a width wraps in the code gcc makes; and C's division
   rounds towards zero.                                                    *)
Wrap(n, limit) == ((n + limit) % (2 * limit)) - limit
Quotient(n, m) == IF (n < 0) = (m < 0) THEN Abs(n) \div Abs(m)
                  ELSE -(Abs(n) \div Abs(m))
Remainder(n, m) == n - m * Quotient(n, m)

-----------------------------------------------------------------------------
(* What a pointer leads to. *)
Answer(h, p) == [heap |-> h, ptr |-> p]

KindOf(tag) == IF tag = "int" THEN "INTR" ELSE tag
Kind(h, p)  == KindOf(Tag(h, p))

IsRational(h, p) == Kind(h, p) \in {"INTR", "RTIO"}
IsNumber(h, p)   == IsRational(h, p) \/ Kind(h, p) = "REAL"

CellsOf(h, p) == IF p[1] = "int" THEN <<p[2]>> ELSE h[p[2]].part[1][2]
Dividend(h, p) == h[p[2]].part[1]
Divisor(h, p)  == h[p[2]].part[2]
First(h, p)    == CellsOf(h, p)[1]

MakeInteger(h, cells) == New(h, NewCell("INTR", << <<"cells", cells>> >>))
MakeReal(h, sign)     == New(h, NewCell("REAL", <<Num(sign)>>))

(* acquire_integer *)
Acquire(h, cells) ==
  IF Len(cells) = 1 /\ cells[1] \in 0 .. SmallIntLimit - 1
  THEN Answer(h, Num(cells[1])) ELSE MakeInteger(h, cells)

(* release_integer, and dec_ref, of something the answer may be: it is then
   given up although it goes on being used.                                *)
Release(h, p, answer) == IF p = answer THEN GiveUp(h, p) ELSE DecRef(h, p)

(* The answer r, once p has been given up. *)
After(r, p) == Answer(DecRef(r.heap, p), r.ptr)

-----------------------------------------------------------------------------
(***************************************************************************)
(* add_integers: cell by cell; int128_to_integer keeps the quotient of a   *)
(* sum that is too large and carries the remainder, and a cell behind the  *)
(* first that is 0 counts as INT_CELL_BASE (cell_value).  A sum of first   *)
(* cells that is small is the answer, whatever is behind them.             *)
(***************************************************************************)
CellValue(cells, k) ==
  IF k \notin DOMAIN cells THEN 0
  ELSE IF k > 1 /\ cells[k] = 0 THEN Base ELSE cells[k]

LongSum(a, b) ==
  LET length == IF Len(a) > Len(b) THEN Len(a) ELSE Len(b)
      upto[k \in 0 .. length + 1] ==
        IF k = 0 THEN [cells |-> <<>>, carry |-> 0]
        ELSE LET s == upto[k - 1]
                 v == CellValue(a, k) + CellValue(b, k) + s.carry
             IN  IF k > length /\ s.carry = 0 THEN s
                 ELSE IF v < Base
                      THEN [cells |-> Append(s.cells, Wrap(v, Int64Limit)), carry |-> 0]
                      ELSE [cells |-> Append(s.cells, v \div Base), carry |-> v % Base]
  IN  upto[length + 1].cells

Sum(a, b) == IF a[1] + b[1] \in 0 .. SmallIntLimit - 1 THEN <<a[1] + b[1]>>
             ELSE LongSum(a, b)

AddIntegers(h, p, q) == Acquire(h, Sum(CellsOf(h, p), CellsOf(h, q)))

(***************************************************************************)
(* multiply_integers by an integer b of one cell.  A product that is more  *)
(* than a cell, or negative, is replaced by its carry; for the second cell *)
(* of a, append_cell adds the digit to a copy nobody keeps.  (More cells   *)
(* are not multiplied here, see Begin.)                                    *)
(***************************************************************************)
Partial(i, x) == IF x \div Base # 0 THEN x \div Base
                 ELSE IF i = 1 THEN x ELSE 0

Product(a, b) ==
  LET upto[i \in 0 .. Len(a)] ==
        IF i = 0 THEN <<0>>
        ELSE Sum(upto[i - 1], <<Partial(i, Wrap(a[i] * b[1], Int64Limit))>>)
  IN  upto[Len(a)]

-----------------------------------------------------------------------------
(* greatest_common_divisor; o is an int, and is not set if m is zero.  From the
   second turn on m is the remainder of an int, and each turn brings it nearer
   to zero: the loop ends within MaxTurns, whatever the operands.          *)
MaxTurns == IntLimit + 2

Turn(s) == IF s.m = 0 THEN s
           ELSE [o |-> Wrap(s.m, IntLimit), n |-> Wrap(s.m, IntLimit),
                 m |-> Remainder(s.n, s.m)]

Turned(m, n, unset) ==
  LET turns[k \in 0 .. MaxTurns] ==
        IF k = 0 THEN [m |-> m, n |-> n, o |-> unset] ELSE Turn(turns[k - 1])
  IN  turns[MaxTurns]

Gcd(m, n, unset) == Turned(m, n, unset).o

(* Faulty form of MakeUnsimplified: the parts are not counted. *)
MakeRatioOfLent(h, dividend, divisor) ==
  New(h, NewCell("RTIO", <<dividend, divisor>>))

(* make_ratio that does not simplify. *)
MakeUnsimplified(h, dividend, divisor) ==
  New(IncRef(IncRef(h, dividend), divisor), NewCell("RTIO", <<dividend, divisor>>))

(* Two integers that were acquired, to make a ratio of. *)
Pair(p, q) == [heap |-> q.heap, dividend |-> p, divisor |-> q.ptr]
NextTo(p, cells) == Pair(p.ptr, Acquire(p.heap, cells))
AcquireBoth(h, dividend, divisor) == NextTo(Acquire(h, dividend), divisor)

UnsimplifiedOf(parts) == MakeUnsimplified(parts.heap, parts.dividend, parts.divisor)

(* Faulty form of Cancel: a ratio with the divisor 1 remains a ratio. *)
CancelToRatio(h, p, n, d, gcd) ==
  IF gcd <= 1 THEN Answer(h, p)
  ELSE UnsimplifiedOf(AcquireBoth(h, <<Quotient(n, gcd)>>, <<Quotient(d, gcd)>>))

Cancel(h, p, n, d, gcd) ==
  IF gcd <= 1 THEN Answer(h, p)
  ELSE IF Quotient(d, gcd) = 1 THEN Acquire(h, <<Quotient(n, gcd)>>)
  ELSE UnsimplifiedOf(AcquireBoth(h, <<Quotient(n, gcd)>>, <<Quotient(d, gcd)>>))

(* simplify_ratio.  The dividend of a ratio whose divisor is 1 is returned as
   it is, not counted again.                                               *)
Simplify(h, p, unset) ==
  LET n == First(h, Dividend(h, p))
      d == First(h, Divisor(h, p))
  IN  IF d = 1 THEN Answer(h, Dividend(h, p))
      ELSE Cancel(h, p, n, d, Gcd(n, d, unset))

(* make_ratio that simplifies: what it made is given up for what is simpler. *)
InPlaceOf(raw, r) == IF r.ptr = raw.ptr THEN r ELSE After(r, raw.ptr)
Simplified(raw, unset) == InPlaceOf(raw, Simplify(raw.heap, raw.ptr, unset))
MakeRatio(h, dividend, divisor, unset) ==
  Simplified(MakeUnsimplified(h, dividend, divisor), unset)
RatioOf(parts, unset) == Simplified(UnsimplifiedOf(parts), unset)

AddRatioRatio(h, p, q, unset) ==
  LET a == CellsOf(h, Dividend(h, p))
      b == CellsOf(h, Divisor(h, p))
      c == CellsOf(h, Dividend(h, q))
      d == CellsOf(h, Divisor(h, q))
  IN  RatioOf(AcquireBoth(h, Sum(Product(a, d), Product(c, b)), Product(b, d)), unset)

AddIntegerRatio(h, int, ratio, unset) ==
  LET whole == MakeUnsimplified(h, int, Num(1))
  IN  After(AddRatioRatio(whole.heap, whole.ptr, ratio, unset), whole.ptr)

(* The parts of a product are released, whether or not it is one of them. *)
ReleaseParts(parts, r) ==
  Answer(Release(Release(r.heap, parts.dividend, r.ptr), parts.divisor, r.ptr), r.ptr)
ProductOf(parts, unset) == ReleaseParts(parts, RatioOf(parts, unset))

MultiplyRatioRatio(h, p, q, unset) ==
  LET n == First(h, Dividend(h, p)) * First(h, Dividend(h, q))
      d == First(h, Divisor(h, p)) * First(h, Divisor(h, q))
  IN  ProductOf(AcquireBoth(h, <<Wrap(n, Int64Limit)>>, <<Wrap(d, Int64Limit)>>), unset)

(* The ratio made of the integer is never given up. *)
MultiplyIntegerRatio(h, int, ratio, unset) ==
  LET whole == MakeUnsimplified(h, int, Num(1))
  IN  MultiplyRatioRatio(whole.heap, whole.ptr, ratio, unset)

DivideRatioRatio(h, p, q, unset) ==
  LET i == MakeUnsimplified(h, Divisor(h, q), Dividend(h, q))
  IN  After(MultiplyRatioRatio(i.heap, p, i.ptr, unset), i.ptr)

-----------------------------------------------------------------------------
(* zerop, is_negative, negative and absolute. *)
IsZero(h, p) ==
  LET Zeros(q) == \A i \in DOMAIN CellsOf(h, q) : CellsOf(h, q)[i] = 0
  IN  CASE Kind(h, p) = "INTR" -> Zeros(p)
        [] Kind(h, p) = "RTIO" -> Zeros(Dividend(h, p))
        [] Kind(h, p) = "REAL" -> h[p[2]].part[1] = Num(0)
        [] OTHER -> FALSE

IsNegative(h, p) ==
  CASE Kind(h, p) = "INTR" -> First(h, p) < 0
    [] Kind(h, p) = "RTIO" -> First(h, Dividend(h, p)) < 0
    [] Kind(h, p) = "REAL" -> h[p[2]].part[1] = Num(-1)
    [] OTHER -> FALSE

(* Faulty form of NegativeInteger: it is the last cell that gets the sign. *)
NegateLastCell(h, p) ==
  LET cells == CellsOf(h, p)
      n     == Len(cells)
  IN  MakeInteger(h, Append(SubSeq(cells, 1, n - 1), -cells[n]))

NegativeInteger(h, p) ==
  MakeInteger(h, <<Wrap(-First(h, p), Int64Limit)>> \o Tail(CellsOf(h, p)))

Negative(h, p) ==
  CASE Kind(h, p) = "INTR" -> NegativeInteger(h, p)
    [] Kind(h, p) = "RTIO" ->
         LET n == NegativeInteger(h, Dividend(h, p))
         IN  MakeUnsimplified(n.heap, n.ptr, Divisor(h, p))
    [] Kind(h, p) = "REAL" -> MakeReal(h, -h[p[2]].part[1][2])
    [] OTHER -> Answer(h, p)

Absolute(h, p) ==
  IF IsNegative(h, p) THEN Negative(h, p)
  ELSE Answer(h, IF IsNumber(h, p) THEN p ELSE Nil)

(* subtract_ratio_ratio, and the difference of an integer and a ratio, in which
   the ratio made of the integer is counted twice and given up once.       *)
SubtractRatioRatio(h, p, q, unset) ==
  LET i == Negative(h, q)
  IN  After(AddRatioRatio(i.heap, p, i.ptr, unset), i.ptr)

OverOne(one, int) == MakeUnsimplified(one.heap, int, one.ptr)
AsRatio(h, int)   == OverOne(MakeInteger(h, <<1>>), int)

(* The quotient of a ratio and an integer, which was made a ratio r: that and
   its divisor are given up.                                               *)
DivideByWhole(p, r, unset) ==
  After(After(DivideRatioRatio(r.heap, p, r.ptr, unset), r.ptr), Divisor(r.heap, r.ptr))

(***************************************************************************)
(* The functions of two arguments, by the kinds of both.  A real that      *)
(* comes out has the sign s.                                               *)
(***************************************************************************)
NotANumber(h, name, f) == Throw(h, Sym(name), Text("not a number"), f)

GivesReal(h, p, q) ==
  Kind(h, p) = "REAL" \/ (IsRational(h, p) /\ Kind(h, q) = "REAL")

(* Nothing but a real is rounded. *)
SignsOf(h, p, q) == IF GivesReal(h, p, q) THEN Signs ELSE {0}

Add2(h, p, q, s, unset, f) ==
  IF IsZero(h, p) THEN Answer(h, q)
  ELSE IF IsZero(h, q) THEN Answer(h, p)
  ELSE IF GivesReal(h, p, q) THEN MakeReal(h, s)
  ELSE CASE <<Kind(h, p), Kind(h, q)>> = <<"INTR", "INTR">> -> AddIntegers(h, p, q)
         [] <<Kind(h, p), Kind(h, q)>> = <<"INTR", "RTIO">> -> AddIntegerRatio(h, p, q, unset)
         [] <<Kind(h, p), Kind(h, q)>> = <<"RTIO", "INTR">> -> AddIntegerRatio(h, q, p, unset)
         [] <<Kind(h, p), Kind(h, q)>> = <<"RTIO", "RTIO">> -> AddRatioRatio(h, p, q, unset)
         [] OTHER -> NotANumber(h, "+", f)

Multiply2(h, p, q, s, unset, f) ==
  IF IsZero(h, p) THEN Answer(h, q)
  ELSE IF IsZero(h, q) THEN Answer(h, p)
  ELSE IF GivesReal(h, p, q) THEN MakeReal(h, s)
  ELSE CASE <<Kind(h, p), Kind(h, q)>> = <<"INTR", "INTR">> ->
              Acquire(h, Product(CellsOf(h, p), CellsOf(h, q)))
         [] <<Kind(h, p), Kind(h, q)>> = <<"INTR", "RTIO">> -> MultiplyIntegerRatio(h, p, q, unset)
         [] <<Kind(h, p), Kind(h, q)>> = <<"RTIO", "INTR">> -> MultiplyIntegerRatio(h, q, p, unset)
         [] <<Kind(h, p), Kind(h, q)>> = <<"RTIO", "RTIO">> -> MultiplyRatioRatio(h, p, q, unset)
         [] OTHER -> NotANumber(h, "*", f)

Subtract2(h, p, q, s, unset, f) ==
  IF GivesReal(h, p, q) THEN MakeReal(h, s)
  ELSE CASE <<Kind(h, p), Kind(h, q)>> = <<"INTR", "INTR">> ->
              LET i == Negative(h, q) IN AddIntegers(i.heap, p, i.ptr)
         [] <<Kind(h, p), Kind(h, q)>> = <<"INTR", "RTIO">> ->
              LET r == AsRatio(h, p) IN SubtractRatioRatio(r.heap, r.ptr, q, unset)
         [] <<Kind(h, p), Kind(h, q)>> = <<"RTIO", "INTR">> ->
              LET r == AsRatio(h, q) IN SubtractRatioRatio(r.heap, p, r.ptr, unset)
         [] <<Kind(h, p), Kind(h, q)>> = <<"RTIO", "RTIO">> -> SubtractRatioRatio(h, p, q, unset)
         [] OTHER -> NotANumber(h, "-", f)

Divide2(h, p, q, s, unset, f) ==
  IF GivesReal(h, p, q) THEN MakeReal(h, s)
  ELSE CASE <<Kind(h, p), Kind(h, q)>> = <<"INTR", "INTR">> -> MakeRatio(h, p, q, unset)
         [] <<Kind(h, p), Kind(h, q)>> = <<"INTR", "RTIO">> ->
              LET r == AsRatio(h, p) IN DivideRatioRatio(r.heap, r.ptr, q, unset)
         [] <<Kind(h, p), Kind(h, q)>> = <<"RTIO", "INTR">> ->
              DivideByWhole(p, AsRatio(h, q), unset)
         [] <<Kind(h, p), Kind(h, q)>> = <<"RTIO", "RTIO">> -> DivideRatioRatio(h, p, q, unset)
         [] OTHER -> NotANumber(h, "/", f)

-----------------------------------------------------------------------------
(***************************************************************************)
(* read_number: digits, commas, a period or a slash.  What is read grows   *)
(* by multiply_integers and add_integers.                                  *)
(***************************************************************************)
(* Faulty form of AtSlash: the digits of the dividend go on. *)
AtSlashGoOn(r) == [r EXCEPT !.dividend = r.cells]

AtSlash(r) == [r EXCEPT !.dividend = r.cells, !.cells = <<0>>]

Scan(chars) ==
  LET Bad(r) == [r EXCEPT !.bad = TRUE]
      upto[k \in 0 .. Len(chars)] ==
        IF k = 0 THEN [cells |-> <<0>>, dividend |-> <<>>, period |-> FALSE, bad |-> FALSE]
        ELSE LET r == upto[k - 1]
                 c == chars[k]
             IN  IF r.bad \/ c[1] = "comma" THEN r
                 ELSE IF c[1] = "digit"
                      THEN [r EXCEPT !.cells = Sum(Product(@, <<Radix>>), <<c[2]>>)]
                 ELSE IF r.period \/ r.dividend # <<>> THEN Bad(r)
                 ELSE IF c[1] = "period" THEN [r EXCEPT !.period = TRUE]
                 ELSE AtSlash(r)
  IN  upto[Len(chars)]

NegativeOf(r) == Negative(r.heap, r.ptr)

NumberOf(h, r, minus, s, unset) ==
  LET value == IF r.period THEN MakeReal(h, s)
               ELSE IF r.dividend = <<>> THEN Acquire(h, r.cells)
               ELSE RatioOf(AcquireBoth(h, r.dividend, r.cells), unset)
  IN  IF minus THEN NegativeOf(value) ELSE value

ReadNumber(h, text, s, unset, f) ==
  LET r == Scan(text.chars)
  IN  IF r.bad THEN Throw(h, Sym("read"), Text("malformed number"), f)
      ELSE NumberOf(h, r, text.minus, s, unset)

(***************************************************************************)
(* Calls.  A call has its frame, the arguments that are yet to be added or *)
(* multiplied, and its result so far; `operands' are the exact values the  *)
(* arguments had, for the properties.                                      *)
(***************************************************************************)
Bottom == 1     \* the frame of the loop that reads and evaluates
Idle   == [op |-> "none"]

Several == {"+", "*"}
Two     == {"-", "/"}
One     == {"absolute", "negative?", "ratio->real"}

Tuples(S, n) == UNION {[1 .. k -> S] : k \in 1 .. n}

(* The exact value of a pointer to an integer of one cell, or to a ratio of
   those in lowest terms: a dividend and a divisor.                        *)
Lowest(n, d) == {i \in 2 .. Abs(d) : n % i = 0 /\ d % i = 0} = {}

Exact(h, p) ==
  IF Kind(h, p) = "INTR" /\ Len(CellsOf(h, p)) = 1 THEN <<First(h, p), 1>>
  ELSE IF Kind(h, p) # "RTIO" THEN <<>>
  ELSE LET n == CellsOf(h, Dividend(h, p))
           d == CellsOf(h, Divisor(h, p))
       IN  IF Len(n) = 1 /\ Len(d) = 1 /\ d[1] > 1 /\ Lowest(n[1], d[1])
           THEN <<n[1], d[1]>> ELSE <<>>

OneCell(h, p) ==
  CASE Kind(h, p) = "INTR" -> Len(CellsOf(h, p)) = 1
    [] Kind(h, p) = "RTIO" -> /\ Len(CellsOf(h, Dividend(h, p))) = 1
                              /\ Len(CellsOf(h, Divisor(h, p))) = 1
    [] OTHER -> TRUE

(* make_stack_frame, of arguments that are names: registers, and a list of the
   values for which there is none.                                         *)
KeepMore(f, more) ==
  IncRef([more.heap EXCEPT ![f].part[ArgsInFrame + 1] = more.ptr], more.ptr)

NewFrame(h, args) ==
  LET f == Len(h) + 1
      registers == IF Len(args) < ArgsInFrame THEN Len(args) ELSE ArgsInFrame
      fill[r \in 0 .. registers] ==
        IF r = 0 THEN Append(h, FrameCell(Bottom, 1))
        ELSE SetReg(fill[r - 1], f, r, args[r])
      backwards == [i \in 1 .. Len(args) - registers |-> args[Len(args) + 1 - i]]
  IN  KeepMore(f, ConsAll(fill[registers], backwards, Nil))

(* What lisp_add goes through: the registers up to one that is NIL, and more. *)
Summed(args) ==
  LET registers == {r \in 1 .. ArgsInFrame : \A i \in 1 .. r : i <= Len(args) /\ args[i] # Nil}
      count == CHOOSE n \in 0 .. ArgsInFrame : registers = 1 .. n
  IN  SubSeq(args, 1, count) \o SubSeq(args, ArgsInFrame + 1, Len(args))

(* Numbers of more than one cell are only added and subtracted: the products of
   longer ones are not modelled.                                           *)
FirstResult(op, h) ==
  IF op \in Several THEN MakeInteger(h, <<IF op = "+" THEN 0 ELSE 1>>)
  ELSE Answer(h, Nil)

Begin(op, args) ==
  /\ call = Idle /\ calls < MaxCalls
  /\ \/ op \in {"+", "-"} /\ \A i \in DOMAIN args : Kind(heap, args[i]) # "RTIO"
     \/ \A i \in DOMAIN args : OneCell(heap, args[i])
  /\ calls' = calls + 1
  /\ \E r \in {FirstResult(op, NewFrame(heap, args))} :
       /\ heap' = r.heap
       /\ call' = [op |-> op, frame |-> Len(heap) + 1, args |-> args,
                   todo |-> IF op \in Several THEN Summed(args) ELSE args,
                   result |-> r.ptr,
                   operands |-> [i \in DOMAIN args |-> Exact(heap, args[i])]]
  /\ UNCHANGED env

Argument(i) == IF i \in DOMAIN call.args THEN call.args[i] ELSE Nil

Going(op) == call.op = op /\ call.todo # <<>> /\ ~IsException(heap, call.result)

(* The next argument is added or multiplied; what was the result until then is
   given up, even if it is an argument.                                    *)
Accumulate(r) ==
  LET lent == call.result \in {call.args[i] : i \in DOMAIN call.args}
  IN  /\ heap' = IF r.ptr = call.result THEN r.heap
                 ELSE IF lent THEN GiveUp(r.heap, call.result)
                 ELSE DecRef(r.heap, call.result)
      /\ call' = [call EXCEPT !.todo = Tail(@), !.result = r.ptr]
      /\ UNCHANGED <<env, calls>>

Returns(r) ==
  /\ heap' = r.heap
  /\ call' = [call EXCEPT !.todo = <<>>, !.result = r.ptr]
  /\ UNCHANGED <<env, calls>>

Add ==
  Going("+") /\ \E s \in SignsOf(heap, call.result, call.todo[1]), unset \in Garbage :
    Accumulate(Add2(heap, call.result, call.todo[1], s, unset, call.frame))

Multiply ==
  Going("*") /\ \E s \in SignsOf(heap, call.result, call.todo[1]), unset \in Garbage :
    Accumulate(Multiply2(heap, call.result, call.todo[1], s, unset, call.frame))

Subtract ==
  Going("-") /\ \E s \in SignsOf(heap, Argument(1), Argument(2)), unset \in Garbage :
    Returns(Subtract2(heap, Argument(1), Argument(2), s, unset, call.frame))

Divide ==
  Going("/") /\ \E s \in SignsOf(heap, Argument(1), Argument(2)), unset \in Garbage :
    Returns(Divide2(heap, Argument(1), Argument(2), s, unset, call.frame))

LispAbsolute == Going("absolute") /\ Returns(Absolute(heap, Argument(1)))

LispIsNegative ==
  Going("negative?") /\ Returns(Answer(heap, IF IsNegative(heap, Argument(1)) THEN T ELSE Nil))

RatioToReal ==
  Going("ratio->real") /\ \E s \in Signs :
    Returns(IF Kind(heap, Argument(1)) = "RTIO" THEN MakeReal(heap, s) ELSE Answer(heap, Nil))

Answered == call # Idle /\ (call.todo = <<>> \/ IsException(heap, call.result))

(* The frame is given back; the result is printed or bound. *)
Leave ==
  /\ heap' = DecRef(heap, Obj(call.frame))
  /\ UNCHANGED env

Bound(n) ==
  /\ ~IsException(heap, call.result)
  /\ heap' = IncRef(DecRef(heap, Obj(call.frame)), call.result)
  /\ env' = [env EXCEPT ![n] = call.result]

Finish ==
  /\ Answered
  /\ Leave \/ \E n \in Names : Bound(n)
  /\ call' = Idle
  /\ UNCHANGED calls

(* (set! n text), the first thing that is done with a name. *)
Enter(n, text) ==
  /\ call = Idle /\ calls = 0 /\ env[n] = Nil
  /\ \E s \in Signs, unset \in Garbage :
       \E r \in {ReadNumber(heap, text, s, unset, Bottom)} :
         IF IsException(r.heap, r.ptr)
         THEN heap' = r.heap /\ calls' = calls + 1 /\ UNCHANGED env
         ELSE /\ heap' = IncRef(r.heap, r.ptr)
              /\ env' = [env EXCEPT ![n] = r.ptr]
              /\ UNCHANGED calls
  /\ UNCHANGED call

(* (set! n t) *)
EnterTruth(n) ==
  /\ call = Idle /\ calls = 0 /\ env[n] = Nil
  /\ env' = [env EXCEPT ![n] = T]
  /\ UNCHANGED <<heap, call, calls>>

(* The input ends. *)
End == call = Idle /\ calls = MaxCalls /\ UNCHANGED vars

Init ==
  /\ heap = <<FrameCell(0, 0)>>
  /\ env = [n \in Names |-> Nil]
  /\ call = Idle /\ calls = 0

Values == {env[n] : n \in Names}

Next ==
  \/ \E n \in Names, text \in Texts : Enter(n, text)
  \/ \E n \in Names : EnterTruth(n)
  \/ \E op \in Several, args \in Tuples(Values, ArgsInFrame + 1) : Begin(op, args)
  \/ \E op \in Two, args \in Tuples(Values, 2) : Begin(op, args)
  \/ \E op \in One, args \in Tuples(Values, 1) : Begin(op, args)
  \/ Add \/ Multiply \/ Subtract \/ Divide
  \/ LispAbsolute \/ LispIsNegative \/ RatioToReal
  \/ Finish \/ End

Spec == Init /\ [][Next]_vars

-----------------------------------------------------------------------------
(***************************************************************************)
(* Properties.                                                             *)
(***************************************************************************)
(* Every number is made of cells that a 64 bit integer can hold, none but the
   first negative, and those behind the first within INT_CELL_BASE; the parts
   of a ratio are integers.                                                *)
TypeOK ==
  /\ \A i \in DOMAIN heap :
       /\ heap[i].kind \in {"INTR", "RTIO", "REAL", "FRAME", "CONS", "EXEP"}
       /\ heap[i].count \in Nat
       /\ Tag(heap, Obj(i)) = "INTR" =>
            \A k \in DOMAIN CellsOf(heap, Obj(i)) :
              CellsOf(heap, Obj(i))[k] \in
                IF k = 1 THEN -Int64Limit .. Int64Limit - 1 ELSE 0 .. Base - 1
       /\ Tag(heap, Obj(i)) = "RTIO" =>
            /\ Kind(heap, Dividend(heap, Obj(i))) = "INTR"
            /\ Kind(heap, Divisor(heap, Obj(i))) = "INTR"
  /\ DOMAIN env = Names /\ calls \in 0 .. MaxCalls

References(i) == Cardinality(Places(heap, DOMAIN heap, i))
                 + Cardinality({n \in Names : env[n] = Obj(i)})

(* Registers, names and the parts of ratios are counted on every way through
   the arithmetic: if an object has fewer counts than references, then a sum or
   a product that went on past an argument, or a product that is its own
   dividend, has given the count up.                                       *)
CountsCover == \A i \in DOMAIN heap : References(i) <= heap[i].count + heap[i].given

(***************************************************************************)
(* The exact answers, of operands that are fractions <<n, d>>, for those   *)
(* calls of which the code gets them right.                                *)
(***************************************************************************)
Reduced(n, d) ==
  LET gcd == CHOOSE g \in 1 .. d :
               /\ n % g = 0 /\ d % g = 0
               /\ \A i \in g + 1 .. d : ~(n % i = 0 /\ d % i = 0)
  IN  <<Quotient(n, gcd), d \div gcd>>

Fraction(op, a, b) ==
  CASE op = "+" -> Reduced(a[1] * b[2] + b[1] * a[2], a[2] * b[2])
    [] op = "-" -> Reduced(a[1] * b[2] - b[1] * a[2], a[2] * b[2])
    [] op = "*" -> Reduced(a[1] * b[1], a[2] * b[2])
    [] op = "/" -> Reduced(a[1] * b[2], a[2] * b[1])

(* What is multiplied on the way remains within an int. *)
WithinInt(a, b) ==
  /\ Abs(a[1]) * b[2] + Abs(b[1]) * a[2] < IntLimit
  /\ Abs(a[1] * b[1]) < IntLimit /\ a[2] * b[2] < IntLimit

Expected(op, w) ==
  LET upto[k \in 1 .. Len(w)] ==
        IF k = 1 THEN [value |-> w[1], small |-> WithinInt(w[1], w[1])]
        ELSE LET r == upto[k - 1]
             IN  IF ~r.small THEN r
                 ELSE [value |-> Fraction(op, r.value, w[k]), small |-> WithinInt(r.value, w[k])]
  IN  upto[Len(w)]

(* Negative numbers are added and subtracted if they are integers; factors,
   divisors and dividends are to be positive.                              *)
Regular(op, w) ==
  /\ \A i \in DOMAIN w : w[i] # <<>>
  /\ op \in Two => Len(w) = 2
  /\ \/ op \in {"+", "-"} /\ \A i \in DOMAIN w : w[i][2] = 1
     \/ op = "+" /\ \A i \in DOMAIN w : w[i][1] >= 0
     \/ op \in {"*", "/"} /\ \A i \in DOMAIN w : w[i][1] > 0
  /\ Expected(op, w).small

(* Sums, products and quotients are exact and in lowest terms, an integer if
   the divisor is 1, in whatever order integers and ratios are met, and with
   what else was done to the same numbers before; unless it is freed, for
   which see AnswerLive.                                                   *)
AnswersExact ==
  Answered /\ call.op \in Several \cup Two /\ Tag(heap, call.result) # "FREE" =>
    (Regular(call.op, call.operands) =>
       Exact(heap, call.result) = Expected(call.op, call.operands).value)

(***************************************************************************)
(* What a text says, as a fraction; and whether the code can read it: one  *)
(* that is no real, is positive but for the sign, and has room in a cell,  *)
(* or, for greatest_common_divisor, each part of a ratio in an int.        *)
(***************************************************************************)
Amount(chars) ==
  LET upto[k \in 0 .. Len(chars)] ==
        IF k = 0 THEN 0
        ELSE IF chars[k][1] = "digit" THEN Radix * upto[k - 1] + chars[k][2]
        ELSE upto[k - 1]
  IN  upto[Len(chars)]

Slashes(chars)  == {k \in DOMAIN chars : chars[k][1] = "slash"}
UpperPart(chars, k) == Amount(SubSeq(chars, 1, k - 1))
LowerPart(chars, k) == Amount(SubSeq(chars, k + 1, Len(chars)))

InReach(chars) ==
  /\ \A k \in DOMAIN chars : chars[k][1] # "period"
  /\ Slashes(chars) = {} => Amount(chars) < Base
  /\ \A k \in Slashes(chars) : /\ UpperPart(chars, k) \in 1 .. IntLimit - 1
                                /\ LowerPart(chars, k) \in 1 .. IntLimit - 1

AsWritten(text) ==
  LET sign == IF text.minus THEN -1 ELSE 1
      k    == CHOOSE i \in Slashes(text.chars) : TRUE
  IN  IF Slashes(text.chars) = {} THEN <<sign * Amount(text.chars), 1>>
      ELSE Reduced(sign * UpperPart(text.chars, k), LowerPart(text.chars, k))

(* A number becomes what its text says: digit by digit through sums and products
   of cells, with commas anywhere, its ratio in lowest terms, its sign on the
   dividend; whatever has been read before.                                *)
ReadAsWritten ==
  [][\A n \in Names, text \in Texts :
       Enter(n, text) /\ calls' = calls /\ InReach(text.chars)
         => Exact(heap', env'[n]) = AsWritten(text)]_vars

(* "@return a pointer to an integer or real" (lisp_divide, peano.c:706): what a
   function returns has not been freed.                                    *)
AnswerLive == Answered => Tag(heap, call.result) # "FREE"
=============================================================================
