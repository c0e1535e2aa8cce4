# A verification of post-scarcity's core

post-scarcity is an interpreter for a Lisp written in C, about ten thousand
lines under `src/src`. It is one process with one thread, it keeps nothing on
disk, and it talks to the world through stdio and libcurl. What is hard in it
is not concurrency but *ownership*: every Lisp object is a reference counted
cell, and each of some two hundred C functions must agree with all the others
on who owns the pointers it is given and the pointer it returns; *identity*:
names are found by hashing and by structural comparison, both of which are
written by hand; and *reading*: what a reader one character ahead of itself
makes of streams that share what it pushes back.

This directory holds TLA+ models of those parts, the runs of TLC that check
them on small instances, and proofs that TLAPS checks. All line numbers below
are those of the files in `src/src`.

## 1. Inventory

| Part | Source | State it keeps | Operations | Model |
|---|---|---|---|---|
| Cons space | `memory/conspage.c`, `memory/consspaceobject.c` | pages, the free list through the cells, tag, count and payload of each cell, two counters | make a page, allocate, the constructors, `inc_ref`, `dec_ref`, `free_cell` | `ConsSpace` |
| Vector space | `memory/vectorspace.c` | malloc'd objects behind `VECP` cells | `make_vso`, `free_vso` | inside `ConsSpace`, partly |
| Namespaces | `ops/intern.c`, `memory/hashmap.c` | hashmaps with chains of pairs, the `oblist` | put, get, put-all, keys, search of a store, bind, intern | `Namespaces` |
| Equality | `ops/equal.c` | none | `eq`, `equal` | `Equality` |
| Stack frames | `memory/stack.c` | frames, registers, depth, the limit | make a frame for a function or a special form, set a register, free | `Evaluator`, with `Cells` |
| Evaluator | `ops/lispops.c`, `repl.c` | environments, frames in use | eval, apply, lambda, progn, cond, let, try, exceptions, REPL | `Evaluator`, `Meaning` |
| Integers | `arith/integer.c` | the cache of small integers | make, acquire, release, add, multiply, compare | `Numbers` |
| Numeric tower | `arith/peano.c`, `arith/ratio.c` | none | the four operations over integers, ratios and reals | `Numbers` |
| Reader | `io/read.c` | none (recursion) | read a form, list, map, string, number, path | `Reader`; `Numbers` for the arithmetic of `read_number` |
| Streams | `io/io.c`, `io/fopen.c` | one pushed back character, the buffer of each URL stream | open, get, unget, close, slurp | `Streams`, `Reader` |
| Start-up | `init.c` | privileged objects, first bindings | bind functions, specials and values | no: a straight line, run once; its result is given to the models |
| Reals, time | `arith/real.c`, `time/psse_time.c` | none | one constructor each | a real's sign in `Numbers`; floating point and the clock are not modelled |
| Printing | `io/print.c`, `memory/dump.c`, `debug.c` | none | output | no: changes no object |
| Helpers | `authorise.c`, `utils.c`, `ops/meta.c` | none | | no: leaf helpers; `authorised` always agrees |
| Stubs | `memory/cursor.c`, `io/history.c`, `ops/loop.c` | none | | no: not implemented in the program |
| lookup3 | `memory/lookup3.c` | none | | no: vendored |

**How the parts meet.** Everything allocates from cons space and balances (or
should balance) its counts with `inc_ref` and `dec_ref`. The evaluator's
environments are association lists in front of the `oblist`, a hashmap that
every scope shares and that `set!` changes. Hashmaps compare keys with
`equal` and choose buckets with the hash that `make_string_like_thing` stores
in each text. The reader takes characters from streams, puts one back, and
builds its results with the constructors. Errors travel as objects: a function
returns an exception in the place of its result, and every caller has to look.

**What is hard.**

* The recursion of `dec_ref` through `free_cell`: in the middle of it the heap
  is inconsistent in a controlled way, and the same object may be reached
  twice through different parts.
* Counts that saturate, counters that wrap, pages from `malloc` whose fields
  are only partly set.
* Two conventions of ownership among the constructors (a pointer is *counted
  afresh*, or the caller's reference is *taken over*).
* Mutable hashmaps reached from immutable lists, copied into one another and
  into themselves, with different numbers of buckets, or none.
* Exceptions that hold pointers to stack frames that are being unwound.
* Comparison in blocks, hashes that collapse to 0, and bignums in 60 bit cells.
* A reader that recurses on what a stream gives it, and streams that share the
  character pushed back.

`PROJECT.json` lists these as hazards, one by one, at their lines.

**What makes each part correct.** *Cons space*: a cell is recycled exactly when
nothing refers to it; the free list holds every free cell once. *Namespaces*:
a name means its innermost binding, and binding one name changes no other.
*Equality*: equal things look the same, a copy that shares the hashmaps of the
original is equal to it, equal keys hash alike, the comparison returns. *Frames and evaluator*: whatever an expression
does, each frame is freed once, and not while an exception shows it; the counts
of the values involved are what they were. *Numbers*: the operations agree with
arithmetic across cell boundaries. *Reader and streams*: each character is
delivered once, in order, to the stream it came from, and reading ends.

## 2. The modules

### `ConsSpace` and `SafeStore`

`ConsSpace` is the store. A cell is `<<page, offset>>`, as a `struct
cons_pointer` is; `tag`, `count` and `child` are the fields of a cell, where
`child` holds the pointers of its payload by slot (slots 1 and 2 are `car` and
`cdr` or their like, further slots the pointers in a vector space object); a
free cell's link to the next is in its slot 2, as in the code. `held` is not a
variable of the program: it says how many references to each cell the C code
*owns*, by the protocol the constructors document - a constructor returns one,
`inc_ref` makes one more, `dec_ref` gives one up, and what a constructor takes
over (`Moved`) is gone from the caller.

| Action | Code |
|---|---|
| `InitialiseConsPages` | `initialise_cons_pages`, `make_cons_page` for page 0 with NIL and T |
| `Construct` | `allocate_cell` and any of the constructors of `consspaceobject.c`, with their `inc_ref`s |
| `ConstructOnNewPage` | the same when the free list is empty: `make_cons_page` first |
| `Exhaust` | a page is needed and there is none: `exit( 1)` |
| `IncRef`, `DropRef` | `inc_ref`, `dec_ref` by the rest of the program |
| `FreeCellSlot` | one case of the switch of `free_cell`: the next pointer, perhaps entering `free_cell` again |
| `FreeCellRelease` | the end of `free_cell` |

An operation of the one thread is one step, but the cascade is modelled
activation by activation, so that properties are about its middle too. `depth`
and `lost` are history variables: the place of a cell on the free list,
which the proofs need, and the references that a freed keyword forgot to drop.

`SafeStore` is the abstract specification: there are objects, their parts and
the client's roots; an object keeps its parts while it exists, and its place
is used again only if nothing reachable from the roots reaches it.
`ImplementsSafeStore` is the refinement (the roots are the cells that are held).

### `Namespaces` and `Scopes`

`Namespaces` models `hashmap_put`, `hashmap_get`, `hashmap_put_all`,
`hashmap_keys`, `make_hashmap`, `search_store`, `internedp`, `set`/`deep_bind`,
the Lisp functions over them, the scopes of `let` and of a lambda, and the
evaluation of a symbol. `size` and `bucket` are the vector space object of a
hashmap; `envs` the environments of the open scopes; `store` a list the program
has built: of pairs, maps and bare keys, on NIL or on a hashmap - all the
shapes of store that `search_store` accepts. `answer` is what the last lookup
returned. A name stands for a class of symbols that `equal` takes for the same.

| Action | Code |
|---|---|
| `DeepBind` | `deep_bind`, `set` on the oblist; under `bind_function`, `set!` |
| `PutShriek`, `PutAll` | `lisp_hashmap_put`, `lisp_hashmap_put_all` |
| `MakeHashmap` | `lisp_make_hashmap`, with or without a list of first pairs |
| `StartStore`, `Extend` | the program conses a store together |
| `EnterScope`, `BindLocal`, `LeaveScope` | `lisp_let`, `eval_lambda` |
| `EvalSymbol` | `lisp_eval` of a symbol: the interned key, then its value |
| `Assoc` | `lisp_assoc`, and keywords and maps in function position |

`Scopes` is the abstract specification: a hashmap is a function, a scope
overrides the one around it, an evaluated name has its innermost local value,
else the latest global one. What it does not promise, because the code does not
do it: that a lookup finds its way past a map that does not bind the key
(`Obstructed`: it may throw), that `assoc` on a list agrees with the map made
from that list (`assoc` takes the first pair for a key, `put-all!` puts all of
them, so that the last wins), or that the process survives. It crashes in two
cases, which the model keeps (`Dies`): putting into a hashmap without buckets
divides by zero, and so does looking anything up in one; and a lookup in a list
that ends in a hashmap which does not answer follows the `cdr` of a cell that is
no cons (`search_store`, 330-331). (The comment at the head of `intern.c`, that
the oblist is immutable and so that a binding made within a scope is not seen
outside, describes an older program.)

### `Equality`

The constructors of lists, texts, small integers and hashmaps build every
heap of a few cells (`heap` grows, an object refers to older ones); `Call`
compares any two objects, one of them the newest, and `todo` is the stack of
comparisons that the recursion of `equal` has yet to make. Texts are compared
as in the code: hashes first, then blocks of `STRING_SHIPYARD_SIZE - 1`
characters with `wcsncmp`, then the `c_cdr`s of what is left. `CalculateHash`
is the code's recursive product that wraps. `Identical` (cell by cell, the maps
included, which are empty here), `SharesMaps` (identical, and each map is the
same one) and `LooksTheSame` (as printed) are the reference definitions. The case
for vector space objects is never taken, because `vectorp` compares with a tag
that no object has (`vectorspace.h` 50): two hashmaps are equal only if they are
the same one, although the comments at `equal.c` 246-256 and the test at
`unit-tests/equal.sh` 180-183 mean maps to be equal when they hold the same.
`CopiesAreEqual` says what the code does: of an object and a copy of it, `equal`
answers true exactly if they share their maps.

### `Cells`

The heap as the interpreter above cons space sees it: a sequence of objects
with their counts and parts, and what `make_cons`, `make_string`,
`make_exception`, `throw_exception`, `make_lambda`, `inc_ref`, `dec_ref`,
`set_reg`, `c_reverse` and the like do to it, each as one step. A freed object
stays where it was and is never used again, so that a pointer to it can be told;
the reuse of cells and the middle of a cascade are the business of `ConsSpace`.
What is locked for ever (NIL, T, small integers, names) is not in the heap.
A freed object's parts are decremented level by level; in which order makes no
difference to what is freed in the end. `given` is a history variable of each
object: how often a count was given up by one who may have had none - a result
that "nobody wants", or a tail that a string takes over from a register (see
`CountsCover`).

### `Evaluator` and `Meaning`

`Evaluator` is `eval_form` and everything below it, with the stack frames. The
C functions are mutually recursive; `kont` is their stack, one record for each
activation that waits for the value of a form, and `ctl` what runs now. Every
`inc_ref` and `dec_ref` of the code is in the step in which the code does it,
so that the heap after each step has the counts the program has.

| Action | Code |
|---|---|
| `EvalAtom`, `EvalForm`, `EvalTooDeep`, `FormValue` | `eval_form`, before and after `lisp_eval`; the limit of the stack |
| `ArgValue`, `MoreValue`, `FormsValue` | `make_stack_frame`, `eval_forms` |
| `ApplyFunction`, `ApplySpecial`, `ApplyOther` | `c_apply`, once the function is known; `make_special_frame` |
| `FunctionValue`, `LambdaValue`, `NlambdaValue` | the rest of `c_apply`: the location of an exception, the frame given back |
| `BodyValue`, `MoreEvaluated`, `RegisterValue` | `eval_lambda`, with named parameters or one for all |
| `MapValue`, `CPrognValue`, `PrognValue`, `TestValue`, `NoClause`, `ClauseValue`, `LetValue`, `LetBodyValue`, `TryValue`, `SetValue` | `lisp_mapcar`, `c_progn`, `lisp_progn`, `lisp_cond`, `lisp_let`, `lisp_try`, `lisp_set_shriek` |
| `Read`, `PrintValue`, `Leave` | `lisp_repl`, `repl` |

Functions that evaluate nothing (`Primitive`) are operators. `Meaning` is the
reference: the documented value of an expression, computed directly on trees
with dynamic bindings, without frames, counts or an order of allocation. Each
program that TLC starts with carries its meaning, and `AnswersAsDocumented`
compares. Left out of the comparison, because the code does something else (and
the model, which follows the code, too):

* a NIL among the first forms of `progn` ends it (`lispops.c` 1230); an
  exception among them does not, but one among those in `more` does;
* NILs at the end of the body of a lambda are dropped (`compose_body`);
* a lambda with more parameters than registers binds one of them to the list
  `more`; a lambda of one parameter for all evaluates its arguments twice, and so
  do `apply` and `mapcar`;
* `cond` looks only at clauses, and `let` only at forms, that are in registers;
* an exception among the arguments that do not fit the registers becomes an
  element of `more`;
* `(exception message location)` takes its arguments the other way round than
  the comment at 1404 says.

### `Numbers`

Integers of one or more cells, ratios and reals: `read_number`, the arithmetic
of `integer.c`, `ratio.c` and `peano.c`, and the calls of `+ * - /`, `absolute`,
`negative?`, `ratio->real` on frames, in the heap of `Cells`. `Base` stands for
`INT_CELL_BASE` (2^60), `IntLimit` for what fits an `int`, `SmallIntLimit` for
the size of the cache; an integer is one object with the sequence of its
cells; a cached integer is its value. A variable that is read before it is set
(`greatest_common_divisor`) holds anything in `Garbage`. `Enter` reads a number
and binds it; `Begin` makes the frame of a call, `Add` and `Multiply` are the
loops of `lisp_add` and `lisp_multiply`, a step for each argument, `Finish`
gives the frame back and perhaps binds the result.

`greatest_common_divisor` loops until a variable is 0; `Turned` makes
`MaxTurns` of these turns, and the theorem `GcdEnds` is that the loop has ended
by then, whatever it was given.

`ReadAsWritten` compares what is read with what the text says, in lowest terms,
for texts `InReach`: no reals, numbers of one cell, parts of a ratio within an
`int`. `AnswersExact` compares answers with fractions of TLA+ integers, for the
calls that the code gets right (`Regular`). Both leave out what it gets wrong,
which the model has too: a sum too large for a cell keeps its quotient and carries its
remainder (`int128_to_integer` has the two swapped); a negative product carries
-1; a product with 0 is the other factor; `(+ t)` is `t`; the difference of
ratios is wrong in other ways (as docs/Home.md 183-186 admits); a dividend of
2^31 or more is cut to an `int` in `greatest_common_divisor` (`ratio.c` 31), so
that `(/ 4294967296 3)` is an integer; and a bignum times a bignum appends to a
cell that has been freed, which `Begin` keeps away from.

### `Streams` and `Reader`

`Streams` has the files and transfers: `rest` is what has not arrived (of a
file: what has not been read), `buffer` what libcurl has delivered, `over`
that a transfer has ended, `running` what the stream last heard of it,
`ungotten` the one character that all URL streams push back into. `Perform` is
libcurl: each transfer that goes on may deliver nothing, a few characters or the
rest, and end or not. `Fill` waits until the stream has a character or all
transfers, not only its own, have ended - that is what `still_running` counts.

`Reader` is `read.c` on top: the activations of its functions are a stack, a
step for each character taken (`Take`, on what waits for it: `Taken`) and
for each return (`Return`); and `lisp_open`, `lisp_close`, `lisp_read` within
the REPL's loop, `lisp_read_char` and `lisp_slurp`, on several streams in any
order, one object at a time. `Text`, a parameter, is how an object is written
(`MCReader` writes it out), so that `ObjectsInOrder` can compare what has been
read with what was meant. A value that is returned is `<<value>>` in the task,
`None` if there is none yet.

| Action | Code |
|---|---|
| `Take` | `url_fgetwc`, `fill_buffer`, `url_fgets`, and what `read_continuation`, `read_list`, `read_map`, `read_path`, `read_number`, `read_string`, `read_symbol_or_key` or `lisp_slurp` do with the character |
| `Return` | the rest of the function that asked for an object |
| `Read`, `Slurp`, `Finish`, `ReadChar` | `lisp_read`, `lisp_slurp`, `lisp_read_char` |
| `LispOpen`, `LispClose` | `lisp_open`, `url_fopen`; `lisp_close`, `url_fclose` |
| `Rest` | the REPL waits for input |

The instances hold what the code reads as one would expect. What it does not:
`.5` is an exception (the period is counted twice); a comment is read as `nil`,
also in a list, and `( )` is `(nil)`; a symbol in front of `}` takes it in; a
symbol at the very end of a URL gets a null character; a single character there
is an "End of file"; a number followed directly by `(` on a URL leaves the
parenthesis to whatever stream is read next (`ungotten`); every byte of a
non-ASCII character of a URL is read as 0 (`c <= 0xf7` holds of any signed
char, `io.c` 190), which ends a `slurp`; and `slurp` loses the last character of
a transfer that is known to have ended.

### The MC modules

`MCConsSpace`, `MCNamespaces`, `MCEquality` and `MCNumbers` only name the
sets that the `.cfg` files give to constants; `MCReader` writes the texts of the
streams and `MCEvaluator` the programs. Operators marked "faulty" in the modules
are not part of the model: each is a plausible mistake in the definition after
it, kept to show that a property would notice it (section 3, last paragraph).

## 3. The runs

| Run | States | Shows |
|---|---|---|
| `cons_objects` | 225 000 | all object graphs of conses, keywords and exceptions that fit one page: `CountsReferences` and the invariant `CountInv` that keeps it, `NoDanglingReference`, `NoGarbage`, `NoCycles`, `LockedIn`, `CascadeEnds`, `ImplementsSafeStore` |
| `cons_pages` | 197 000 | pages made one after another, emptied and exhausted, with garbage in fresh counts and counters that wrap: `StoreInv`, `LedgerBalanced`, `PagesOnlyWhenFull` |
| `namespaces` | 277 000 | `PairsInTheirBucket`, `InternedIsBound`, `ImplementsScopes` |
| `equality` | 664 000 | `CopiesAreEqual`, `EqualTextsHashAlike`, `EqualReadsLookTheSame`, `EqualReturns` |
| `evaluator` | 83 000 | 2 500 programs: `StackSound`, `CountsCover`, `NoFrameLeft`, `AnswersAsDocumented`, `Returns` |
| `numbers` | 1 073 000 | numbers read and two calls on them, of every kind: `CountsCover`, `AnswersExact`, `ReadAsWritten` |
| `reader` | 162 000 | a file and two transfers read in any order: `PushedBackOnce`, `LeftoverIsWhite`, `ObjectsInOrder`, `EndIsTrue`, `CharactersInOrder`, `ReadsReturn` |

(and the type invariant of each module), and five runs of which TLC must find
the violation, because the code and what is said of it disagree:

* `equal_texts`: `equal` takes a text for equal to the same text with one
  character more, when the hashes agree; and they do once the product has
  fallen to 0 (nine `p`s and ten).
* `bound_values`: `(progn x x 1)` frees what `x` is bound to: the value of a
  symbol is lent, and `progn` and lambdas give it up as if it were theirs.
* `backtrace`: an exception keeps its frame, but the frames behind it, which
  `dump_stack_trace` follows, have been freed.
* `answer_live`: `(/ 30 1/2)` returns a cell that has been freed.
* `past_end`: a second read of the URL text `()` and a newline never returns.

Other disagreements met on the way, which no run checks: `make_cons_page` does
not set the counts of free cells (docs/Cons-space.md says they are 0; nothing
reads them, as `cons_pages` shows with the same garbage); `free_cell` has no
case for keywords, so that the tail of each leaks (`lost` in `ConsSpace`);
maps that hold the same are not equal (see `Equality`: `CopiesAreEqual` states
the code's answer, so the run passes);
`interned?` on a hashmap answers for the last pair only (`LastIs`); `assoc` of
an absent key is an exception if its bucket is empty, and nil otherwise
(`SearchStore`).

**Bounds, and why they are enough.** `cons_objects` has a page of five cells,
NIL and T among them, so three objects alive at once: enough for an object
reached twice, a cascade three deep, an object freed while its container is,
and a count that saturates at `MaxRef` = 3 (two slots of one object and one of
another); `MaxHeld` = 1 lets the C code own one reference to each cell, which
is what makes sharing between C code and heap. `cons_pages` has three pages of
three, so that page 0 (with its two pinned cells), a middle one and the last
are all made, and the free list crosses pages in every order; objects are
without pointers there, because the free list does not depend on them.
`namespaces` has two names that share the bucket of a one-bucket map and not
those of the oblist, a second map of no or one bucket, one scope within the
root, and at most three entries (and what one `put-all!` adds) in all
(`MaxWeight`): a shadowed pair in a chain, a map copied into itself and a list
whose second entry hides behind its first each need two or three. `equality`
has four cells, three characters (the null, one that makes the hash collapse,
one that does not change it), hashes modulo 4 and a buffer of 4, so that blocks,
their seam, colliding hashes and a collapsed one occur within four characters;
in the program they need 1024 characters and 2^32. `TextTags` has one type of
text there, since the types never meet inside one text.

`evaluator` has three registers instead of eight, so that arguments spill into
`more` with the fourth, and a stack of 30 frames, enough for every program that
ends and soon reached by those that do not. Its programs are eight expressions
(an atom, a string, a free symbol, a quoted list, calls that give a new object,
a borrowed one, an exception, a lambda) in each of eighteen places, and every
such form again in each place, so that each kind of value - borrowed, owned or
thrown - meets every activation twice deep; and twenty more programs for
recursion, spilled arguments and `set!`. It is deterministic apart from the
choice of program: there is one thread, and nothing else that could happen.

`numbers` has two registers, so that a third argument is in `more`; cells of
base 64 and an `int` of half that, because two-cell numbers and the limits of an
`int` must lie within reach of two calls on 3, 40, 2/4 (which is to be read as
1/2), -1/2 and a real; a cache of three. Two
names and two calls let the result of the first be an argument, twice even, of
the second.

`reader` has two transfers, because what one does to the other (`ungotten`,
`still_running`, deliveries while the other is waited for) needs no third, and a
file as the stream that receives what a transfer pushed back; `MaxArrival` = 1
character or all the rest per call of libcurl. Each kind of object the reader
knows is in one of the plans, a few characters long.

**Deadlock** is checked in every run; the stutter of a program that exited
(`Exited`), crashed (`Crashed`), is done (`Left`, `End`) or waits for its user
(`Rest`) is an action.

**Fairness.** Only where the one thread is already inside the code: weak
fairness of `FreeCellSlot` and `FreeCellRelease` (a `dec_ref` that has begun
runs on until it returns; nothing else can run meanwhile), of `Compare` (a
call of `equal`) and of `Take \/ Return \/ Finish` (a call of the reader).
`Evaluator` assumes that the interpreter goes on until it is done; that is
weak fairness of `Next`, written as `[]<>(ctl = Done) \/ []<><<TRUE>>_vars`
because TLC would otherwise evaluate `ENABLED Next` with whole heaps. Nothing is
assumed of a client: it may never do anything. Nor of libcurl, except that
`select` and `curl_multi_perform` in the end either deliver or end the
transfer: the waiting loop of `fill_buffer` is one step, so a server that keeps
a connection open in silence is not in the model.

**Mutants.** Each property of a passing run is paired in `PROJECT.json` with a
faulty form of a definition that it must catch: a count taken once for two
slots, a cell freed with a reference left, one cell of a page forgotten, a pair
put at the far end of its chain, a hash that depends on more than the
characters, a register that does not count its value, a lambda that keeps its
frame, a sign in the wrong cell, a buffer that is ditched with characters left,
and so on.

## 4. The proofs

TLC has checked every property below on its instance first, the inductive
invariants among them where TLC can evaluate them; TLAPS then proves them for
every value of the constants that the modules' assumptions allow. The
assumptions ask for sizes that are positive and for sets that are what the
names say (`SizesAssumption`, `ValuesAssumption`, `ConstantsAssumption`,
`NamesAssumption`, `StreamsAssumption`, `ReaderAssumption`, `FrameAssumption`,
`NumbersAssumption`). `EvaluatorAssumption` says what a program is: expressions
that the reader can have built. The heap they are in is in order; its counts
cover the parts of its objects, the expressions that are still to be read and
`repl()`'s frame; and there is no other frame in it. It also asks for at least
three registers in a frame (the code has eight). None of them restricts
what the code may be called with or excludes its own sizes: `NumbersAssumption`
holds of cells of 2^60, an `int` of 2^31 and a cache of 24. What the models
themselves leave out is another matter: `Begin` of `Numbers` admits integers of
several cells to sums and differences only. Every `BY` names what it uses.

| Module | Theorem | States |
|---|---|---|
| `ConsSpaceProofs` | `TypeCorrect`, `StoreCorrect` | `[]TypeOK`, `[]StoreInv` |
| | `PagesWhenFull`, `LockedStaysIn` | the action properties `PagesOnlyWhenFull`, `LockedIn` |
| | `CountsCorrect` | `[]CountInv` |
| | `CountsAreReferences`, `NothingDangles`, `LedgerStaysBalanced` | `[]CountsReferences`, `[]NoDanglingReference`, `[]LedgerBalanced` |
| | `NothingContainsItself`, `NothingIsGarbage` | `[]NoCycles`, `[]NoGarbage` |
| | `ConsSpaceIsSafe` | `ImplementsSafeStore`: the refinement |
| `EqualityProofs` | `EqualTyped`, `CopiesEqual`, `EqualHashes`, `EqualReadsAlike` | `[]` of `TypeOK`, `CopiesAreEqual`, `EqualTextsHashAlike`, `EqualReadsLookTheSame` |
| `NamespacesProofs` | `NamesTyped`, `PairsPlaced`, `InternedAreBound` | `[]` of `TypeOK`, `PairsInTheirBucket`, `InternedIsBound` |
| | `NamespacesImplementScopes` | `ImplementsScopes`: the refinement |
| `ReaderProofs` | `ReaderTyped`, `EndsAreTrue` | `[]TypeOK`, `[]EndIsTrue` |
| | `PushedBackInTurn` | `[]LeftoverIsWhite => []PushedBackOnce` |
| `EvaluatorProofs` | `EvaluatorSound` | `[]IInv`, the inductive invariant |
| | `FramesAreThere`, `ReferencesAreCounted`, `NoFrameIsLeft` | `[]` of `StackSound`, `CountsCover`, `NoFrameLeft` |
| `NumbersProofs` | `NumbersSound`, `NumbersAreCounted` | `[]NInv`, the inductive invariant; `[]CountsCover` |
| | `GcdEnds` | `Turned(m, n, unset).m = 0`: the loop of `greatest_common_divisor` ends within `MaxTurns` |

`Recursion` holds the lemmas these share about functions that are defined by
recursion: that such a function exists, is the only one and satisfies its
definition (`Recursion`, for any set with a rank; `UpTo`, over an interval;
`InSteps`, when what is computed is a state). Their hypotheses are written with
named operators (`LooksBelow`, `Advances`) so that they can be instantiated; they
are proved from the well-foundedness of the numbers, and take the place of the
library's theorems, whose parameters are operators. `CellsProofs` holds the
lemmas about the operations of `Cells` that `EvaluatorProofs` and
`NumbersProofs` rest on.

### Cons space: the free list

`StoreInv` is the inductive invariant, and each conjunct is needed for another.
`FreelistSound` says that the free cells carry places 1, 2, 3, ... from the end
of the list, each once, each pointing to the one below (`Linked`). It is kept
by allocation because the head has the highest place; by a new page because
its cells are not on the list yet (`PagesMapped`: a page not made has tag
"none") and nothing already points to them (`ReferencesMapped`); and by
`FreeCellRelease` because the cell released is an object, not a free cell,
and is not released twice - `StackSound`: the activations of `free_cell` are of
different cells, all with count 0. That holds because `dec_ref` enters
`free_cell` only when a count goes from 1 to 0, and a cell being freed already
has 0. So the free list is sound *even if the counts are wrong*: no miscount
anywhere else in the interpreter can thread a cell onto it twice. The limit of
that guarantee is the model's: a client that writes to a cell it does not own
is not in it. `LockedStaysIn` follows too: a locked cell is not on the stack
of activations, whose counts are 0, and not the head of the free list.

### Cons space: the counts

`CountInv` adds to `StoreInv` that each count below `MAXREFERENCE` is the number
of references, and what makes that inductive. `Grounded`: whatever is referred
to is an object - otherwise a constructor that takes a cell from the free list
would find references to it already. `FreeingMarked`: exactly the cells on the
stack of activations have slots that were dropped, so that `References`, which
leaves those out, changes by one slot in `FreeCellSlot` and by nothing in
`FreeCellRelease`, where every slot that was counted has been passed - except
the tail of a keyword, which goes to `lost`. `LiveCounted`: an object with count
0 is on the stack, so a cell whose count is decremented to 0 is entered once.
The lemmas follow the code: what a constructor adds to the references of each
pointer it is given, twice the same included (`BuiltCounts`); what one `dec_ref`
takes away (`DecRefCounts`); both below and at `MAXREFERENCE`. `NothingDangles`
is then an instance of `Grounded`.

`LedgerStaysBalanced` needs that each allocation makes exactly one object and
each release ends one, and arithmetic modulo the width of the counters.

For what can be reached, `Acyclic` is added: the objects can be ranked so that each is
below those it refers to. An object is built from objects that exist while
nothing refers to the cell it takes, so it goes below all others; nothing else
adds a reference. `NoCycles` follows because a path cannot return to its
start. For `NoGarbage`, take an object that cannot be reached from a root and
has, of all such objects, the least rank: it is counted (`LiveCounted`), so there
is a reference to it, from an object of lower rank, which can be reached; so can
it. That argument is the reason why a store that counts references needs no
collector, and it is where `lost` shows: without it the theorem is false.

`ConsSpaceIsSafe` maps a step that builds to `Build`, `IncRef` and `DropRef` to
`Retain`, `Forget` or nothing, `FreeCellRelease` to `Recycle`, the rest to a
stutter. A cell may be recycled because nothing refers to it (its count is 0 and
right), hence no path from a root ends there.

### Equality

`EqualInv` says that objects refer to older ones, that texts are as the
constructors make them - their hash is that of their characters -, and relates
the pair that was asked for to what is still to be compared: if the one is a
copy of the other that shares its maps, so are all pairs in `todo` and no
comparison has failed (`SharingPass`); if it is a copy and none has failed, it
shares its maps if all that is in `todo` does (`MapsRest`, for which the parts
that a kind of object does not have must be the same in all of them,
`AtomsFormed`); as long as none has failed, what was asked for looks the same if
all that is in `todo` does (`LooksRest`, of texts as the reader makes them); and
two texts whose first comparison is over have the same hash (`HashesCompared`).
The relations `Copies`, `SharingCopies` and `Lookalikes` are functions over the objects from the
oldest to the newest, so the steps need what they are at one object, which
`Recursion` gives. That equal texts can differ when a block ends in the
middle of one is what the run `equal_texts` shows, and why `EqualReadsAlike`
speaks only of texts that end in a null the buffer can hold.

### Namespaces

`NamesInv`: every pair of every map is in the bucket of its key (`MapsPlaced`),
every environment is pairs in front of the oblist (`ScopesFormed`), the store
has maps that were made (`StoreMade`), the answer is one (`Answered`).
`PairsPlaced` is the first, for every hash function and every number of
buckets: `hashmap_put` is the only place that adds a pair, and a map copied into
another is put pair by pair, by the hash of each key and the width of its new
map.

For the refinement, a map stands for the function that gives each name the
value of the first pair for it in its bucket; a new pair goes in front, so a put
changes this function at one name (`HashmapPutFacts`) and a put of all of a
list, a map, or the keys of a map gives each name the last value (`PutListFacts`,
`PutMapFacts`, `FilledFacts`, through the theorems about recursion). An
environment stands for the function that the first pair of a name gives; a
scope copies it and extends it. A search finds the first entry that speaks of a
name because the loop ends there or on an obstruction that `Scopes` allows for
(`SearchMeans`). What has to be shown besides is that no step of the mapping
depends on a crash: `Dies` is a stutter of `Scopes`.

### Streams and reader

`ReaderInv` says of a file that its end has been noted only when nothing is
left or pushed back (a character pushed back takes the end back); of a transfer
that, when it is over, everything has arrived, and that, when it is open and
noted as not running, it is over. `running` is computed from the transfers of
*all* streams; what makes it right is that it is noted by the call that waited
for this one, that none goes on if it is false, this one included (`NotedTruly`),
and that a transfer that is over stays over while other calls go on
(`PerformFacts`). `EndsAreTrue` is then `url_feof` spelled out. `TaskSound`
says that the activations of the reader form a stack of functions that wait for
a value, with one that waits for a character or a value that has been read on
top; `TakenOutcome` and `ReturnedOutcome` show of each function that it leaves
such a stack and that it takes the character or puts it back, nothing else.

`PushedBackInTurn` is about the one character that all transfers push back into.
It is taken by the next call, whatever stream that is for. If it is white space,
a call on a file starts by passing over it (`Fresh`, `WhitePassed`) and pushes
nothing back; any other character that is pushed back on a file was taken from
that file, which then had none (`FgetwcBack`). The premise, `LeftoverIsWhite`,
is checked by the run: it depends on what the streams contain. Of a text that
leaves a `)` in `ungotten` both are false, and then a file that already holds a
character is given a second one, more than the C library promises to hold.

### Cells

`CellsProofs` relates a heap to a *ledger*, which says how often each object is
claimed by something that is not an object: an activation, a name, a variable of
C. `Sound` has two parts. `Backed`: the heap is in order (`HeapOK`), and each
object has counts for the parts that it is and for its claims, unless somebody
gave a count up (`Covered`). `Tallied`: as long as there has been no exception,
a frame's count is exactly its claims, and it is freed with the last of them.
(An exception counts the frame it was thrown from, and nothing says when it
gives it back.)

Each operation changes heap and ledger together. `inc_ref` adds a claim
(`IncRefSound`), `dec_ref` takes one that was there (`DecRefSound`), a
constructor leaves its caller with a claim to something new (`MakeConsMade` and
the like), a register gives up its old value's claim and takes one of its new
(`SetRegSound`). `DecRef`'s cascade is a function defined by recursion on
the number of objects that are left; the invariant of one level is that what
the freed cells referred to has lost as many counts as places. What is *given
up* though it may not have been had (`GiveUpSound`) shows in `given`; without it
`Covered` is not inductive, because `progn` does give up values it was only
lent - the run `bound_values` shows what becomes of them.

Frames are where this pays. Only an exception refers to a frame, no value is
one, and the claims on a frame are those of the activation that made it. So a
frame that is `Held` is there after every operation in between, with the same
registers but for those that were set (`Leaves`), whatever else is freed, and
whatever has been miscounted of ordinary values.

### Evaluator

The ledger (`Base`, `Stock`) has the values bound in the oblist, the expressions
that are still to be read, `repl()`'s frame, and for each activation what it will
give back: the frame it made, or the form that `mapcar` made. `IInv` says that
the heap is `Sound` for that ledger; that the frame of each activation is held,
is its own, and is one deeper than a frame of those below it, which is under the
limit (`GoodStack`); that everything that waits or runs has values; and that
`repl`'s activation is on top of `repl`'s frame only, so that an expression
abandons nothing when it has its value. One lemma per action shows that it is
kept. `StackSound`, `CountsCover` and `NoFrameLeft` follow: the last because
with no activation left the claims on every other frame are none, so that
`Tallied` has it freed.

The theorems speak of all programs, `bound_values`'s among them: values that
have been freed too early do occur in them, and `CountsCover` then says that
no count is missing but those that were given up in this way.

### Numbers

A call claims its frame, and, while more arguments are to be added, a sum or
product that is not one of them (`Own`); the names claim what they are bound to
(`ClaimsOf`). An operation yields one of its operands, or something new with a
claim to it; in between it claims what it acquired and gives it up at the end
(`Gives`, `Simpler`). The exception is `simplify_ratio`, which returns the
dividend without counting it: what it returns has the claim that was acquired
for the part. `NumbersAreCounted` therefore holds with `given` counting the
cases in which `lisp_add` or `lisp_multiply` gives up an argument as if it were
a sum or product on the way, and those in which `multiply_ratio_ratio` gives up
what it then returns, which is where the run `answer_live` finds a freed answer.

`GcdEnds` needs that the first turn leaves an `int` in `n`, and that from then on
`m` is a remainder of `n`, so that its amount falls by one at least in each
further turn (`Closing`, `TurnCloses`): after `IntLimit + 2` turns it is 0. The
facts about `/`, `%` and wrapping that this takes are `QuotientFacts`,
`RemainderFacts` and `WrapFacts`.

### What is only model-checked, and why

* Liveness: `CascadeEnds`, `EqualReturns`, `Returns`, `ReadsReturn`; the provers
  do not reach fairness and `ENABLED`.
* `ObjectsInOrder`, `CharactersInOrder` and `LeftoverIsWhite` of `Reader`: they
  depend on how objects are written, a grammar, and do not hold of every text
  (see what the reader does not read as one would expect, above). What a text is
  read as is an induction over its structure, which is out of the provers' reach.
* `TypeOK` of `Evaluator`: that an object is free exactly when its count is 0,
  and that a frame's arguments are its registers and what `more` lists, are true
  of the instance's programs. A program that uses a value after `progn` has
  freed it can count a freed cell, or free a list of spilled arguments that a
  frame holds. What is true for all programs is in `IInv`.
* `AnswersAsDocumented` of `Meaning`, whose evaluator is recursive.
* `TypeOK` of `Numbers`: a ratio's parts are integers only as long as no ratio is
  made of an answer that was freed; and `AnswersExact` is about the numbers the
  code gets right (`Regular`), digit by digit, by recursion over data, and so is
  `ReadAsWritten` (`InReach`).
* The five runs that show a violation.

## 5. Plan

Everything in the inventory that has a model is built, and the safety properties
that hold for every value of the constants are proved. What could come next:

* `Numbers`: which operations keep cells within 64 bits and a ratio's parts
  integers, given operands that are not freed, and from that `TypeOK` under
  `[]AnswerLive`.
* `Evaluator`: that no value is freed early in programs that keep away from
  `bound_values`'s pattern, and from that the rest of `TypeOK`.
* A run for bignum products and for closing a stream twice, once the code has
  what they are meant to do.

## 6. What is not modelled, and why

* The C stack: `free_cell` and `equal` recurse once per cell of a list, and a
  long list overflows it. The models bound recursion by the number of cells.
* What malloc does other than hand out memory with unknown content, and the
  failures of `malloc` for vector space objects.
* `clone_hashmap` and write permissions: `authorised` always answers T, so the
  branch that clones is never taken. `intern()` is never called. `equal_map_map`
  is never reached.
* Ownership in `Namespaces`: `hashmap_put` builds its pairs with the constructors
  of `ConsSpace`, whose counts are checked there; here pairs are values.
* Ownership in `Reader`: what is read is a value there. The constructors it
  calls are in `ConsSpace`.
* In the evaluator: keywords and hashmaps in function position, `append` (which
  has no return on one path), `type`, `inspect`, and the functions that the other
  modules have (`eq`, `equal`, `assoc`, arithmetic, streams).
* In the numbers: products of bignums, bignums as text, the values of reals,
  and what a `more` shared by two integers would show.
* In the streams: writing, metadata, `url_fread` and `url_rewind` (never
  called), failures of `realloc` and of `curl_multi_fdset`, closing twice (a
  double `free`), a transfer that ends at once (`lisp_open` follows the null
  pointer), and `file_to_url_file`, which leaves the buffer that `url_fclose`
  frees unset.
* The start-up of `init.c`: what it binds is given to the models as their
  initial states.
* Floating point, the clock, printing, and the inside of libcurl.
