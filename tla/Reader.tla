------------------------------- MODULE Reader -------------------------------
(***************************************************************************)
(* The reader: what read_continuation and the functions it calls make of   *)
(* the characters of a stream, one character a step, and read-char and     *)
(* slurp, on several streams in turn.                                      *)
(*                                                                         *)
(* The functions of the reader call each other; their activations are the  *)
(* stack of a task, the innermost first.  `fn' says what one waits for.    *)
(* Symbols and strings are kept as sequences of characters, and a number   *)
(* as the characters it is computed from (see Numbers).                    *)
(***************************************************************************)
EXTENDS Streams, SequencesExt

CONSTANTS Plans,    \* for each stream the objects in it, or its characters
          Text(_),  \* how an object is written
          Extra     \* how many objects more than there are may be asked for

VARIABLES plan,     \* what is in the streams
          task,     \* the call that goes on
          got       \* what has been read from each stream

vars == <<io, plan, task, got>>

Digits  == {"0", "1", "2"}
Letters == {"a", "b", Wide}
Stops  == {"\"", "'", ")", ":", "/"}   \* what ends a symbol, and white space

Character == Digits \cup Letters \cup Stops \cup White
               \cup {Byte, "(", "{", "}", ";", "-", ".", ",", "$"}

Nil       == <<"nil">>
Exception == <<"exception">>
Symbol(chars)  == <<"symbol", chars>>
String(chars)  == <<"string", chars>>
Pair(a, d)     == <<"cons", a, d>>
Listing(items) == FoldRight(Pair, items, Nil)
Car(v)         == IF v[1] = "cons" THEN v[2] ELSE Nil
Named(name)    == Symbol(<<name>>)
Quoted(v)      == Listing(<<Named("quote"), v>>)

Idle == [on |-> "nothing"]
None == <<>>

-----------------------------------------------------------------------------
(***************************************************************************)
(* What a function makes of a character: the streams then, the activations *)
(* that go on, and the value, if there is one.  `g' is what url_fgetwc     *)
(* gave, `below' are the callers.                                          *)
(***************************************************************************)
Wait(x, frame, below)  == [io |-> x, stack |-> <<frame>> \o below, value |-> None]
Give(x, value, below)  == [io |-> x, stack |-> below, value |-> <<value>>]
Push(frame, below)     == <<frame>> \o below

(* read_symbol_or_key; a null character ends it and becomes part of it. *)
SymbolOrKey(g, s, tag, chars, below) ==
  IF g.char = Nul THEN Give(g.io, <<tag, Append(chars, Nul)>>, below)
  ELSE IF g.char \in Stops \cup White \cup {Eof}
  THEN Give(Ungetwc(g.io, s, g.char), IF chars = <<>> THEN Nil ELSE <<tag, chars>>, below)
  ELSE Wait(g.io, [fn |-> "symbol", tag |-> tag, chars |-> Append(chars, g.char)], below)

(* read_number; mark: a period or a slash has been seen. *)
NumberStart(sign, mark) == [fn |-> "number", chars |-> sign, mark |-> mark]

Number(g, s, n, below) ==
  IF g.char \in Digits THEN Wait(g.io, [n EXCEPT !.chars = Append(@, g.char)], below)
  ELSE IF g.char = "," THEN Wait(g.io, n, below)
  ELSE IF g.char \in {".", "/"} /\ n.mark THEN Give(g.io, Exception, below)
  ELSE IF g.char \in {".", "/"}
  THEN Wait(g.io, [n EXCEPT !.chars = Append(@, g.char), !.mark = TRUE], below)
  ELSE Give(Ungetwc(g.io, s, g.char), <<"number", n.chars>>, below)

(* Faulty form of Comment: it goes on to the end of the file. *)
CommentToEnd(g, f, below) ==
  IF g.char = Eof THEN Give(g.io, Nil, below) ELSE Wait(g.io, f, below)

(* read_continuation: a comment, which is nil *)
Comment(g, f, below) ==
  IF g.char = Newline THEN Give(g.io, Nil, below) ELSE Wait(g.io, f, below)

(* read_continuation: the first character that is no white space says what is
   to be read.  That the stream is at its end is asked after it was read.  *)
Form(g, s, below) ==
  LET c == g.char
      Waiting(frame) == Wait(g.io, frame, below)
  IN  CASE c \in White   -> Waiting([fn |-> "form"])
        [] c \notin White /\ Feof(g.io, s) -> Give(g.io, Exception, below)
        [] OTHER ->
      CASE c = ";"  -> Waiting([fn |-> "comment"])
        [] c = "'"  -> Wait(g.io, [fn |-> "form"], Push([fn |-> "quote"], below))
        [] c = "("  -> Waiting([fn |-> "list"])
        [] c = "{"  -> Waiting([fn |-> "map"])
        [] c = "\"" -> Waiting([fn |-> "string", chars |-> <<>>])
        [] c = "-"  -> Waiting([fn |-> "minus"])
        [] c = "."  -> Waiting([fn |-> "point"])
        [] c = ":"  -> Waiting([fn |-> "symbol", tag |-> "key", chars |-> <<>>])
        [] c = "/"  -> Waiting([fn |-> "slash"])
        [] c = "$"  -> Waiting([fn |-> "path", parts |-> <<Named("session")>>])
        [] c \in Digits -> Number(g, s, NumberStart(<<>>, FALSE), below)
        [] OTHER -> SymbolOrKey(g, s, "symbol", <<>>, below)

(* Faulty form of ListFrom: the parenthesis is left to the caller. *)
ListFromLeft(g, s, below) ==
  IF g.char = ")" THEN Give(Ungetwc(g.io, s, g.char), Nil, below)
  ELSE Form(g, s, Push([fn |-> "item"], below))

(* read_list, of its first character *)
ListFrom(g, s, below) ==
  IF g.char = ")" THEN Give(g.io, Nil, below)
  ELSE Form(g, s, Push([fn |-> "item"], below))

(* read_map: the loop *)
MapFrom(g, s, pairs, below) ==
  IF g.char = "}" THEN Give(g.io, <<"map", pairs>>, below)
  ELSE Form(g, s, Push([fn |-> "key", pairs |-> pairs], below))

(* read_path: the loop *)
PathFrom(g, s, parts, below) ==
  LET path  == Listing(<<Named("->")>> \o parts)
      Then(fn) == Push([fn |-> fn, parts |-> parts], below)
      start == [fn |-> "symbol", tag |-> "symbol", chars |-> <<>>]
  IN  CASE g.char \in White \/ Feof(g.io, s) -> Give(g.io, path, below)
        [] g.char = ":" -> Wait(g.io, [start EXCEPT !.tag = "key"], Then("part"))
        [] g.char = "/" -> Wait(g.io, start, Then("name"))
        [] g.char \in Letters -> SymbolOrKey(g, s, "symbol", <<>>, Then("part"))
        [] OTHER -> Give(Ungetwc(g.io, s, g.char), path, below)

(***************************************************************************)
(* Each function that waits for a character, and what it does with it.     *)
(***************************************************************************)
Taken(f, g, s, below) ==
  LET c == g.char
      back == Ungetwc(g.io, s, c)
      Again == Wait(g.io, f, below)
  IN  CASE f.fn = "form"   -> Form(g, s, below)
        [] f.fn = "list"   -> ListFrom(g, s, below)
        [] f.fn = "map"    -> MapFrom(g, s, <<>>, below)
        [] f.fn = "path"   -> PathFrom(g, s, f.parts, below)
        [] f.fn = "symbol" -> SymbolOrKey(g, s, f.tag, f.chars, below)
        [] f.fn = "number" -> Number(g, s, f, below)
        [] f.fn = "comment" -> Comment(g, f, below)
        [] f.fn = "string" ->
             IF c \in {"\"", Nul} THEN Give(g.io, String(f.chars), below)
             ELSE Wait(g.io, [f EXCEPT !.chars = Append(@, c)], below)
        [] f.fn = "minus"  ->
             IF c \in Digits THEN Wait(back, NumberStart(<<"-">>, FALSE), below)
             ELSE Wait(back, [fn |-> "symbol", tag |-> "symbol", chars |-> <<"-">>], below)
        [] f.fn = "point"  ->      \* a number that has seen its period meets it again
             IF c \in Digits THEN Give(back, Exception, below)
             ELSE IF c = Space THEN Wait(g.io, [fn |-> "form"], below)
             ELSE Wait(g.io, [fn |-> "symbol", tag |-> "symbol", chars |-> <<".">>],
                       Push([fn |-> "ignored"], below))
        [] f.fn = "slash"  ->
             IF c \in White THEN Give(back, Symbol(<<"/">>), below)
             ELSE Wait(back, [fn |-> "path", parts |-> <<Listing(<<Named("oblist")>>)>>], below)
        [] f.fn = "rest"   ->      \* read_list, after an item
             IF c \in White THEN Again
             ELSE IF c = "." THEN Wait(g.io, [fn |-> "list"], Push([f EXCEPT !.fn = "dotted"], below))
             ELSE ListFrom(g, s, Push([f EXCEPT !.fn = "tail"], below))
        [] f.fn = "value"  ->      \* read_map, after a key
             IF c \in White THEN Again ELSE Form(g, s, Push([f EXCEPT !.fn = "pair"], below))
        [] f.fn = "pairs"  ->      \* read_map, after a value
             IF c \in White \cup {","} THEN Again ELSE MapFrom(g, s, f.pairs, below)
        [] f.fn = "slurp"  ->      \* the first character is kept whatever it is
             IF f.begun /\ (Feof(g.io, s) \/ c = Nul) THEN Give(g.io, <<"slurped", f.chars>>, below)
             ELSE Wait(g.io, [f EXCEPT !.chars = Append(@, c), !.begun = TRUE], below)

(* The stack and the value that a step leaves. *)
Goes(s, r) == task' = [on |-> s, stack |-> r.stack, value |-> r.value]

Take ==
  /\ task # Idle /\ task.value = None
  /\ \E g \in Fgetwc(io, task.on) :
       LET r == Taken(Head(task.stack), g, task.on, Tail(task.stack))
       IN  /\ io' = r.io
           /\ Goes(task.on, r)
  /\ UNCHANGED <<plan, got>>

(***************************************************************************)
(* A value is returned to the function that asked for it.                  *)
(***************************************************************************)
Returned(f, v, below) ==
  CASE f.fn = "quote"   -> Give(io, Quoted(v), below)
    [] f.fn = "item"    -> Wait(io, [fn |-> "rest", car |-> v], below)
    [] f.fn = "tail"    -> Give(io, Pair(f.car, v), below)
    [] f.fn = "dotted"  -> Give(io, Pair(f.car, Car(v)), below)
    [] f.fn = "key"     -> Wait(io, [fn |-> "value", pairs |-> f.pairs, key |-> v], below)
    [] f.fn = "pair"    -> Wait(io, [fn |-> "pairs", pairs |-> Append(f.pairs, <<f.key, v>>)], below)
    [] f.fn = "part"    -> Wait(io, [fn |-> "path", parts |-> Append(f.parts, v)], below)
    [] f.fn = "name"    -> Wait(io, [fn |-> "path", parts |-> Append(f.parts, Quoted(v))], below)
    [] f.fn = "ignored" -> Give(io, Nil, below)

Return ==
  /\ task # Idle /\ task.value # None /\ task.stack # <<>>
  /\ LET r == Returned(Head(task.stack), Head(task.value), Tail(task.stack))
     IN  Goes(task.on, r)
  /\ UNCHANGED <<io, plan, got>>

(***************************************************************************)
(* The user: an evaluated form at a time.  An object is asked for as        *)
(* lisp_repl does it, unless the stream is at its end.                     *)
(***************************************************************************)
Ready(s, use) == task = Idle /\ io.stream[s].state = "open" /\ plan[s].use = use
Call(s, fn)   == Goes(s, Wait(io, fn, <<>>))

Slurped(s) == \E i \in DOMAIN got[s] : got[s][i][1] = "slurped"

Read(s) ==
  /\ Ready(s, "objects") /\ ~Feof(io, s)
  /\ Len(got[s]) < Len(plan[s].items) + Extra
  /\ Call(s, [fn |-> "form"])
  /\ UNCHANGED <<io, plan, got>>

ReadChar(s) ==
  /\ Ready(s, "characters") /\ got[s] = <<>>
  /\ \E g \in Fgetwc(io, s) : io' = g.io /\ got' = [got EXCEPT ![s] = <<String(<<g.char>>)>>]
  /\ UNCHANGED <<plan, task>>

Slurp(s) ==
  /\ Ready(s, "characters") /\ ~Slurped(s)
  /\ Call(s, [fn |-> "slurp", chars |-> <<>>, begun |-> FALSE])
  /\ UNCHANGED <<io, plan, got>>

Finish ==
  /\ task # Idle /\ task.value # None /\ task.stack = <<>>
  /\ got' = [got EXCEPT ![task.on] = Append(@, Head(task.value))]
  /\ task' = Idle
  /\ UNCHANGED <<io, plan>>

LispOpen(s)  == task = Idle /\ Open(s) /\ UNCHANGED <<plan, task, got>>
LispClose(s) == task = Idle /\ Close(s) /\ UNCHANGED <<plan, task, got>>

(* The program waits for what is typed. *)
Rest == task = Idle /\ UNCHANGED vars

-----------------------------------------------------------------------------
(* What reading is to give. *)
Meant(v) == IF v[1] = "comment" THEN Nil ELSE v

(* The bytes of a URL. *)
Encoded(s, chars) ==
  IF s \in Files THEN chars
  ELSE FlattenSeq([i \in DOMAIN chars |->
                     IF chars[i] = Wide THEN <<Byte, Byte>> ELSE <<chars[i]>>])

Contents(p) ==
  IF p.use = "characters" THEN p.items
  ELSE FlattenSeq([i \in DOMAIN p.items |-> Append(Text(p.items[i]), Newline)])

(* What is in a stream are characters. *)
ASSUME ReaderAssumption ==
  Extra \in Nat /\ \A p \in Plans, s \in Inputs : Encoded(s, Contents(p[s])) \in Seq(Character)

Init ==
  /\ plan \in Plans
  /\ io = [stream |-> [s \in Inputs |-> Unopened(Encoded(s, Contents(plan[s])))],
           ungotten |-> Nul]
  /\ task = Idle
  /\ got = [s \in Inputs |-> <<>>]

Next ==
  \/ \E s \in Inputs : \/ LispOpen(s) \/ LispClose(s)
                       \/ Read(s) \/ ReadChar(s) \/ Slurp(s)
  \/ Take \/ Return \/ Finish \/ Rest

(* What was called goes on; the user need not call anything. *)
Spec == Init /\ [][Next]_vars /\ WF_vars(Take \/ Return \/ Finish)

-----------------------------------------------------------------------------
(* What waits for a character, and what waits for what another has read. *)
Waits   == {"form", "list", "map", "path", "symbol", "number", "comment", "string", "minus",
            "point", "slash", "rest", "value", "pairs", "slurp"}
Returns == {"quote", "item", "tail", "dotted", "key", "pair", "part", "name", "ignored"}

Stream == [state : {"unopened", "open", "closed"}, rest : Seq(Character), buffer : Seq(Character),
           over : BOOLEAN, running : BOOLEAN, back : Seq(Character), eof : BOOLEAN]

(* A transfer has a buffer, a file the character that was pushed back; and of
   the functions that are active the innermost waits for a character, until it
   returns, and the others for what it returns.                            *)
TypeOK ==
  /\ io \in [stream : [Inputs -> Stream], ungotten : Character]
  /\ \A s \in Inputs :
       /\ s \in Files => io.stream[s].buffer = <<>> /\ ~io.stream[s].running
       /\ s \in Urls => io.stream[s].back = <<>> /\ ~io.stream[s].eof
  /\ \/ task = Idle
     \/ /\ task.on \in Inputs
        /\ task.value = None => task.stack # <<>>
        /\ \A i \in DOMAIN task.stack :
             task.stack[i].fn \in IF i = 1 /\ task.value = None THEN Waits ELSE Returns

(* At most one character is pushed back on a file, all that the C library
   promises to hold (ungetwc).                                             *)
PushedBackOnce == \A s \in Inputs : Len(io.stream[s].back) <= 1

(* What a call leaves pushed back on a transfer (url_ungetwc), for whatever stream
   is read next, is white space: what else ends a symbol, a number or a path in
   the middle of an object is taken by the function that goes on with it.   *)
LeftoverIsWhite == task = Idle => io.ungotten \in White

(* The objects read from a stream (read.c) are those that were written to it,
   in order, however the characters of it arrive and whatever is read from
   other streams in between, the character that was pushed back included.  *)
ObjectsInOrder ==
  \A s \in Inputs :
    plan[s].use = "objects" /\ Extra = 0 =>
      \A i \in DOMAIN got[s] : got[s][i] = Meant(plan[s].items[i])

(* url_feof says that a stream is at its end only if everything has been taken
   from it: still_running counts the transfers of all streams, and is as old as
   the last call that waited for this one.                                 *)
EndIsTrue ==
  \A s \in Inputs : io.stream[s].state = "open" /\ Feof(io, s) =>
    io.stream[s].rest = <<>> /\ io.stream[s].buffer = <<>> /\ io.stream[s].back = <<>>

(* read-char and slurp (io.c) give the characters of the stream, in order; only
   white space pushed back on another stream may come in between, and of a URL
   the last character may be missing.                                      *)
Black(chars) == SelectSeq(chars, LAMBDA c : c \notin White)

CharactersInOrder ==
  \A s \in Inputs :
    LET all  == Black(plan[s].items)
        read == Black(FlattenSeq([i \in DOMAIN got[s] |-> got[s][i][2]]))
    IN  plan[s].use = "characters" =>
          /\ IsPrefix(read, all)
          /\ s \in Files /\ Slurped(s) => read = all
          /\ s \in Urls /\ Slurped(s) =>
               Len(read) >= Len(all) - 1 \/ \E i \in DOMAIN all : all[i] = Wide

(* The next object is read, or an exception returned (read.c:563), whatever the
   transfers do.                                                           *)
ReadsReturn == task # Idle ~> task = Idle
=============================================================================
