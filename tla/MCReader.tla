------------------------------ MODULE MCReader ------------------------------
(* Instances of Reader for TLC: what the streams contain. *)
EXTENDS Reader

-----------------------------------------------------------------------------
(***************************************************************************)
(* How objects are written.                                                *)
(***************************************************************************)
RECURSIVE Written(_), Tails(_), Steps(_)
Written(v) ==
  CASE v[1] = "nil"     -> <<"(", ")">>
    [] v[1] = "comment" -> <<";", "a", "(", Newline>>
    [] v[1] = "key"     -> <<":">> \o v[2]
    [] v[1] = "string"  -> <<"\"">> \o v[2] \o <<"\"">>
    [] v[1] = "map"     ->
         <<"{">> \o FlattenSeq([i \in DOMAIN v[2] |->
                      Written(v[2][i][1]) \o <<Space>> \o Written(v[2][i][2]) \o <<",", Space>>])
                 \o <<"}">>
    [] v[1] = "cons"    ->
         IF v[2] = Named("quote") THEN <<"'">> \o Written(v[3][2])
         ELSE IF v[2] = Named("->")
         THEN <<IF v[3][2] = Named("session") THEN "$" ELSE "/">> \o Steps(v[3][3])
         ELSE <<"(">> \o Written(v[2]) \o Tails(v[3]) \o <<")">>
    [] OTHER            -> v[2]
Tails(v) ==
  CASE v[1] = "nil"  -> <<>>
    [] v[1] = "cons" -> <<Space>> \o Written(v[2]) \o Tails(v[3])
    [] OTHER         -> <<Space, ".", Space>> \o Written(v)
Steps(v) ==
  IF v = Nil THEN <<>>
  ELSE (IF Car(v)[1] = "cons" THEN <<"/">> \o Written(v[2][3][2]) ELSE Written(v[2])) \o Steps(v[3])

-----------------------------------------------------------------------------
A    == Symbol(<<"a">>)
One  == <<"number", <<"1">>>>
Neg  == <<"number", <<"-", "1", "/", "2">>>>
Str  == String(<<")", Space>>)
Key  == <<"key", <<"a">>>>
Remark == <<"comment">>
OfOblist == <<Named("->"), Listing(<<Named("oblist")>>)>>

Objects(items)    == [use |-> "objects", items |-> items]
Characters(items) == [use |-> "characters", items |-> items]

(* Objects of every kind, a few characters each. *)
Kinds == {
  <<Listing(<<A, Neg>>)>>, <<Pair(A, One), A>>, <<Quoted(A), Nil>>,
  <<<<"map", <<<<Key, Str>>>>>>, Remark>>, <<Listing(OfOblist \o <<A, Key, Quoted(A)>>), One>>,
  <<Listing(<<Str, Listing(<<A>>), Nil>>)>>, <<Symbol(<<"-">>), Symbol(<<"/">>)>> }

(* A transfer and a file with objects of every kind, and another transfer of a few
   characters or of an object.                                             *)
Several ==
  {[f |-> Objects(<<A>>), u |-> Objects(x), v |-> Characters(<<"1", Newline>>)] : x \in Kinds} \cup
  {[f |-> Objects(x), u |-> Objects(<<One>>), v |-> Objects(<<A>>)] : x \in Kinds} \cup
  {[f |-> Objects(<<A>>), u |-> Objects(<<A, Nil>>), v |-> Characters(<<"1", Wide, "a">>)]} \cup
  {[f |-> Characters(<<"a", Wide, "1">>), u |-> Objects(<<A, Nil>>), v |-> Objects(<<Neg>>)]}

(* A little on each: an empty list, and two characters. *)
Little == {[f |-> Objects(<<A>>), u |-> Objects(<<Nil>>), v |-> Characters(<<"1", "a">>)]}
=============================================================================
