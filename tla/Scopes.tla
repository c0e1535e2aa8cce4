------------------------------- MODULE Scopes -------------------------------
(***************************************************************************)
(* What the namespaces of the Lisp promise, with no hashing in sight: a    *)
(* hashmap is a function from names to values, the local bindings in force *)
(* hide the global ones, and a scope that is left takes its own away.      *)
(* Namespaces is shown to implement this.                                  *)
(***************************************************************************)
EXTENDS SequencesExt

CONSTANTS
  Name,      \* symbols and keywords
  Value,     \* what a name can be bound to
  Map,       \* hashmaps
  Oblist     \* the one that holds the global bindings

VARIABLES
  binding,   \* what each name is bound to in each hashmap
  scope,     \* the local bindings in force, one function per open scope
  store,     \* a list of entries the program has built, on a tail
  answer     \* the outcome of the last lookup

Nil     == "nil"
T       == "t"
Unbound == "unbound"
Error   == "exception"
Nothing == "nothing"

NoBindings == [k \in Name |-> Unbound]

(* What an entry of a store binds k to in m, when the store is put into m. *)
Given(m, e, k) ==
  CASE e[1] = "pair" -> IF e[2] = k THEN e[3] ELSE Unbound
    [] e[1] = "key"  -> IF e[2] = k THEN T ELSE Unbound
    [] e[1] = "map"  -> IF e[2] = m THEN Unbound ELSE binding[e[2]][k]

(* The bindings f of m, after all that a list gives: the last wins. *)
Overridden(m, f, list) ==
  [k \in Name |->
     LET giving == {i \in DOMAIN list : Given(m, list[i], k) # Unbound}
     IN  IF giving = {} THEN f[k] ELSE Given(m, list[Max(giving)], k)]

(* The bindings of a new map made from the pairs of a list. *)
PairsOnly(list) ==
  [k \in Name |->
     LET giving == {i \in DOMAIN list : list[i][1] = "pair" /\ list[i][2] = k}
     IN  IF giving = {} THEN Unbound ELSE list[Max(giving)][3]]

(* What a store that is a list says of k; a pair says something even when it
   binds k to NIL, a map only when it has a value for k that is not NIL.   *)
Says(e, k) == \/ e[1] = "pair" /\ e[2] = k
              \/ e[1] = "map" /\ binding[e[2]][k] \notin {Unbound, Nil}
ValueIn(e, k) == IF e[1] = "pair" THEN e[3] ELSE binding[e[2]][k]
Entries(st) == IF st.tail = Nil THEN st.list
               ELSE Append(st.list, <<"map", st.tail>>)
Meaning(st, k) ==
  LET speaking == {i \in DOMAIN Entries(st) : Says(Entries(st)[i], k)}
  IN  IF speaking = {} THEN Nil ELSE ValueIn(Entries(st)[Min(speaking)], k)

-----------------------------------------------------------------------------
Init ==
  /\ binding = [m \in Map |-> NoBindings]
  /\ scope = <<NoBindings>>
  /\ store = [list |-> <<>>, tail |-> Nil]
  /\ answer = Nothing

(* A name is bound in a map; all the rest stays as it was. *)
Bind(m, k, v) ==
  /\ answer' = Nothing /\ UNCHANGED <<store, scope>>
  /\ binding' = [binding EXCEPT ![m][k] = v]

(* A new map, with the pairs of a list: the last pair for a name wins. *)
Make(m, list) ==
  /\ answer' = Nothing /\ UNCHANGED <<store, scope>>
  /\ binding' = [binding EXCEPT ![m] = PairsOnly(list)]

(* All that the store binds is bound in m, entry after entry. *)
BindAll(m) ==
  /\ answer' = Nothing /\ UNCHANGED <<store, scope>>
  /\ binding' = [binding EXCEPT
       ![m] = Overridden(m, @, IF store.list = <<>> THEN Entries(store) ELSE store.list)]

Build ==
  /\ answer' = Nothing /\ UNCHANGED <<scope, binding>>
  /\ \/ \E m \in Map \cup {Nil} : store' = [list |-> <<>>, tail |-> m]
     \/ \E e \in ({"pair"} \X Name \X Value) \cup ({"map"} \X Map) \cup ({"key"} \X Name) :
          store' = [store EXCEPT !.list = <<e>> \o @]

(* A scope opens with the bindings of the one around it, and binds more. *)
Open  == scope' = Append(scope, Last(scope))
Local(k, v) == Len(scope) > 1 /\ scope' = [scope EXCEPT ![Len(scope)][k] = v]
Close == Len(scope) > 1 /\ scope' = Front(scope)

Scoping ==
  /\ answer' = Nothing /\ UNCHANGED <<store, binding>>
  /\ Open \/ Close \/ \E k \in Name, v \in Value : Local(k, v)

(* The value of a name is its innermost local binding, else its global one;
   it is an error to evaluate a name that has neither.                     *)
ValueOf(k) == IF Last(scope)[k] # Unbound THEN Last(scope)[k] ELSE binding[Oblist][k]

Evaluate(k) ==
  /\ UNCHANGED <<store, scope, binding>>
  /\ answer' = IF ValueOf(k) = Unbound THEN Error ELSE ValueOf(k)

(* A lookup in the store finds the first that speaks of k.  It may fail where
   it meets, before that, a bare key or a map that does not bind k.        *)
Obstructs(e, k) == e[1] = "key" \/ (e[1] = "map" /\ binding[e[2]][k] = Unbound)
Obstructed(st, k) ==
  \/ Entries(st) = <<>>
  \/ \E i \in DOMAIN Entries(st) :
       /\ Obstructs(Entries(st)[i], k)
       /\ \A j \in 1 .. i - 1 : ~ Says(Entries(st)[j], k)

Search(st, k) ==
  /\ UNCHANGED <<store, scope, binding>>
  /\ answer' = Meaning(st, k) \/ (Obstructed(st, k) /\ answer' = Error)

Next ==
  \/ Build \/ Scoping
  \/ \E m \in Map, k \in Name, v \in Value : Bind(m, k, v)
  \/ \E m \in Map : Make(m, <<>>) \/ Make(m, store.list)
  \/ \E m \in Map : BindAll(m)
  \/ \E k \in Name : Evaluate(k)
  \/ \E k \in Name : Search(store, k) \/ Search([list |-> <<>>, tail |-> Oblist], k)

Spec == Init /\ [][Next]_<<binding, scope, store, answer>>
=============================================================================
