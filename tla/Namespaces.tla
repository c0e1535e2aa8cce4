----------------------------- MODULE Namespaces -----------------------------
(***************************************************************************)
(* Where names get their values: hashmaps, association lists, lists of     *)
(* both, and the environment of the evaluator, which is a list of local    *)
(* bindings in front of the one global hashmap, the oblist (intern.c,      *)
(* hashmap.c, and the operations of lispops.c that bind or look up).       *)
(*                                                                         *)
(* A name stands for all the symbols (or keywords) that equal() takes for  *)
(* the same.  A list is immutable; a hashmap is not, and everyone who has  *)
(* it sees it change.                                                      *)
(***************************************************************************)
EXTENDS Integers, SequencesExt

CONSTANTS
  Name,        \* symbols and keywords
  HashOf,      \* get_hash of each
  Value,       \* values, NIL and T among them
  Map,         \* the hashmaps there can be
  Oblist,      \* the root namespace, one of them
  Sizes,       \* the numbers of buckets the program asks for
  OblistSize,  \* the number of buckets of the oblist
  MaxScopes,   \* bound: scopes open within one another
  MaxWeight    \* bound: entries in maps, scopes and the store together, beyond
               \* which no step adds any

VARIABLES
  size,        \* n_buckets of each hashmap, or Unmade
  bucket,      \* the chain of pairs in each bucket, newest first
  envs,        \* the environments of the scopes that are open, innermost last
  store,       \* a list of entries the program has built, on a tail
  answer,      \* what the last lookup returned
  status       \* "running" or "crashed"

vars == <<size, bucket, envs, store, answer, status>>

Nil     == "nil"
T       == "t"
Error   == "exception"   \* an exception object
Crash   == "crash"       \* division by zero, or a read far outside the pages
Nothing == "nothing"
Unmade  == -1
Unbound == "unbound"     \* no value: what a chain without the key has for it

BucketNo == UNION {0 .. n - 1 : n \in Sizes \cup {OblistSize}}

(* The first level items of a list that is a store, and stores. *)
Pair(k, v) == <<"pair", k, v>>
Entry == ({"pair"} \X Name \X Value) \cup ({"map"} \X Map) \cup ({"key"} \X Name)
StoreOf(list, tail) == [list |-> list, tail |-> tail]
MapOnly(m) == StoreOf(<<>>, m)
NilStore   == StoreOf(<<>>, Nil)

ASSUME NamesAssumption ==
  /\ HashOf \in [Name -> Nat]
  /\ {Nil, T} \subseteq Value /\ Value \cap {Error, Crash, Unbound} = {}
  /\ Name \cap (Value \cup {Error, Crash}) = {}
  /\ Oblist \in Map /\ Nil \notin Map
  /\ Sizes \subseteq Nat /\ OblistSize \in Nat \ {0}
  /\ MaxScopes \in Nat /\ MaxWeight \in Nat

-----------------------------------------------------------------------------
(***************************************************************************)
(* Hashmaps.  `ch' are the buckets of a map, `n' their number; a chain is  *)
(* a sequence of pairs <<key, value>>.                                     *)
(***************************************************************************)
Hash(k) == IF k = Nil THEN 0 ELSE HashOf[k]

BucketFor(k, n) == Hash(k) % n

Cell(k, v) == <<<<k, v>>>>

(* Faulty forms of HashmapPut: at the far end of the chain; in one bucket. *)
PutLast(ch, n, k, v) ==
  IF k = Nil THEN ch ELSE [ch EXCEPT ![BucketFor(k, n)] = @ \o Cell(k, v)]
PutInFirst(ch, n, k, v) ==
  IF k = Nil THEN ch ELSE [ch EXCEPT ![0] = Cell(k, v) \o @]

(* hashmap_put, when the map has buckets; NIL is no key. *)
HashmapPut(ch, n, k, v) ==
  IF k = Nil THEN ch ELSE [ch EXCEPT ![BucketFor(k, n)] = Cell(k, v) \o @]

(* The value of the first pair of a chain that binds k. *)
Lookup(chain, k) ==
  LET hits == {i \in DOMAIN chain : chain[i][1] = k}
  IN  IF hits = {} THEN Unbound ELSE chain[Min(hits)][2]

(* hashmap_get: search_store on the chain.  An empty bucket is NIL, which is
   not a store: search_store throws.                                       *)
HashmapGet(ch, n, k, key) ==
  IF n = 0 THEN Crash
  ELSE LET chain == ch[BucketFor(k, n)]
           found == Lookup(chain, k)
       IN  IF chain = <<>> THEN Error
           ELSE IF found = Unbound THEN Nil
           ELSE IF key THEN k ELSE found

GetFrom(m, k, key) == HashmapGet(bucket[m], size[m], k, key)

(* All the pairs of a map in the order of the buckets, and hashmap_keys. *)
PairsOf(ch, n)     == FlattenSeq([i \in 1 .. n |-> ch[i - 1]])
HashmapKeys(ch, n) ==
  LET pairs == PairsOf(ch, n)
  IN  Reverse([i \in DOMAIN pairs |-> pairs[i][1]])

(***************************************************************************)
(* search_store, for a symbol or keyword k: the value of the first pair in *)
(* the list that binds k, even if that is NIL, or the first answer of a    *)
(* map that is not; with `key' the key, as found.  When the tail is a map  *)
(* that answers NIL, the loop goes on to the cdr of what is no cons cell.  *)
(***************************************************************************)
Reply(e, k, key) ==
  CASE e[1] = "pair" -> IF key THEN k ELSE e[3]
    [] e[1] = "map"  -> GetFrom(e[2], k, key)
    [] e[1] = "key"  -> Error

Stops(e, k, key) ==
  IF e[1] = "pair" THEN e[2] = k ELSE Reply(e, k, key) # Nil

SearchStore(k, st, key) ==
  LET stops == {i \in DOMAIN st.list : Stops(st.list[i], k, key)}
  IN  CASE stops # {}                      -> Reply(st.list[Min(stops)], k, key)
        [] stops = {} /\ st.tail = Nil     -> IF st.list = <<>> THEN Error ELSE Nil
        [] stops = {} /\ st.tail # Nil     ->
             LET last == GetFrom(st.tail, k, key)
             IN  IF last = Nil /\ st.list # <<>> THEN Crash ELSE last

(* internedp: in a map it looks at every pair, and keeps the last result (a
   faulty form does not compare it).                                       *)
LastAnyKey(k, m) == PairsOf(bucket[m], size[m]) # <<>>
LastIs(k, m) ==
  LET pairs == PairsOf(bucket[m], size[m])
  IN  pairs # <<>> /\ Last(pairs)[1] = k

Internedp(k, st) ==
  IF st.list = <<>> THEN st.tail # Nil /\ LastIs(k, st.tail)
  ELSE \E i \in DOMAIN st.list : LET e == st.list[i] IN
         \/ e[1] = "pair" /\ e[2] = k
         \/ e[1] = "map" /\ LastIs(k, e[2])

(* An environment: local bindings in front of the cell with the oblist. *)
Root  == <<<<"map", Oblist>>>>
Env   == StoreOf(Last(envs), Nil)

-----------------------------------------------------------------------------
Weight ==
  FoldLeft(+, 0, [i \in DOMAIN envs |-> Len(envs[i]) - 1])
    + Len(store.list)
    + FoldFunction(+, 0, [mb \in Map \X BucketNo |-> Len(bucket[mb[1]][mb[2]])])

Running == status = "running"
Made(m) == size[m] # Unmade
Room    == Weight < MaxWeight

Empty == [b \in BucketNo |-> <<>>]

(* main makes the oblist; lisp_repl conses it onto NIL. *)
Init ==
  /\ size = [m \in Map |-> IF m = Oblist THEN OblistSize ELSE Unmade]
  /\ bucket = [m \in Map |-> Empty]
  /\ envs = <<Root>>
  /\ store = NilStore
  /\ answer = Nothing /\ status = "running"

Dies == status' = "crashed" /\ UNCHANGED <<size, bucket, envs, store, answer>>

(* deep_bind, under bind_function, bind_value, set and set!. *)
DeepBind(k, v) ==
  /\ Running /\ Room
  /\ bucket' = [bucket EXCEPT ![Oblist] = HashmapPut(@, size[Oblist], k, v)]
  /\ answer' = Nothing
  /\ UNCHANGED <<size, envs, store, status>>

(* (put! map key value) *)
PutShriek(m, k, v) ==
  /\ Running /\ Made(m) /\ Room
  /\ IF size[m] = 0 THEN Dies
     ELSE /\ bucket' = [bucket EXCEPT ![m] = HashmapPut(@, size[m], k, v)]
          /\ answer' = Nothing
          /\ UNCHANGED <<size, envs, store, status>>

(* (hashmap n nil store): an item of the store that is not a pair has NIL for
   its car and its cdr, and so has a tail that is a map.                   *)
ItemsOf(st) ==
  [i \in DOMAIN st.list |-> IF st.list[i][1] = "pair"
                            THEN <<st.list[i][2], st.list[i][3]>> ELSE <<Nil, Nil>>]
    \o (IF st.tail = Nil THEN <<>> ELSE Cell(Nil, Nil))
Filled(n, items) ==
  LET filled[i \in 0 .. Len(items)] ==
        IF i = 0 THEN Empty
        ELSE [filled[i - 1] EXCEPT ![BucketFor(items[i][1], n)] = <<items[i]>> \o @]
  IN  filled[Len(items)]
MakeHashmap(m, n, items) ==
  /\ Running /\ ~ Made(m) /\ Weight <= MaxWeight
  /\ IF n = 0 /\ items # <<>> THEN Dies
     ELSE /\ size' = [size EXCEPT ![m] = n]
          /\ bucket' = [bucket EXCEPT ![m] = Filled(n, items)]
          /\ answer' = Nothing
          /\ UNCHANGED <<envs, store, status>>

(* hashmap_put_all(m, a map): each key of the one, as often as it has it, is
   put with the value it has there now.                                    *)
PutMap(m, ch, from) ==
  LET source(c) == IF from = m THEN c ELSE bucket[from]
      keys      == HashmapKeys(source(ch), size[from])
      put[i \in 0 .. Len(keys)] ==
        IF i = 0 THEN ch
        ELSE HashmapPut(put[i - 1], size[m], keys[i],
                        HashmapGet(source(put[i - 1]), size[from], keys[i], FALSE))
  IN  put[Len(keys)]

(* hashmap_put_all(m, a list): pairs, whole maps, and keys for T. *)
PutEntry(m, ch, e) ==
  CASE e[1] = "pair" -> HashmapPut(ch, size[m], e[2], e[3])
    [] e[1] = "key"  -> HashmapPut(ch, size[m], e[2], T)
    [] e[1] = "map"  -> PutMap(m, ch, e[2])

PutList(m, ch, list) ==
  LET put[i \in 0 .. Len(list)] == IF i = 0 THEN ch ELSE PutEntry(m, put[i - 1], list[i])
  IN  put[Len(list)]

PutAllInto(m) ==
  IF store.list = <<>>
  THEN IF store.tail = Nil THEN bucket[m] ELSE PutMap(m, bucket[m], store.tail)
  ELSE PutList(m, bucket[m], store.list)

(* What hashmap_put_all puts into a map without buckets, if anything. *)
PutsAnything ==
  LET names(m) == \E b \in BucketNo : \E i \in DOMAIN bucket[m][b] : bucket[m][b][i][1] # Nil
  IN  IF store.list = <<>> THEN store.tail # Nil /\ names(store.tail)
      ELSE \E i \in DOMAIN store.list :
             store.list[i][1] = "map" => names(store.list[i][2])

PutAll(m) ==
  /\ Running /\ Made(m) /\ Weight <= MaxWeight
  /\ IF size[m] = 0 THEN IF PutsAnything THEN Dies
                         ELSE answer' = Nothing /\ UNCHANGED <<size, bucket, envs, store, status>>
     ELSE /\ bucket' = [bucket EXCEPT ![m] = PutAllInto(m)]
          /\ answer' = Nothing
          /\ UNCHANGED <<size, envs, store, status>>

(* The program conses a store together, entry by entry. *)
StartStore(tail) ==
  /\ Running
  /\ tail # Nil => Made(tail)
  /\ store' = StoreOf(<<>>, tail) /\ answer' = Nothing
  /\ UNCHANGED <<size, bucket, envs, status>>

Extend(e) ==
  /\ Running /\ Room
  /\ e[1] = "map" => Made(e[2])
  /\ store' = [store EXCEPT !.list = <<e>> \o @] /\ answer' = Nothing
  /\ UNCHANGED <<size, bucket, envs, status>>

(* let and eval_lambda: a scope starts with the environment of the caller,
   binds names in front of it one by one, and is gone on return.           *)
EnterScope ==
  /\ Running /\ Len(envs) <= MaxScopes
  /\ envs' = Append(envs, Last(envs)) /\ answer' = Nothing
  /\ UNCHANGED <<size, bucket, store, status>>

BindLocal(k, v) ==
  /\ Running /\ Len(envs) > 1 /\ Room
  /\ envs' = [envs EXCEPT ![Len(envs)] = <<Pair(k, v)>> \o @] /\ answer' = Nothing
  /\ UNCHANGED <<size, bucket, store, status>>

LeaveScope ==
  /\ Running /\ Len(envs) > 1
  /\ envs' = Front(envs) /\ answer' = Nothing
  /\ UNCHANGED <<size, bucket, store, status>>

(* lisp_eval of a symbol: first the key as it is in the environment, then
   the value of that.                                                      *)
EvalSymbol(k) ==
  /\ Running
  /\ LET canonical == SearchStore(k, Env, TRUE)
     IN  answer' = IF canonical \in {Nil, Error} THEN Error
                   ELSE SearchStore(canonical, Env, FALSE)
  /\ UNCHANGED <<size, bucket, envs, store, status>>

(* (assoc key store), and a keyword or a map applied as a function; without
   a store, in the oblist.                                                 *)
OrOblist(st) == IF st = NilStore THEN MapOnly(Oblist) ELSE st

(* Faulty: answers with what it read outside the list. *)
AssocReadsOn(k) ==
  /\ Running
  /\ answer' = SearchStore(k, OrOblist(store), FALSE)
  /\ UNCHANGED <<size, bucket, envs, store, status>>

Assoc(k) ==
  /\ Running
  /\ LET found == SearchStore(k, OrOblist(store), FALSE)
     IN  IF found = Crash THEN Dies
         ELSE answer' = found /\ UNCHANGED <<size, bucket, envs, store, status>>

Crashed == status = "crashed" /\ UNCHANGED vars

Next ==
  \/ \E k \in Name, v \in Value : DeepBind(k, v)
  \/ \E m \in Map \ {Oblist}, k \in Name, v \in Value : PutShriek(m, k, v)
  \/ \E m \in Map, n \in Sizes : MakeHashmap(m, n, <<>>)
  \/ \E m \in Map, n \in Sizes : MakeHashmap(m, n, ItemsOf(store))
  \/ \E m \in Map : PutAll(m)
  \/ \E tail \in Map \cup {Nil} : StartStore(tail)
  \/ \E e \in Entry : Extend(e)
  \/ EnterScope \/ LeaveScope
  \/ \E k \in Name, v \in Value : BindLocal(k, v)
  \/ \E k \in Name : EvalSymbol(k)
  \/ \E k \in Name : Assoc(k)
  \/ Crashed

Spec == Init /\ [][Next]_vars

-----------------------------------------------------------------------------
(***************************************************************************)
(* Properties.                                                             *)
(***************************************************************************)

(* Types of the variables. *)
TypeOK ==
  /\ size \in [Map -> Sizes \cup {OblistSize, Unmade}]
  /\ bucket \in [Map -> [BucketNo -> Seq((Name \cup {Nil}) \X Value)]]
  /\ envs \in Seq(Seq(Entry))
  /\ store \in [list : Seq(Entry), tail : Map \cup {Nil}]
  /\ answer \in Value \cup {Error, Nothing}
  /\ status \in {"running", "crashed"}

(* The pairs of a hashmap are where hashmap_get looks for their keys, however
   they came there: put one by one, copied out of another map with another
   number of buckets, or given when the map was made.                      *)
PairsInTheirBucket ==
  \A m \in Map, b \in BucketNo : \A i \in DOMAIN bucket[m][b] :
    size[m] > 0 /\ b = BucketFor(bucket[m][b][i][1], size[m])

(* What k is bound to in a map, and whether a store binds it at all. *)
BindingIn(m, k) ==
  LET where == {b \in BucketNo : Lookup(bucket[m][b], k) # Unbound}
  IN  IF where = {} THEN Unbound ELSE Lookup(bucket[m][CHOOSE b \in where : TRUE], k)
Binds(st, k) ==
  \/ \E i \in DOMAIN st.list : LET e == st.list[i] IN
       \/ e[1] = "pair" /\ e[2] = k
       \/ e[1] = "map" /\ BindingIn(e[2], k) # Unbound
  \/ st.tail # Nil /\ BindingIn(st.tail, k) # Unbound

(* interned? never answers t for a key the store does not bind. *)
InternedIsBound == \A k \in Name : Internedp(k, OrOblist(store)) => Binds(OrOblist(store), k)

(* Hashing, chains, copying and the lists of local bindings together behave
   as a global function and nested scopes (Scopes): an evaluated name has
   its innermost local value, else the latest global one, whoever set it
   from within which scope; binding one name, or all of a store, changes no
   other.                                                                  *)
LocalBinding(env, k) ==
  LET hits == {i \in DOMAIN env : env[i][1] = "pair" /\ env[i][2] = k}
  IN  IF hits = {} THEN Unbound ELSE env[Min(hits)][3]

Promise == INSTANCE Scopes WITH
  binding <- [m \in Map |-> [k \in Name |-> BindingIn(m, k)]],
  scope   <- [i \in DOMAIN envs |-> [k \in Name |-> LocalBinding(envs[i], k)]]
ImplementsScopes == Promise!Spec
=============================================================================
