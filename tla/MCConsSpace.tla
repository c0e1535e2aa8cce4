---------------------------- MODULE MCConsSpace ----------------------------
(* Cons space for TLC: the values the configurations give its constants.   *)
EXTENDS ConsSpace

Zero     == {0}
AnyStale == {0, 2}

OnlyNil  == {NIL}

Atoms    == {"REAL"}
Texts    == {"KEYW", "EXEP"}
Objects  == {"CONS", "KEYW", "EXEP"}
=============================================================================
