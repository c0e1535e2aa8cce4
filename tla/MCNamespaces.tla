---------------------------- MODULE MCNamespaces ----------------------------
(* Instances of Namespaces small enough for TLC. *)
EXTENDS Namespaces

(* Two names that share a bucket of one, and do not share one of two. *)
TwoNames   == {"a", "b"}
TheirHash  == [k \in TwoNames |-> IF k = "a" THEN 2 ELSE 3]
TwoValues  == {Nil, T}
OneMapMore == {"oblist", "m"}
=============================================================================
