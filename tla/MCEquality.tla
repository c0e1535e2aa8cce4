------------------------------ MODULE MCEquality ------------------------------
(* Instances of Equality small enough for TLC. *)
EXTENDS Equality

(* With a range of 4, the hash of a text falls to 0 after two characters 2, as
   with 2^32 after eight p's; and a character 1 does not change it, so that
   "2" and "21" have the same hash.                                        *)
NullAndMore == {0, 1, 2}
OneType    == {"STRG"}
=============================================================================
