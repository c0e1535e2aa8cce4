----------------------------- MODULE MCNumbers -----------------------------
(* Instances of Numbers for TLC: what is read. *)
EXTENDS Numbers

D(d)   == <<"digit", d>>
Slash  == <<"slash">>
Period == <<"period">>
Comma  == <<"comma">>
Plain(chars) == [minus |-> FALSE, chars |-> chars]
Minus(chars) == [minus |-> TRUE, chars |-> chars]

AllTexts == {
  Plain(<<D(3)>>), Plain(<<D(4), Comma, D(0)>>), Plain(<<D(2), Slash, D(4)>>),
  Minus(<<D(1), Slash, D(2)>>), Plain(<<D(1), Period, D(5), Slash>>) }

SomeTexts == {Plain(<<D(3)>>), Plain(<<D(4), D(0)>>), Plain(<<D(1), Slash, D(2)>>)}
=============================================================================
