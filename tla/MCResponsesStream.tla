------------------------- MODULE MCResponsesStream --------------------------
(* Instances of ResponsesStream that TLC checks: one with few contents and *)
(* many identities, one the other way round.                               *)
EXTENDS ResponsesStream

A  == <<"a">>
AB == <<"a", "b">>

OnlyEmpty == {<<>>}
EmptyOrA  == {<<>>, A}
OnlyA     == {A}
Growing   == {<<>>, A, <<"b">>, AB}
Whole     == {A, AB}

Symmetry == Permutations(ItemIDs) \cup Permutations(CallIDs)
=============================================================================
