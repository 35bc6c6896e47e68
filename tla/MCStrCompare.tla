----------------------------- MODULE MCStrCompare -----------------------------
(* A small instance of StrCompare: one rule is the beginning of the other; of   *)
(* the strings each is one character longer than the one before, so the first *)
(* is too short for a rule and the second ends where its last character is.    *)
EXTENDS StrCompare, TLC

MCRule == {<<"a", "b">>, <<"a", "b", "a">>}

MCString == {<<"a">>, <<"a", "b">>, <<"a", "b", "a">>}

Symmetry == Permutations(Cpu)

=============================================================================
