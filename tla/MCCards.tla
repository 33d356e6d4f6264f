------------------------------- MODULE MCCards -------------------------------
(* Small rooms for TLC: two members, because debts never mix pairs.        *)
EXTENDS Cards

CONSTANTS a, b

Pair      == {a, b}
BothEat   == {<<a, b>>}
SomeOfTwo == {<<a>>, <<a, b>>}
=============================================================================
