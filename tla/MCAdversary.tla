---------------------------- MODULE MCAdversary ----------------------------
(* The if-none-match values checked: one letter, a value without a space   *)
(* (the spec's "regexnet"*8), the ReDoS shape 'x' + ' '*n + 'x', and       *)
(* values with a leading or a trailing space.                              *)
EXTENDS Adversary

MCValues == {<<"x">>, <<"x", "x">>, <<"x", " ", "x">>, <<"x", " ", " ", "x">>,
             <<" ", "x">>, <<"x", " ">>}
=============================================================================
