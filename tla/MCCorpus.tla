------------------------------ MODULE MCCorpus ------------------------------
(* Instance of Corpus: a four-symbol vocabulary whose index 0 is the digit *)
(* '0' and whose last symbol is the sentinel, as in string.printable + '\0'. *)
EXTENDS Corpus

MCLetters == <<"0", "a", " ", "NUL">>

(* Lines shorter than, equal to, and longer than one block.                *)
MCLines == {<<"a">>, <<"a", "0">>, <<"0", " ", "a">>}

(* An empty dataset folder.                                                *)
MCEmptyFolder == {<<0, 0>>}

(* An empty folder, or one left by an earlier run with two malicious       *)
(* samples, whose 1-1.txt the next run with one of each does not replace.  *)
MCStaleFolder == {<<0, 0>>, <<2, 0>>}
(* All three dataset scripts.                                              *)
MCScripts == {"constant", "complex", "rescue"}
=============================================================================
