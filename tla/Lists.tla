------------------------------- MODULE Lists -------------------------------
(***************************************************************************)
(* The list comprehensions of the Python code and the filtering loops of   *)
(* the Rust code.  A fold says what SelectSeq says, in a form that can     *)
(* also be reasoned about.                                                 *)
(***************************************************************************)
EXTENDS Naturals, Sequences, SequencesExt

\* The elements of s that are in X, in the order they have in s.
Those(s, X) ==
  FoldLeft(LAMBDA found, x : IF x \in X THEN Append(found, x) ELSE found,
           <<>>, s)
=============================================================================
