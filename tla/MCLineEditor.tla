---------------------------- MODULE MCLineEditor ----------------------------
(***************************************************************************)
(* Short lines over a letter and a space: one command that Tab finds, two  *)
(* files of which one begins with the other.                               *)
(***************************************************************************)
EXTENDS LineEditor

A == "a"
Typed == {A, SPACE}
OneCommand == {<<A, A>>}
TwoFiles == {<<A>>, <<A, A>>}
TakesFile == {<<A>>}
ThreeLines == {<<A>>, <<A, A>>, <<A, A, A>>}
=============================================================================
