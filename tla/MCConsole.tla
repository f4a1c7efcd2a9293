------------------------------ MODULE MCConsole ------------------------------
(***************************************************************************)
(* A tiny screen for TLC, with tabs that do not divide its width, and one  *)
(* colour sequence of each form, complete and cut short.                   *)
(***************************************************************************)
EXTENDS Console

SomeLists == {<<0>>, <<1, 31>>, <<1, 44>>, <<97>>, <<48, 2, 1, 2, 3>>, <<22, 48, 5>>, <<38, 5, 9, 105>>}
=============================================================================
