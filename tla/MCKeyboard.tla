----------------------------- MODULE MCKeyboard -----------------------------
(***************************************************************************)
(* A ring of two characters, one letter and one sign, for TLC.             *)
(***************************************************************************)
EXTENDS Keyboard
=============================================================================
