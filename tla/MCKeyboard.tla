----------------------------- MODULE MCKeyboard ----------------------------
(***************************************************************************)
(* TLC instance of Keyboard.                                               *)
(***************************************************************************)
EXTENDS Keyboard
=============================================================================
