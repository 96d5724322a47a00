----------------------------- MODULE MCKeyboard -----------------------------
(***************************************************************************)
(* Two keys, a buffer of three and eight keys pushed: the ring goes round  *)
(* twice and more, and overruns.                                           *)
(***************************************************************************)
EXTENDS Keyboard
=============================================================================
