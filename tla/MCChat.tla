------------------------------- MODULE MCChat -------------------------------
(***************************************************************************)
(* The P2P chat as TLC checks it.  The configurations give the constants   *)
(* of Chat small values: one slot and two or three connections are enough  *)
(* for a slot and a descriptor number to be used again while an older      *)
(* thread still holds them; two slots and two connections let dialled and  *)
(* accepted connections be in the table together.                          *)
(***************************************************************************)
EXTENDS ChatProps
=============================================================================
