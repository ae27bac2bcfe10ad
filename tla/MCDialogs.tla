------------------------------ MODULE MCDialogs ------------------------------
(* Small instances of Dialogs. *)
EXTENDS Dialogs, TLC

MCSymmetry == Permutations(Creates) \cup Permutations(Users)
===============================================================================
