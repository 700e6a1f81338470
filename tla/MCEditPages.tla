------------------------------ MODULE MCEditPages ------------------------------
(* A small instance of EditPages for TLC. *)
EXTENDS EditPages, TLC

Alike == Permutations(Pages)

===============================================================================
