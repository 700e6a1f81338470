------------------------------ MODULE MCEventBook ------------------------------
(* A small instance of EventBook for TLC. *)
EXTENDS EventBook, TLC

Alike == Permutations(Keys) \cup Permutations(Groups)

===============================================================================
