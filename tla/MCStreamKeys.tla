------------------------------ MODULE MCStreamKeys ------------------------------
(* Instances of StreamKeys for TLC. *)
EXTENDS StreamKeys, TLC

CONSTANTS s1, s2, a

\* Two students whose numbers differ only in characters a stream name drops
SameBase == [s \in Students |-> a]

Symmetry == Permutations(Students) \cup Permutations(Calls)
===============================================================================
