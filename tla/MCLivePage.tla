------------------------------ MODULE MCLivePage ------------------------------
(* Instances of LivePage for TLC. *)
EXTENDS LivePage, TLC

CONSTANTS a, b

\* Stream names are interchangeable.
AnyName == Permutations({a, b})
===============================================================================
