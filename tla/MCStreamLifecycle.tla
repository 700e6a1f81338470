--------------------------- MODULE MCStreamLifecycle ---------------------------
(* Instances of StreamLifecycle for TLC. *)
EXTENDS StreamLifecycle, TLC

CONSTANTS c1, c2, s1

\* Two connections that publish under one name
OneName == c1 :> s1 @@ c2 :> s1

\* Connections that share a name are interchangeable.
SameName == Permutations({c1, c2})
===============================================================================
