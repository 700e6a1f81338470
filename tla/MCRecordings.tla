----------------------------- MODULE MCRecordings -----------------------------
(* Instances of Recordings for TLC. *)
EXTENDS Recordings, TLC

CONSTANTS t1, t2, t3, n1, n2, v1, e1, e2

\* Two takes of one stream and one of another
Names3 == t1 :> n1 @@ t2 :> n1 @@ t3 :> n2

\* Names that are different are different in paths.
Verbatim == n1 :> n1 @@ n2 :> n2

\* A probe that could not tell the frame rate among them
Fps3 == t1 :> 10 @@ t2 :> 30 @@ t3 :> 0
===============================================================================
