----------------------------- MODULE MCPublishGate -----------------------------
(* Instances of PublishGate for TLC. *)
EXTENDS PublishGate, TLC

CONSTANTS ann, Ann, other

\* An account, its email with a capital letter, and a name that is not its own
Capitals == (Ann :> ann) @@ (ann :> ann) @@ (other :> other)

Kept == [n \in Names |-> n]
===============================================================================
