---------------------------- MODULE SessionRegistry ----------------------------
(***************************************************************************)
(* What the publish_sessions table promises its readers (the live panel's  *)
(* seed, the viewer catalog, the statistics): each stream name has at most *)
(* one current session, a newer session replaces an older one, and a       *)
(* session that has ended stays ended.  StreamLifecycle implements it.     *)
(***************************************************************************)
CONSTANTS
    Sessions,
    Names,
    NameOf,      \* the stream name of each session
    NoSession

VARIABLES
    current,     \* the current session of each name
    ended        \* the sessions that are over, the refused ones included

vars == <<current, ended>>

Init ==
    /\ current = [n \in Names |-> NoSession]
    /\ ended = {}

Fresh(x) == x \notin ended /\ \A n \in Names : current[n] # x

\* A session starts and replaces the current one of its name.
Start(x) ==
    /\ Fresh(x)
    /\ current' = [current EXCEPT ![NameOf[x]] = x]
    /\ ended' = ended \cup ({current[NameOf[x]]} \ {NoSession})

\* A publisher is refused; the attempt is on record.
Refuse(x) ==
    /\ Fresh(x)
    /\ ended' = ended \cup {x}
    /\ UNCHANGED current

\* The current session of a name ends.
End(n) ==
    /\ current[n] # NoSession
    /\ ended' = ended \cup {current[n]}
    /\ current' = [current EXCEPT ![n] = NoSession]

Next ==
    \/ \E x \in Sessions : Start(x) \/ Refuse(x)
    \/ \E n \in Names : End(n)

Spec == Init /\ [][Next]_vars
===============================================================================
