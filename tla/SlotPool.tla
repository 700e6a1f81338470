------------------------------- MODULE SlotPool -------------------------------
(***************************************************************************)
(* What a counting semaphore with a resizable capacity promises, without   *)
(* a queue, a counter or a handover protocol: a set of holders, a set of   *)
(* callers that wait, and a capacity.  ProbeSemaphore implements it.       *)
(***************************************************************************)
EXTENDS Naturals, FiniteSets

CONSTANTS
    Users,       \* the monitors that ask for a slot
    Capacities   \* the capacities the pool may be given

VARIABLES
    holders,     \* who has a slot
    waiting,     \* who asked and has none yet
    capacity

vars == <<holders, waiting, capacity>>

\* Slots go from `kept` holders to some of the waiting ones: nobody is added
\* beyond the capacity, and nobody is left waiting beside a free slot.
HandOut(kept) ==
    \E S \in SUBSET waiting :
        /\ holders' = kept \cup S
        /\ waiting' = waiting \ S
        /\ S # {} => Cardinality(holders') <= capacity'
        /\ waiting' # {} => Cardinality(holders') >= capacity'

Init ==
    /\ holders = {}
    /\ waiting = {}
    /\ capacity \in Capacities

Acquire(u) ==
    /\ u \notin holders \cup waiting
    /\ \/ /\ waiting = {}
          /\ holders' = holders \cup {u}
          /\ Cardinality(holders') <= capacity
          /\ UNCHANGED waiting
       \/ /\ Cardinality(holders) >= capacity
          /\ waiting' = waiting \cup {u}
          /\ UNCHANGED holders
    /\ UNCHANGED capacity

Release(u) ==
    /\ u \in holders
    /\ UNCHANGED capacity
    /\ HandOut(holders \ {u})

Resize(n) ==
    /\ capacity' = n
    /\ HandOut(holders)

Next ==
    \/ \E u \in Users : Acquire(u) \/ Release(u)
    \/ \E n \in Capacities : Resize(n)

Spec == Init /\ [][Next]_vars
===============================================================================
