---------------------------- MODULE ProbeSemaphore ----------------------------
(***************************************************************************)
(* AsyncSemaphore (server/utils/semaphore.ts), the permit pool every       *)
(* stream monitor takes before it spawns ffprobe, resized at run time by   *)
(* updateConfig.  JavaScript runs one handler at a time, so each action is *)
(* the code between two awaits: the call of run up to its await, the       *)
(* resumption of a caller whose promise pump resolved, and the finally.    *)
(***************************************************************************)
EXTENDS Integers, Sequences, FiniteSets, Functions

CONSTANTS
    Callers,     \* the monitors; each has at most one probe outstanding
    InitialMax,  \* concurrency.probeMax when the process starts
    Requested    \* the values setMax is called with

ASSUME CallersAssumption == IsFiniteSet(Callers)
ASSUME MaxAssumption == InitialMax \in Nat \ {0} /\ Requested \subseteq Int

VARIABLES
    max,         \* this.max
    active,      \* this.active
    waiters,     \* this.waiters: the callers whose resolve is queued
    pc           \* where each caller is in run

vars == <<max, active, waiters, pc>>

Places == {"idle", "waiting", "granted", "running"}

\* Math.max(1, Math.floor(n)), on the integers the schema lets through
Clamp(n) == IF n < 1 THEN 1 ELSE n

\* (Mutant: the loop runs while active <= max.)
ServedOneTooMany(m, a, w) ==
    IF a > m THEN 0 ELSE IF m - a + 1 < Len(w) THEN m - a + 1 ELSE Len(w)

\* How many waiters pump's loop serves before one of its conditions fails
Served(m, a, w) ==
    IF a >= m THEN 0 ELSE IF m - a < Len(w) THEN m - a ELSE Len(w)

ServedCallers(m, a, w) == {w[i] : i \in 1..Served(m, a, w)}

\* (Mutant: the newest waiter is served first.)
PumpNewest(m, a, p) ==
    LET k == Len(waiters) - Served(m, a, waiters) IN
    /\ active' = a + Served(m, a, waiters)
    /\ waiters' = SubSeq(waiters, 1, k)
    /\ pc' = [c \in Callers |->
                 IF \E i \in (k + 1)..Len(waiters) : waiters[i] = c
                 THEN "granted" ELSE p[c]]

\* pump, called with the capacity m, the count a and the places p
Pump(m, a, p) ==
    /\ active' = a + Served(m, a, waiters)
    /\ waiters' = SubSeq(waiters, Served(m, a, waiters) + 1, Len(waiters))
    /\ pc' = [c \in Callers |->
                 IF c \in ServedCallers(m, a, waiters) THEN "granted" ELSE p[c]]

-------------------------------------------------------------------------------
Init ==
    /\ max = InitialMax
    /\ active = 0
    /\ waiters = <<>>
    /\ pc = [c \in Callers |-> "idle"]

\* run, up to the await of a contended call or into fn for an uncontended one
Run(c) ==
    /\ pc[c] = "idle"
    /\ \/ /\ active >= max
          /\ waiters' = Append(waiters, c)
          /\ pc' = [pc EXCEPT ![c] = "waiting"]
          /\ UNCHANGED active
       \/ /\ active < max
          /\ active' = active + 1
          /\ pc' = [pc EXCEPT ![c] = "running"]
          /\ UNCHANGED waiters
    /\ UNCHANGED max

\* (Mutant: the resumed caller counts its slot again.)
ResumeCountsAgain(c) ==
    /\ pc[c] = "granted"
    /\ pc' = [pc EXCEPT ![c] = "running"]
    /\ active' = active + 1
    /\ UNCHANGED <<max, waiters>>

\* the await returns: the slot was counted by pump, so fn just starts
Resume(c) ==
    /\ pc[c] = "granted"
    /\ pc' = [pc EXCEPT ![c] = "running"]
    /\ UNCHANGED <<max, active, waiters>>

\* (Mutant: the finally block does not pump.)
FinishWithoutPump(c) ==
    /\ pc[c] = "running"
    /\ pc' = [pc EXCEPT ![c] = "idle"]
    /\ active' = active - 1
    /\ UNCHANGED <<max, waiters>>

\* fn settles, with a value or an error: the finally block
Finish(c) ==
    /\ pc[c] = "running"
    /\ Pump(max, active - 1, [pc EXCEPT ![c] = "idle"])
    /\ UNCHANGED max

\* (Mutant: a raised capacity serves nobody until the next release.)
SetMaxWithoutPump(n) ==
    /\ max' = Clamp(n)
    /\ UNCHANGED <<active, waiters, pc>>

\* the new capacity takes effect at once for those already queued
SetMax(n) ==
    /\ max' = Clamp(n)
    /\ Pump(Clamp(n), active, pc)

Next ==
    \/ \E c \in Callers : Run(c) \/ Resume(c) \/ Finish(c)
    \/ \E n \in Requested : SetMax(n)

\* A resolved promise is resumed, and probeStream returns: each of its finitely
\* many attempts is cut by probeOnce's timer.
Fairness == \A c \in Callers : WF_vars(Resume(c)) /\ WF_vars(Finish(c))

Spec == Init /\ [][Next]_vars

FairSpec == Spec /\ Fairness

-------------------------------------------------------------------------------
Holders == {c \in Callers : pc[c] \in {"granted", "running"}}

Waiting == {c \in Callers : pc[c] = "waiting"}

TypeOK ==
    /\ max \in Nat \ {0}
    /\ active \in Nat
    /\ waiters \in Seq(Callers)
    /\ pc \in [Callers -> Places]

\* The counter is the number of callers that hold a slot: a grant is counted
\* once, by pump, and never again on resume (the leak semaphore.ts:24-27 warns
\* of), and every finally gives one back.
PermitsCounted == active = Cardinality(Holders)

\* The queue holds exactly the suspended callers, each once: nobody is resolved
\* twice and nobody suspended is forgotten.
QueueIsWaiting ==
    /\ Range(waiters) = Waiting
    /\ IsInjective(waiters)

\* No lost wake-up: a caller is suspended only while every slot is taken, also
\* after a resize.
NoIdleSlot == waiters # <<>> => active >= max

SemInv == TypeOK /\ PermitsCounted /\ QueueIsWaiting /\ NoIdleSlot

\* First come, first served: a call that finds somebody queued does not start
\* before it, and pump never serves a later waiter before an earlier one.
NoOvertaking ==
    [][/\ \A c, d \in Callers :
              pc[c] = "waiting" /\ pc[d] = "idle" => pc'[d] # "running"
       /\ \A i, j \in DOMAIN waiters :
              i < j /\ pc'[waiters[j]] = "granted"
                  => pc'[waiters[i]] = "granted"]_vars

\* The semaphore implements the abstract pool: never more holders than slots
\* when one is handed out, whatever setMax did, and no slot idle beside a waiter.
Pool == INSTANCE SlotPool WITH
            Users <- Callers,
            Capacities <- {InitialMax} \cup {Clamp(n) : n \in Requested},
            holders <- Holders, waiting <- Waiting, capacity <- max

ImplementsPool == Pool!Spec

\* Every monitor that asks for a probe gets to probe, under any resizing.
EveryCallerRuns == \A c \in Callers : pc[c] = "waiting" ~> pc[c] = "running"
===============================================================================
