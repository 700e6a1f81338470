-------------------------- MODULE ConfigurationProofs -------------------------
(***************************************************************************)
(* Proofs about the configuration: the pages that edit it (EditPages) and  *)
(* the semaphore whose capacity a save sets (ProbeSemaphore).              *)
(***************************************************************************)
EXTENDS ProbeSemaphore, EditPages, FunctionTheorems, FiniteSetTheorems, SequenceTheorems,
        TLAPS

-------------------------------------------------------------------------------
(***************************************************************************)
(* ProbeSemaphore, for any finite set of callers and any sequence of       *)
(* resizes: SemInv is inductive, hence no permit leaks and no wake-up is   *)
(* lost; the semaphore implements SlotPool, and serves in order.           *)
(***************************************************************************)

\* The callers that hold a slot when their places are p
HoldersOf(p) == {c \in Callers : p[c] \in {"granted", "running"}}

\* The resize clamp of setMax yields a legal capacity for every integer.
LEMMA ClampType == \A n \in Requested : Clamp(n) \in Nat \ {0}
BY MaxAssumption DEF Clamp

\* pump serves a prefix of the queue: between nobody and everybody, nobody when
\* the slots are taken, and exactly until slots or waiters run out.
LEMMA ServedBounds ==
    ASSUME NEW m \in Nat, NEW a \in Nat, NEW w \in Seq(Callers)
    PROVE  /\ Served(m, a, w) \in 0..Len(w)
           /\ Served(m, a, w) > 0 => a + Served(m, a, w) <= m
           /\ Served(m, a, w) < Len(w) => a + Served(m, a, w) >= m
<1>1. Len(w) \in Nat
  BY LenProperties
<1>. QED
  BY <1>1 DEF Served

\* The callers pump serves are as many as the loop's rounds, because nobody is
\* queued twice.
LEMMA ServedCardinality ==
    ASSUME NEW m \in Nat, NEW a \in Nat, NEW w \in Seq(Callers), IsInjective(w)
    PROVE  /\ IsFiniteSet(ServedCallers(m, a, w))
           /\ Cardinality(ServedCallers(m, a, w)) = Served(m, a, w)
<1>. DEFINE k == Served(m, a, w)
            S == ServedCallers(m, a, w)
            f == [i \in 1..k |-> w[i]]
<1>1. k \in Nat /\ 1..k \subseteq DOMAIN w
  <2>1. Len(w) \in Nat /\ DOMAIN w = 1..Len(w)
    BY LenProperties
  <2>2. k \in 0..Len(w)
    BY ServedBounds
  <2>. QED
    BY <2>1, <2>2
<1>2. f \in Bijection(1..k, S)
  <2>1. f \in [1..k -> S]
    BY DEF ServedCallers
  <2>2. \A i, j \in 1..k : f[i] = f[j] => i = j
    BY <1>1 DEF IsInjective
  <2>3. \A c \in S : \E i \in 1..k : f[i] = c
    BY DEF ServedCallers
  <2>. QED
    BY <2>1, <2>2, <2>3 DEF Bijection, Injection, Surjection, IsInjective
<1>3. IsFiniteSet(1..k) /\ Cardinality(1..k) = k
  BY <1>1, FS_Interval
<1>4. ExistsBijection(1..k, S)
  BY <1>2 DEF ExistsBijection
<1>. QED
  BY <1>3, <1>4, FS_Bijection

\* What one call of pump does, whatever the capacity m, the count a and the
\* places p it starts from, as long as the count is right and the queue holds
\* the suspended callers.
LEMMA PumpSpec ==
    ASSUME NEW m \in Nat \ {0}, NEW a \in Nat, NEW p \in [Callers -> Places],
           TypeOK, QueueIsWaiting,
           \A c \in Callers : p[c] = "waiting" <=> pc[c] = "waiting",
           a = Cardinality(HoldersOf(p)),
           Pump(m, a, p)
    PROVE  LET S == ServedCallers(m, a, waiters) IN
           /\ active' \in Nat /\ waiters' \in Seq(Callers)
           /\ pc' \in [Callers -> Places]
           /\ PermitsCounted' /\ QueueIsWaiting'
           /\ waiters' # <<>> => active' >= m
           /\ S \subseteq Waiting
           /\ Holders' = HoldersOf(p) \cup S
           /\ Waiting' = Waiting \ S
           /\ S # {} => active' <= m
<1>. DEFINE k == Served(m, a, waiters)
            S == ServedCallers(m, a, waiters)
            n == Len(waiters)
<1>1. /\ waiters \in Seq(Callers) /\ n \in Nat /\ DOMAIN waiters = 1..n
      /\ IsInjective(waiters) /\ Range(waiters) = Waiting
  BY LenProperties DEF TypeOK, QueueIsWaiting
<1>2. /\ k \in 0..n
      /\ k > 0 => a + k <= m
      /\ k < n => a + k >= m
  BY <1>1, ServedBounds
<1>3. IsFiniteSet(S) /\ Cardinality(S) = k
  BY <1>1, ServedCardinality
<1>4. S \subseteq Waiting
  BY <1>1, <1>2 DEF ServedCallers, Range
<1>5. pc' = [c \in Callers |-> IF c \in S THEN "granted" ELSE p[c]]
  BY DEF Pump
<1>6. pc' \in [Callers -> Places]
  BY <1>5 DEF Places
<1>7. Holders' = HoldersOf(p) \cup S
  BY <1>4, <1>5 DEF Holders, HoldersOf, Waiting
<1>8. Waiting' = Waiting \ S
  BY <1>5 DEF Waiting
<1>9. /\ waiters' \in Seq(Callers) /\ Len(waiters') = n - k
      /\ \A i \in 1..(n - k) : waiters'[i] = waiters[k + i]
  <2>1. waiters' = SubSeq(waiters, k + 1, n)
    BY DEF Pump
  <2>2. \A i \in (k + 1)..n : waiters[i] \in Callers
    BY <1>1, <1>2, ElementOfSeq
  <2>3. k + 1 \in Int /\ n \in Int
    BY <1>1, <1>2
  <2>4. \A x, y \in Int :
            (\A i \in x..y : waiters[i] \in Callers)
                => /\ SubSeq(waiters, x, y) \in Seq(Callers)
                   /\ Len(SubSeq(waiters, x, y)) =
                          IF x <= y THEN y - x + 1 ELSE 0
                   /\ \A i \in 1..(y - x + 1) :
                          SubSeq(waiters, x, y)[i] = waiters[x + i - 1]
    BY SubSeqProperties
  <2>5. /\ waiters' \in Seq(Callers)
        /\ Len(waiters') = IF k + 1 <= n THEN n - (k + 1) + 1 ELSE 0
        /\ \A i \in 1..(n - (k + 1) + 1) :
               waiters'[i] = waiters[(k + 1) + i - 1]
    BY <2>1, <2>2, <2>3, <2>4
  <2>6. Len(waiters') = n - k
    <3>1. (IF k + 1 <= n THEN n - (k + 1) + 1 ELSE 0) = n - k
      BY <1>1, <1>2
    <3>. QED
      BY <2>5, <3>1
  <2>7. ASSUME NEW i \in 1..(n - k)
        PROVE  waiters'[i] = waiters[k + i]
    <3>1. i \in 1..(n - (k + 1) + 1) /\ (k + 1) + i - 1 = k + i
      BY <1>1, <1>2
    <3>. QED
      BY <2>5, <3>1
  <2>. QED
    BY <2>5, <2>6, <2>7
<1>10. active' = a + k
  BY DEF Pump
<1>11. PermitsCounted'
  <2>1. IsFiniteSet(HoldersOf(p))
    BY CallersAssumption, FS_Subset DEF HoldersOf
  <2>2. HoldersOf(p) \cap S = {}
    BY <1>4 DEF HoldersOf, Waiting
  <2>3. Cardinality({}) = 0
    BY FS_EmptySet
  <2>4. Cardinality(HoldersOf(p) \cup S) = a + k - 0
    BY <1>3, <2>1, <2>2, <2>3, FS_Union
  <2>. QED
    BY <1>2, <1>7, <1>10, <2>4 DEF PermitsCounted
<1>12. QueueIsWaiting'
  <2>1. DOMAIN waiters' = 1..(n - k)
    BY <1>9, LenProperties
  <2>2. IsInjective(waiters')
    <3>. SUFFICES ASSUME NEW i \in 1..(n - k), NEW j \in 1..(n - k),
                         waiters'[i] = waiters'[j]
                  PROVE  i = j
      BY <2>1 DEF IsInjective
    <3>1. waiters[k + i] = waiters[k + j]
      BY <1>9
    <3>2. k + i \in DOMAIN waiters /\ k + j \in DOMAIN waiters
      BY <1>1, <1>2
    <3>3. k + i = k + j
      BY <1>1, <3>1, <3>2 DEF IsInjective
    <3>. QED
      BY <1>2, <3>3
  <2>3. Range(waiters') \subseteq Waiting'
    <3>. SUFFICES ASSUME NEW i \in 1..(n - k)
                  PROVE  waiters'[i] \in Waiting \ S
      BY <1>8, <2>1 DEF Range
    <3>1. waiters'[i] = waiters[k + i] /\ k + i \in DOMAIN waiters
      BY <1>1, <1>2, <1>9
    <3>2. ASSUME NEW j \in 1..k, waiters[k + i] = waiters[j]
          PROVE  FALSE
      <4>1. j \in DOMAIN waiters
        BY <1>1, <1>2
      <4>2. k + i = j
        BY <1>1, <3>1, <3>2, <4>1 DEF IsInjective
      <4>. QED
        BY <1>2, <4>2
    <3>. QED
      BY <1>1, <3>1, <3>2 DEF Range, ServedCallers
  <2>4. Waiting' \subseteq Range(waiters')
    <3>. SUFFICES ASSUME NEW c \in Waiting \ S
                  PROVE  \E i \in 1..(n - k) : waiters'[i] = c
      BY <1>8, <2>1 DEF Range
    <3>1. PICK j \in 1..n : waiters[j] = c
      BY <1>1 DEF Range
    <3>2. j > k
      BY <1>2, <3>1 DEF ServedCallers
    <3>3. j - k \in 1..(n - k) /\ k + (j - k) = j
      BY <1>1, <1>2, <3>2
    <3>. QED
      BY <1>9, <3>1, <3>3
  <2>. QED
    BY <2>2, <2>3, <2>4 DEF QueueIsWaiting
<1>13. waiters' # <<>> => active' >= m
  <2>1. waiters' # <<>> => n - k # 0
    BY <1>9, EmptySeq
  <2>. QED
    BY <1>1, <1>2, <1>10, <2>1
<1>14. S # {} => active' <= m
  <2>1. S # {} => k # 0
    BY <1>3, FS_EmptySet
  <2>. QED
    BY <1>2, <1>10, <2>1
<1>. QED
  BY <1>2, <1>4, <1>6, <1>7, <1>8, <1>9, <1>10, <1>11, <1>12, <1>13, <1>14

-------------------------------------------------------------------------------
LEMMA InitInv == Init => SemInv
<1>. SUFFICES ASSUME Init PROVE SemInv
  OBVIOUS
<1>1. TypeOK
  BY MaxAssumption, EmptySeq DEF Init, TypeOK, Places
<1>2. PermitsCounted
  <2>1. Holders = {}
    BY DEF Init, Holders
  <2>. QED
    BY <2>1, FS_EmptySet DEF Init, PermitsCounted
<1>3. QueueIsWaiting
  <2>1. DOMAIN waiters = {}
    BY DEF Init
  <2>2. Waiting = {}
    BY DEF Init, Waiting
  <2>. QED
    BY <2>1, <2>2 DEF QueueIsWaiting, Range, IsInjective
<1>4. NoIdleSlot
  BY DEF Init, NoIdleSlot
<1>. QED
  BY <1>1, <1>2, <1>3, <1>4 DEF SemInv

\* The pool's Cardinality is the one of the semaphore.
LEMMA SameCardinality == \A S : Pool!Cardinality(S) = Cardinality(S)
BY Zenon DEF Pool!Cardinality, Cardinality

\* A call of run: it takes a free slot, or joins the end of the queue when all
\* slots are taken.  The last two facts are the step of the pool it implements.
LEMMA RunStep ==
    ASSUME SemInv, NEW c \in Callers, Run(c)
    PROVE  SemInv' /\ Pool!Acquire(c)
<1>1. /\ max' = max /\ pc[c] = "idle" /\ pc \in [Callers -> Places]
      /\ waiters \in Seq(Callers) /\ active \in Nat /\ max \in Nat \ {0}
  BY DEF Run, SemInv, TypeOK
<1>2. c \notin Holders \cup Waiting
  BY <1>1 DEF Holders, Waiting
<1>3. IsFiniteSet(Holders) /\ active = Cardinality(Holders)
  BY CallersAssumption, FS_Subset DEF Holders, SemInv, PermitsCounted
<1>4. CASE active >= max
  <2>1. /\ waiters' = Append(waiters, c) /\ active' = active
        /\ pc' = [pc EXCEPT ![c] = "waiting"]
    BY <1>1, <1>4 DEF Run
  <2>2. Holders' = Holders /\ Waiting' = Waiting \cup {c}
    BY <1>1, <2>1 DEF Holders, Waiting
  <2>3. /\ waiters' \in Seq(Callers) /\ Len(waiters') = Len(waiters) + 1
        /\ \A i \in 1..Len(waiters) : waiters'[i] = waiters[i]
        /\ waiters'[Len(waiters) + 1] = c
    BY <1>1, <2>1, AppendProperties
  <2>4. /\ Len(waiters) \in Nat /\ DOMAIN waiters = 1..Len(waiters)
        /\ DOMAIN waiters' = 1..(Len(waiters) + 1)
    BY <1>1, <2>3, LenProperties
  <2>5. Range(waiters') = Range(waiters) \cup {c}
    BY <2>3, <2>4 DEF Range
  <2>6. c \notin Range(waiters)
    BY <1>2 DEF SemInv, QueueIsWaiting
  <2>7. IsInjective(waiters')
    <3>. SUFFICES ASSUME NEW i \in 1..(Len(waiters) + 1),
                         NEW j \in 1..(Len(waiters) + 1),
                         waiters'[i] = waiters'[j]
                  PROVE  i = j
      BY <2>4 DEF IsInjective
    <3>1. \A x \in 1..Len(waiters) : waiters'[x] \in Range(waiters)
      BY <2>3, <2>4 DEF Range
    <3>2. i = Len(waiters) + 1 <=> j = Len(waiters) + 1
      BY <2>3, <2>4, <2>6, <3>1
    <3>3. CASE i # Len(waiters) + 1
      <4>1. i \in DOMAIN waiters /\ j \in DOMAIN waiters
        BY <2>4, <3>2, <3>3
      <4>2. waiters[i] = waiters[j]
        BY <2>3, <2>4, <4>1
      <4>. QED
        BY <4>1, <4>2 DEF SemInv, QueueIsWaiting, IsInjective
    <3>. QED
      BY <3>2, <3>3
  <2>8. TypeOK'
    BY <1>1, <2>1, <2>3 DEF TypeOK, Places
  <2>9. PermitsCounted' /\ QueueIsWaiting' /\ NoIdleSlot'
    BY <1>1, <1>4, <2>1, <2>2, <2>5, <2>7
       DEF SemInv, PermitsCounted, QueueIsWaiting, NoIdleSlot
  <2>. QED
    BY <1>1, <1>2, <1>3, <1>4, <2>2, <2>8, <2>9, SameCardinality
       DEF SemInv, Pool!Acquire
<1>5. CASE active < max
  <2>1. /\ active' = active + 1 /\ waiters' = waiters
        /\ pc' = [pc EXCEPT ![c] = "running"]
    BY <1>1, <1>5 DEF Run
  <2>2. Holders' = Holders \cup {c} /\ Waiting' = Waiting
    BY <1>1, <2>1 DEF Holders, Waiting
  <2>3. Cardinality(Holders') = active + 1
    BY <1>2, <1>3, <2>2, FS_AddElement
  <2>4. waiters = <<>>
    BY <1>1, <1>5 DEF SemInv, NoIdleSlot
  <2>5. Waiting = {}
    BY <2>4 DEF SemInv, QueueIsWaiting, Range
  <2>6. SemInv'
    BY <1>1, <2>1, <2>2, <2>3, <2>4
       DEF SemInv, TypeOK, Places, PermitsCounted, QueueIsWaiting, NoIdleSlot
  <2>7. Cardinality(Holders') <= max
    BY <1>1, <1>5, <2>3
  <2>. QED
    BY <1>1, <1>2, <2>2, <2>5, <2>6, <2>7, SameCardinality DEF Pool!Acquire
<1>. QED
  BY <1>1, <1>4, <1>5

\* A granted caller was counted by pump; resuming it moves nothing.
LEMMA ResumeStep ==
    ASSUME SemInv, NEW c \in Callers, Resume(c)
    PROVE  SemInv' /\ UNCHANGED <<Holders, Waiting, max>>
<1>1. /\ pc[c] = "granted" /\ pc' = [pc EXCEPT ![c] = "running"]
      /\ UNCHANGED <<max, active, waiters>> /\ pc \in [Callers -> Places]
  BY DEF Resume, SemInv, TypeOK
<1>2. Holders' = Holders /\ Waiting' = Waiting
  BY <1>1 DEF Holders, Waiting
<1>. QED
  BY <1>1, <1>2
     DEF SemInv, TypeOK, Places, PermitsCounted, QueueIsWaiting, NoIdleSlot

\* From what PumpSpec says of a call of pump to the pool's hand-out of slots.
LEMMA PumpHandsOut ==
    ASSUME NEW kept, NEW S, S \subseteq Waiting,
           max' \in Nat, active' \in Nat, PermitsCounted', QueueIsWaiting',
           Holders' = kept \cup S, Waiting' = Waiting \ S,
           S # {} => active' <= max',
           waiters' # <<>> => active' >= max'
    PROVE  Pool!HandOut(kept)
<1>1. active' = Cardinality(Holders')
  BY DEF PermitsCounted
<1>2. Waiting' # {} => waiters' # <<>>
  BY DEF QueueIsWaiting, Range
<1>. QED
  BY <1>1, <1>2, SameCardinality DEF Pool!HandOut

\* The finally block gives the slot back and pumps.
LEMMA FinishStep ==
    ASSUME SemInv, NEW c \in Callers, Finish(c)
    PROVE  SemInv' /\ Pool!Release(c)
<1>. DEFINE p == [pc EXCEPT ![c] = "idle"]
            S == ServedCallers(max, active - 1, waiters)
<1>1. /\ pc[c] = "running" /\ max' = max /\ Pump(max, active - 1, p)
      /\ TypeOK /\ PermitsCounted /\ QueueIsWaiting
  BY DEF Finish, SemInv
<1>2. p \in [Callers -> Places]
  BY <1>1 DEF TypeOK, Places
<1>3. \A d \in Callers : p[d] = "waiting" <=> pc[d] = "waiting"
  BY <1>1 DEF TypeOK
<1>4. HoldersOf(p) = Holders \ {c} /\ c \in Holders
  BY <1>1 DEF TypeOK, Holders, HoldersOf
<1>5. active - 1 = Cardinality(HoldersOf(p)) /\ active - 1 \in Nat
  <2>1. IsFiniteSet(Holders)
    BY CallersAssumption, FS_Subset DEF Holders
  <2>2. /\ Cardinality(Holders \ {c}) = Cardinality(Holders) - 1
        /\ IsFiniteSet(Holders \ {c})
    BY <1>4, <2>1, FS_RemoveElement
  <2>3. Cardinality(Holders \ {c}) \in Nat
    BY <2>2, FS_CardinalityType
  <2>. QED
    BY <1>1, <1>4, <2>2, <2>3 DEF PermitsCounted
<1>6. /\ active' \in Nat /\ waiters' \in Seq(Callers)
      /\ pc' \in [Callers -> Places]
      /\ PermitsCounted' /\ QueueIsWaiting'
      /\ waiters' # <<>> => active' >= max
      /\ S \subseteq Waiting
      /\ Holders' = HoldersOf(p) \cup S /\ Waiting' = Waiting \ S
      /\ S # {} => active' <= max
  <2>1. max \in Nat \ {0}
    BY <1>1 DEF TypeOK
  <2>. HIDE DEF p
  <2>. QED
    BY <1>1, <1>2, <1>3, <1>5, <2>1, PumpSpec
<1>7. SemInv'
  BY <1>1, <1>6 DEF SemInv, TypeOK, NoIdleSlot
<1>8. Pool!HandOut(Holders \ {c})
  <2>1. max' \in Nat
    BY <1>1 DEF TypeOK
  <2>. HIDE DEF S
  <2>. QED
    BY <1>1, <1>4, <1>6, <2>1, PumpHandsOut
<1>. QED
  BY <1>1, <1>4, <1>7, <1>8 DEF Pool!Release

\* A resize clamps the capacity and pumps.
LEMMA SetMaxStep ==
    ASSUME SemInv, NEW n \in Requested, SetMax(n)
    PROVE  SemInv' /\ Pool!Resize(Clamp(n))
<1>. DEFINE S == ServedCallers(Clamp(n), active, waiters)
<1>1. /\ max' = Clamp(n) /\ Pump(Clamp(n), active, pc) /\ Clamp(n) \in Nat \ {0}
      /\ TypeOK /\ PermitsCounted /\ QueueIsWaiting
  BY ClampType DEF SetMax, SemInv
<1>2. HoldersOf(pc) = Holders
  BY DEF Holders, HoldersOf
<1>3. /\ active' \in Nat /\ waiters' \in Seq(Callers)
      /\ pc' \in [Callers -> Places]
      /\ PermitsCounted' /\ QueueIsWaiting'
      /\ waiters' # <<>> => active' >= Clamp(n)
      /\ S \subseteq Waiting
      /\ Holders' = HoldersOf(pc) \cup S /\ Waiting' = Waiting \ S
      /\ S # {} => active' <= Clamp(n)
  <2>1. active \in Nat /\ pc \in [Callers -> Places]
    BY <1>1 DEF TypeOK
  <2>2. active = Cardinality(HoldersOf(pc))
    BY <1>1, <1>2 DEF PermitsCounted
  <2>. QED
    BY <1>1, <2>1, <2>2, PumpSpec
<1>4. SemInv'
  BY <1>1, <1>3 DEF SemInv, TypeOK, NoIdleSlot
<1>5. Pool!HandOut(Holders)
  <2>. HIDE DEF S
  <2>. QED
    BY <1>1, <1>2, <1>3, PumpHandsOut
<1>. QED
  BY <1>1, <1>4, <1>5 DEF Pool!Resize

LEMMA NextInv == SemInv /\ [Next]_vars => SemInv'
<1>. SUFFICES ASSUME SemInv, [Next]_vars PROVE SemInv'
  OBVIOUS
<1>1. ASSUME NEW c \in Callers, Run(c) PROVE SemInv'
  BY <1>1, RunStep
<1>2. ASSUME NEW c \in Callers, Resume(c) PROVE SemInv'
  BY <1>2, ResumeStep
<1>3. ASSUME NEW c \in Callers, Finish(c) PROVE SemInv'
  BY <1>3, FinishStep
<1>4. ASSUME NEW n \in Requested, SetMax(n) PROVE SemInv'
  BY <1>4, SetMaxStep
<1>5. CASE UNCHANGED vars
  BY <1>5 DEF vars, SemInv, TypeOK, PermitsCounted, QueueIsWaiting,
              NoIdleSlot, Holders, Waiting
<1>. QED
  BY <1>1, <1>2, <1>3, <1>4, <1>5 DEF Next

\* For every finite set of monitors and every sequence of resizes: the counter
\* is the number of slots handed out, the queue is the set of suspended callers,
\* and nobody is suspended while a slot is free.
THEOREM SemaphoreSafe == Spec => []SemInv
BY InitInv, NextInv, PTL DEF Spec

\* No permit leaks and none is counted twice, however releases, resumptions and
\* resizes interleave (the hazard semaphore.ts:24-27 describes).
THEOREM NoPermitLeak == Spec => []PermitsCounted
<1>1. SemInv => PermitsCounted
  BY DEF SemInv
<1>. QED
  BY <1>1, SemaphoreSafe, PTL

\* No wake-up is lost: a caller stays suspended only while all slots are taken.
THEOREM NoLostWakeUp == Spec => []NoIdleSlot
<1>1. SemInv => NoIdleSlot
  BY DEF SemInv
<1>. QED
  BY <1>1, SemaphoreSafe, PTL

\* Each step of the semaphore is a step of the abstract pool or leaves it alone.
LEMMA StepSimulation == SemInv /\ [Next]_vars => [Pool!Next]_(Pool!vars)
<1>. SUFFICES ASSUME SemInv, [Next]_vars PROVE [Pool!Next]_(Pool!vars)
  OBVIOUS
<1>1. ASSUME NEW c \in Callers, Run(c) PROVE Pool!Next
  BY <1>1, RunStep DEF Pool!Next
<1>2. ASSUME NEW c \in Callers, Resume(c) PROVE UNCHANGED Pool!vars
  BY <1>2, ResumeStep DEF Pool!vars
<1>3. ASSUME NEW c \in Callers, Finish(c) PROVE Pool!Next
  BY <1>3, FinishStep DEF Pool!Next
<1>4. ASSUME NEW n \in Requested, SetMax(n) PROVE Pool!Next
  BY <1>4, SetMaxStep DEF Pool!Next
<1>5. CASE UNCHANGED vars
  BY <1>5 DEF vars, Pool!vars, Holders, Waiting
<1>. QED
  BY <1>1, <1>2, <1>3, <1>4, <1>5 DEF Next

\* AsyncSemaphore implements the resizable pool of slots: it never hands out a
\* slot beyond the capacity in force and leaves none idle beside a waiter.
THEOREM SemaphoreImplementsPool == Spec => ImplementsPool
<1>1. Init => Pool!Init
  BY DEF Init, Pool!Init, Holders, Waiting
<1>. QED
  BY <1>1, StepSimulation, SemaphoreSafe, PTL DEF Spec, ImplementsPool, Pool!Spec

-------------------------------------------------------------------------------
(* First come, first served                                                *)

\* A queued caller is suspended, and no other index of the queue has it.
LEMMA QueuedOnce ==
    ASSUME SemInv, NEW i \in DOMAIN waiters
    PROVE  /\ waiters[i] \in Callers /\ pc[waiters[i]] = "waiting"
           /\ \A j \in DOMAIN waiters : waiters[i] = waiters[j] => i = j
<1>1. waiters[i] \in Range(waiters)
  BY DEF Range
<1>. QED
  BY <1>1 DEF SemInv, QueueIsWaiting, Waiting, IsInjective

\* A call that finds somebody queued finds no free slot either.
LEMMA QueuedIsFull ==
    ASSUME SemInv, NEW c \in Callers, pc[c] = "waiting"
    PROVE  active >= max
<1>1. c \in Range(waiters)
  BY DEF SemInv, QueueIsWaiting, Waiting
<1>2. waiters # <<>>
  BY <1>1, EmptySeq DEF Range
<1>. QED
  BY <1>2 DEF SemInv, NoIdleSlot

\* Only pump hands a slot to a suspended caller: a step without it overtakes
\* nobody if it starts nobody while somebody is queued.
LEMMA NoPumpNoOvertaking ==
    ASSUME SemInv, NEW x \in Callers, NEW place \in Places,
           pc' = [pc EXCEPT ![x] = place], pc[x] # "waiting",
           pc[x] = "idle" /\ place = "running" => active < max
    PROVE  /\ \A c, d \in Callers :
                  pc[c] = "waiting" /\ pc[d] = "idle" => pc'[d] # "running"
           /\ \A i, j \in DOMAIN waiters :
                  i < j /\ pc'[waiters[j]] = "granted" => pc'[waiters[i]] = "granted"
<1>1. pc \in [Callers -> Places] /\ active \in Nat /\ max \in Nat
  BY DEF SemInv, TypeOK
<1>2. ASSUME NEW c \in Callers, NEW d \in Callers, pc[c] = "waiting", pc[d] = "idle"
      PROVE  pc'[d] # "running"
  BY <1>1, <1>2, QueuedIsFull
<1>3. ASSUME NEW j \in DOMAIN waiters
      PROVE  pc'[waiters[j]] = "waiting"
  BY <1>1, <1>3, QueuedOnce
<1>. QED
  BY <1>2, <1>3

\* pump serves a prefix of the queue, and those it serves have yet to resume.
LEMMA PumpInOrder ==
    ASSUME SemInv, NEW m \in Nat, NEW a \in Nat, NEW p \in [Callers -> Places],
           \A c \in Callers : p[c] = pc[c] \/ p[c] = "idle",
           \A c \in Callers : pc[c] = "waiting" => p[c] = "waiting",
           Pump(m, a, p)
    PROVE  /\ \A c, d \in Callers :
                  pc[c] = "waiting" /\ pc[d] = "idle" => pc'[d] # "running"
           /\ \A i, j \in DOMAIN waiters :
                  i < j /\ pc'[waiters[j]] = "granted" => pc'[waiters[i]] = "granted"
<1>1. pc' = [c \in Callers |->
                 IF c \in ServedCallers(m, a, waiters) THEN "granted" ELSE p[c]]
  BY DEF Pump
<1>2. ASSUME NEW d \in Callers, pc[d] = "idle"
      PROVE  pc'[d] # "running"
  BY <1>1, <1>2
<1>3. ASSUME NEW i \in DOMAIN waiters, NEW j \in DOMAIN waiters,
             i < j, pc'[waiters[j]] = "granted"
      PROVE  pc'[waiters[i]] = "granted"
  <2>1. waiters \in Seq(Callers) /\ DOMAIN waiters = 1..Len(waiters) /\ Len(waiters) \in Nat
    BY LenProperties DEF SemInv, TypeOK
  <2>2. Served(m, a, waiters) \in 0..Len(waiters)
    BY <2>1, ServedBounds
  <2>3. waiters[j] \in Callers /\ p[waiters[j]] = "waiting" /\ waiters[i] \in Callers
    BY QueuedOnce
  <2>4. waiters[j] \in ServedCallers(m, a, waiters)
    BY <1>1, <1>3, <2>3
  <2>5. PICK k \in 1..Served(m, a, waiters) : waiters[j] = waiters[k]
    BY <2>4 DEF ServedCallers
  <2>6. k \in DOMAIN waiters
    BY <2>1, <2>2
  <2>7. j = k
    BY <2>5, <2>6, QueuedOnce
  <2>8. i \in 1..Served(m, a, waiters)
    BY <1>3, <2>1, <2>2, <2>7
  <2>. QED
    BY <1>1, <2>3, <2>8 DEF ServedCallers
<1>. QED
  BY <1>2, <1>3

\* NoOvertaking for all instances: it needs the whole invariant, that the queue
\* holds each suspended caller once and that no slot is free beside it.
THEOREM FirstComeFirstServed == Spec => NoOvertaking
<1>. DEFINE InOrder ==
        /\ \A c, d \in Callers :
              pc[c] = "waiting" /\ pc[d] = "idle" => pc'[d] # "running"
        /\ \A i, j \in DOMAIN waiters :
              i < j /\ pc'[waiters[j]] = "granted" => pc'[waiters[i]] = "granted"
<1>1. ASSUME SemInv, NEW c \in Callers, Run(c) PROVE InOrder
  <2>1. \/ pc' = [pc EXCEPT ![c] = "waiting"]
        \/ active < max /\ pc' = [pc EXCEPT ![c] = "running"]
    BY <1>1 DEF Run
  <2>. QED
    BY <1>1, <2>1, NoPumpNoOvertaking DEF Run, Places
<1>2. ASSUME SemInv, NEW c \in Callers, Resume(c) PROVE InOrder
  BY <1>2, NoPumpNoOvertaking DEF Resume, Places
<1>3. ASSUME SemInv, NEW c \in Callers, Finish(c) PROVE InOrder
  <2>1. c \in Holders /\ IsFiniteSet(Holders) /\ active = Cardinality(Holders)
    <3>1. c \in Holders
      BY <1>3 DEF Finish, Holders
    <3>2. IsFiniteSet(Holders)
      BY CallersAssumption, FS_Subset DEF Holders
    <3>. QED
      BY <1>3, <3>1, <3>2 DEF SemInv, PermitsCounted
  <2>2. active # 0
    BY <2>1, FS_EmptySet
  <2>3. active - 1 \in Nat /\ max \in Nat /\ pc \in [Callers -> Places]
    BY <1>3, <2>2 DEF SemInv, TypeOK
  <2>4. [pc EXCEPT ![c] = "idle"] \in [Callers -> Places]
    BY <2>3 DEF Places
  <2>. QED
    BY <1>3, <2>3, <2>4, PumpInOrder DEF Finish
<1>4. ASSUME SemInv, NEW n \in Requested, SetMax(n) PROVE InOrder
  BY <1>4, ClampType, PumpInOrder DEF SetMax, SemInv, TypeOK
<1>5. SemInv /\ [Next]_vars => [InOrder]_vars
  BY <1>1, <1>2, <1>3, <1>4 DEF Next
<1>. QED
  BY <1>5, SemaphoreSafe, PTL DEF Spec, NoOvertaking

-------------------------------------------------------------------------------
(***************************************************************************)
(* EditPages, for any number of pages and values: what is stored is in     *)
(* force, a secret is replaced only by one that was typed and not yet      *)
(* saved or discarded, and typed text is not lost.                         *)
(***************************************************************************)

\* Of one page: a secret in its box or in its request was typed and neither
\* saved nor discarded since; without a request it has sent none, and left it
\* has none in its box; what was stored was valid.
Tracked(p, pg, secrets) ==
    /\ pg.box \/ pg.sent => p \in secrets
    /\ pg.save = "idle" => ~pg.sent
    /\ pg.at = "left" => ~pg.box
    /\ pg.save = "stored" => pg.body \in Values

SecretsTracked == \A p \in Pages : Tracked(p, page[p], secretNow)

PagesInv == PagesTypeOK /\ InForceIsStored /\ SecretsTracked

USE EditPagesAssumption

\* At first nothing is stored and no page is open.
LEMMA PagesInitHolds == PagesInit => PagesInv
  BY DEF PagesInit, PagesInv, PagesTypeOK, InForceIsStored, SecretsTracked, Tracked, Kinds, Records,
     PageStates, Inputs, Unopened

\* A page type-checks when it was one and fields of it were set to values of
\* theirs.
LEMMA FieldsSet ==
    ASSUME NEW pg \in PageStates
    PROVE  /\ \A v \in Inputs : [pg EXCEPT !.form = v] \in PageStates
           /\ \A v \in Values : [pg EXCEPT !.data = v] \in PageStates
           /\ \A v \in {"unopened", "editing", "asking", "left"} :
                 [pg EXCEPT !.at = v] \in PageStates
           /\ \A v \in {"idle", "asked", "stored", "refused"} :
                 [pg EXCEPT !.save = v] \in PageStates
           /\ [pg EXCEPT !.box = TRUE] \in PageStates
           /\ Reset(pg) \in PageStates
           /\ Asked(pg) \in PageStates
           /\ [Asked(pg) EXCEPT !.away = TRUE] \in PageStates
           /\ Left(pg) \in PageStates
           /\ Idle(pg) \in PageStates
           /\ \A v \in Inputs : v \in Values => Synced(pg, v) \in PageStates
  BY DEF PageStates, Inputs, Reset, Asked, Left, Unopened, Idle, Synced

-------------------------------------------------------------------------------
(* Steps of one page leave the record alone.                               *)

\* A step that replaces one page by another, after which the page still has
\* only secrets that are on record, keeps the invariant.
LEMMA PageKeeps ==
    ASSUME PagesInv, NEW p \in Pages, NEW pg \in PageStates,
           page' = [page EXCEPT ![p] = pg],
           UNCHANGED <<kind, stored, inForce>>, cache' \in {cache, stored},
           typedNow' \subseteq Pages,
           secretNow' \in SUBSET Pages, secretNow \ {p} \subseteq secretNow',
           Tracked(p, pg, secretNow')
    PROVE  PagesInv'
<1>1. PagesTypeOK'
      BY DEF PagesInv, PagesTypeOK
<1>2. InForceIsStored'
      BY DEF PagesInv, InForceIsStored
<1>3. SecretsTracked'
      BY DEF PagesInv, PagesTypeOK, SecretsTracked, Tracked
<1>4. QED
      BY <1>1, <1>2, <1>3 DEF PagesInv
\* Typing, with or without a secret, leaves the request as it is.
LEMMA TypingKeeps ==
    ASSUME PagesInv, NEW p \in Pages,
           Open(p) \/ (\E v \in Inputs : Type(p, v)) \/ TypeSecret(p)
    PROVE  PagesInv'
<1>1. page[p] \in PageStates /\ Tracked(p, page[p], secretNow)
      BY DEF PagesInv, PagesTypeOK, SecretsTracked
<1>2. secretNow \subseteq Pages /\ typedNow \subseteq Pages
      BY DEF PagesInv, PagesTypeOK
<1>3. CASE Open(p)
  <2> DEFINE pg == [page[p] EXCEPT !.at = "editing", !.data = Current.form, !.form = Current.form]
  <2>1. Current \in {cache, stored} /\ Current.form \in Values
        BY DEF Current, PagesInv, PagesTypeOK, Records
  <2>2. pg \in PageStates
        BY <2>1, <1>1 DEF PageStates, Inputs
  <2>3. Tracked(p, pg, secretNow)
        BY <1>1, <1>3 DEF Tracked, PageStates, Open
  <2>4. /\ page' = [page EXCEPT ![p] = pg]
        /\ UNCHANGED <<kind, stored, inForce, typedNow, secretNow>>
        /\ cache' \in {cache, stored}
        BY <1>3, <2>1 DEF Open, typed
  <2> HIDE DEF pg
  <2> QED
      BY <2>2, <2>3, <2>4, <1>2, PageKeeps
<1>4. CASE \E v \in Inputs : Type(p, v)
  <2>1. PICK v \in Inputs : Type(p, v)
        BY <1>4
  <2> DEFINE pg == [page[p] EXCEPT !.form = v]
  <2>2. pg \in PageStates
        BY <1>1, FieldsSet
  <2>3. Tracked(p, pg, secretNow)
        BY <1>1 DEF Tracked, PageStates
  <2>4. /\ page' = [page EXCEPT ![p] = pg]
        /\ UNCHANGED <<kind, stored, cache, inForce, secretNow>>
        /\ typedNow' \subseteq Pages
        BY <2>1, <1>2 DEF Type, server
  <2> HIDE DEF pg
  <2> QED
      BY <2>2, <2>3, <2>4, <1>2, PageKeeps
<1>5. CASE TypeSecret(p)
  <2> DEFINE pg == [page[p] EXCEPT !.box = TRUE]
  <2>1. pg \in PageStates
        BY <1>1, FieldsSet
  <2>2. secretNow' = secretNow \cup {p} /\ page[p].at = "editing"
        BY <1>5 DEF TypeSecret
  <2>3. Tracked(p, pg, secretNow')
        BY <1>1, <2>2 DEF Tracked, PageStates
  <2>4. /\ page' = [page EXCEPT ![p] = pg]
        /\ UNCHANGED <<kind, stored, cache, inForce, typedNow>>
        BY <1>5 DEF TypeSecret, server
  <2> HIDE DEF pg
  <2> QED
      BY <2>1, <2>2, <2>3, <2>4, <1>2, PageKeeps
<1>6. QED
      BY <1>3, <1>4, <1>5

\* The buttons and the dialog: a page that is discarded or left while nothing
\* is saved has no secret any more, one that is left while it saves has only
\* the one it sent.
LEMMA ClickingKeeps ==
    ASSUME PagesInv, NEW p \in Pages,
           \/ Discard(p) \/ Save(p) \/ Leave(p) \/ AskLeave(p)
           \/ Stay(p) \/ DiscardAndLeave(p) \/ SaveAndLeave(p)
    PROVE  PagesInv'
<1>1. page[p] \in PageStates /\ Tracked(p, page[p], secretNow)
      BY DEF PagesInv, PagesTypeOK, SecretsTracked
<1>2. secretNow \subseteq Pages /\ typedNow \subseteq Pages
      BY DEF PagesInv, PagesTypeOK
<1>3. UNCHANGED <<kind, stored, cache, inForce>> /\ typedNow' \subseteq Pages
      BY <1>2 DEF Discard, Save, Leave, AskLeave, Stay, DiscardAndLeave, SaveAndLeave,
                  server, typed, Forgotten
<1>4. ASSUME NEW pg \in PageStates, page' = [page EXCEPT ![p] = pg],
             secretNow' \in {secretNow, secretNow \ {p}}, Tracked(p, pg, secretNow')
      PROVE  PagesInv'
      BY <1>2, <1>3, <1>4, PageKeeps
<1>5. CASE Discard(p)
  <2>1. Tracked(p, Reset(page[p]), secretNow')
        BY <1>1, <1>5 DEF Discard, Bar, Saving, Tracked, Reset, PageStates
  <2> QED
      BY <2>1, <1>1, <1>4, <1>5, FieldsSet DEF Discard, Forgotten
<1>6. CASE Save(p)
  <2>1. Tracked(p, Asked(page[p]), secretNow)
        BY <1>1 DEF Tracked, Asked, PageStates
  <2> QED
      BY <2>1, <1>1, <1>4, <1>6, FieldsSet DEF Save, typed
<1>7. CASE Leave(p)
  <2>1. Tracked(p, Left(page[p]), secretNow)
        BY <1>1 DEF Tracked, Left, Unopened, PageStates
  <2> QED
      BY <2>1, <1>1, <1>4, <1>7, FieldsSet DEF Leave
<1>8. CASE AskLeave(p) \/ Stay(p)
  <2>1. PICK v \in {"asking", "editing"} : page' = [page EXCEPT ![p] = [page[p] EXCEPT !.at = v]]
        BY <1>8 DEF AskLeave, Stay
  <2>2. Tracked(p, [page[p] EXCEPT !.at = v], secretNow)
        BY <1>1 DEF Tracked, PageStates
  <2>3. [page[p] EXCEPT !.at = v] \in PageStates
        BY <1>1, FieldsSet
  <2> QED
      BY <2>1, <2>2, <2>3, <1>4, <1>8 DEF AskLeave, Stay, typed
<1>9. CASE DiscardAndLeave(p)
  <2>1. Tracked(p, Left(page[p]), secretNow')
        BY <1>1, <1>9 DEF DiscardAndLeave, Dialog, Saving, Tracked, Left, Unopened, PageStates
  <2> QED
      BY <2>1, <1>1, <1>4, <1>9, FieldsSet DEF DiscardAndLeave, Forgotten
<1>10. CASE SaveAndLeave(p)
  <2>1. Tracked(p, [Asked(page[p]) EXCEPT !.away = TRUE], secretNow)
        BY <1>1 DEF Tracked, Asked, PageStates
  <2> QED
      BY <2>1, <1>1, <1>4, <1>10, FieldsSet DEF SaveAndLeave, typed
<1>11. QED
      BY <1>5, <1>6, <1>7, <1>8, <1>9, <1>10
-------------------------------------------------------------------------------
(* The server, and what a page makes of its answer. *)

\* What is merged is read through the cache, which holds what is stored.
LEMMA MergedIsStored ==
    ASSUME PagesInv, NEW p \in Pages, Accepts(p)
    PROVE  /\ Current = stored
           /\ Merged(p) \in Records
           /\ Merged(p).form = page[p].body
           /\ Merged(p).secret = IF page[p].sent THEN p ELSE stored.secret
           /\ Merged(p).library = stored.library
<1>1. Current = stored /\ stored \in Records
      BY DEF PagesInv, PagesTypeOK, InForceIsStored, Current
<1>2. QED
      BY <1>1 DEF Merged, Accepts, Records

LEMMA ServingKeeps ==
    ASSUME PagesInv, NEW p \in Pages, ServeSave(p) \/ RefuseSave(p)
    PROVE  PagesInv'
<1>1. page[p] \in PageStates /\ Tracked(p, page[p], secretNow)
      BY DEF PagesInv, PagesTypeOK, SecretsTracked
<1>2. CASE ServeSave(p)
  <2>1. /\ stored' = Merged(p) /\ Merged(p) \in Records
        /\ Merged(p).form = page[p].body /\ page[p].body \in Values
        BY <1>2, MergedIsStored DEF ServeSave, Accepts
  <2>2. /\ cache' = None
        /\ inForce' = IF kind = "config" THEN page[p].body ELSE inForce
        /\ UNCHANGED <<kind, typedNow, secretNow>>
        BY <1>2 DEF ServeSave, CacheAfter, typed
  <2>3. page' = [page EXCEPT ![p] = [page[p] EXCEPT !.save = "stored"]]
        BY <1>2 DEF ServeSave
  <2>4. [page[p] EXCEPT !.save = "stored"] \in PageStates
        BY <1>1, FieldsSet
  <2>5. PagesTypeOK'
        BY <2>1, <2>2, <2>3, <2>4 DEF PagesInv, PagesTypeOK
  <2>6. InForceIsStored'
        BY <2>1, <2>2 DEF PagesInv, InForceIsStored
  <2>7. Tracked(p, [page[p] EXCEPT !.save = "stored"], secretNow)
        BY <1>1, <2>1 DEF Tracked, PageStates
  <2>8. SecretsTracked'
        BY <2>2, <2>3, <2>7 DEF PagesInv, PagesTypeOK, SecretsTracked, Tracked
  <2> QED
      BY <2>5, <2>6, <2>8 DEF PagesInv
<1>3. CASE RefuseSave(p)
  <2> DEFINE pg == [page[p] EXCEPT !.save = "refused"]
  <2>1. pg \in PageStates
        BY <1>1, FieldsSet
  <2>2. Tracked(p, pg, secretNow)
        BY <1>1, <1>3 DEF Tracked, PageStates, RefuseSave
  <2>3. /\ page' = [page EXCEPT ![p] = pg]
        /\ UNCHANGED <<kind, stored, inForce, typedNow, secretNow>>
        /\ cache' \in {cache, stored}
        BY <1>3 DEF RefuseSave, typed, Current
  <2> HIDE DEF pg
  <2> QED
      BY <2>1, <2>2, <2>3, PageKeeps DEF PagesInv, PagesTypeOK
<1>4. QED
      BY <1>2, <1>3

\* Whatever becomes of a save, the page has no request afterwards; where it was
\* stored, the secret it carried is off the record and out of the box.
LEMMA AnswersKeep ==
    ASSUME PagesInv, NEW p \in Pages, Answered(p) \/ Failed(p)
    PROVE  PagesInv'
<1>1. page[p] \in PageStates /\ Tracked(p, page[p], secretNow)
      BY DEF PagesInv, PagesTypeOK, SecretsTracked
<1>2. /\ secretNow \subseteq Pages /\ typedNow \subseteq Pages
      /\ stored \in Records
      BY DEF PagesInv, PagesTypeOK
<1>3. Idle(page[p]) \in PageStates
      BY <1>1, FieldsSet
<1>4. CASE Answered(p)
  <2> DEFINE pg == SavedOn(page[p])
  <2>1. page[p].save = "stored" /\ page[p].body \in Values /\ stored.form \in Values
        BY <1>1, <1>2, <1>4 DEF Answered, Tracked, Records
  <2> DEFINE shown == IF kind = "group" THEN stored.form ELSE page[p].body
  <2>2. shown \in Values
        BY <2>1
  <2> HIDE DEF shown
  <2>3. Synced(page[p], shown) \in PageStates
        BY <1>1, <2>2, FieldsSet DEF Inputs
  <2>4. /\ pg \in PageStates
        /\ ~pg.box /\ ~pg.sent /\ pg.save = "idle"
    <3>1. CASE page[p].at = "left"
      <4>1. pg = Idle(page[p])
            BY <3>1 DEF SavedOn
      <4>2. ~page[p].box
            BY <3>1, <1>1 DEF Tracked
      <4> QED
          BY <4>1, <4>2, <1>1, <1>3 DEF Idle, PageStates
    <3>2. CASE page[p].at # "left" /\ page[p].away
      <4>1. pg = Left(Idle(page[p]))
            BY <3>2 DEF SavedOn
      <4>2. pg \in PageStates
            BY <4>1, <1>3, FieldsSet
      <4>3. Idle(page[p]).save = "idle" /\ ~Idle(page[p]).sent
            BY <1>1 DEF Idle, PageStates
      <4> QED
          BY <4>1, <4>2, <4>3 DEF Left, Unopened
    <3>3. CASE page[p].at # "left" /\ ~page[p].away
      <4>1. pg = Idle(Synced(page[p], shown))
            BY <3>3 DEF SavedOn, shown
      <4>2. pg \in PageStates
            BY <4>1, <2>3, FieldsSet
      <4> QED
          BY <4>1, <4>2, <1>1 DEF Synced, Idle, PageStates
    <3> QED
        BY <3>1, <3>2, <3>3
  <2>5. /\ page' = [page EXCEPT ![p] = pg]
        /\ UNCHANGED <<kind, stored, cache, inForce>>
        /\ typedNow' = typedNow \ {p} /\ secretNow' = secretNow \ {p}
        BY <1>4 DEF Answered, Forgotten, server
  <2> HIDE DEF pg
  <2>6. Tracked(p, pg, secretNow')
        BY <2>4 DEF Tracked
  <2> QED
      BY <2>4, <2>5, <2>6, <1>2, PageKeeps
<1>5. CASE Failed(p)
  <2>1. Tracked(p, Idle(page[p]), secretNow)
        BY <1>1 DEF Tracked, Idle, PageStates
  <2>2. /\ page' = [page EXCEPT ![p] = Idle(page[p])]
        /\ UNCHANGED <<kind, stored, cache, inForce, typedNow, secretNow>>
        BY <1>5 DEF Failed, server, typed
  <2> QED
      BY <2>1, <2>2, <1>2, <1>3, PageKeeps
<1>6. QED
      BY <1>4, <1>5

LEMMA PagesNextKeeps == PagesInv /\ [PagesNext]_pagesVars => PagesInv'
<1> SUFFICES ASSUME PagesInv, [PagesNext]_pagesVars PROVE PagesInv'
    OBVIOUS
<1>1. CASE UNCHANGED pagesVars
      BY <1>1 DEF pagesVars, server, typed, PagesInv, PagesTypeOK, InForceIsStored, SecretsTracked, Tracked
<1>2. CASE SaveLibrary
  <2>1. /\ stored' = [stored EXCEPT !.library = TRUE] /\ cache' = None
        /\ kind # "config"
        /\ UNCHANGED <<kind, inForce, page, typedNow, secretNow>>
        BY <1>2 DEF SaveLibrary, CacheAfter, typed, Current, PagesInv, InForceIsStored
  <2>2. stored' \in Records
        BY <2>1 DEF PagesInv, PagesTypeOK, Records
  <2> QED
      BY <2>1, <2>2 DEF PagesInv, PagesTypeOK, InForceIsStored, SecretsTracked, Tracked
<1>3. CASE Read \/ Restart
  <2>1. stored.form \in Values
        BY DEF PagesInv, PagesTypeOK, Records
  <2> QED
      BY <1>3, <2>1 DEF Read, Restart, typed, PagesInv, PagesTypeOK, InForceIsStored,
         SecretsTracked, Tracked
<1>4. CASE PagesNext /\ ~(SaveLibrary \/ Read \/ Restart)
      BY <1>4, TypingKeeps, ClickingKeeps, ServingKeeps, AnswersKeep DEF PagesNext
<1>5. QED
      BY <1>1, <1>2, <1>3, <1>4

-------------------------------------------------------------------------------
(* Theorems *)

\* The invariant: what is stored was valid and is in force, and no page holds a
\* secret that was saved or discarded.
THEOREM PagesSafe == PagesSpec => []PagesInv
<1>1. QED
      BY PagesInitHolds, PagesNextKeeps, PTL DEF PagesSpec

\* InForceIsStored for all instances: a save is in force when it is answered,
\* and a restart changes nothing.
THEOREM InForceHolds == PagesSpec => []InForceIsStored
<1>1. PagesInv => InForceIsStored
      BY DEF PagesInv
<1>2. QED
      BY <1>1, PagesSafe, PTL

\* UnsentIsKept for all instances: a save from an old page, or a second save,
\* brings no old secret back, and no page reverts the library.
THEOREM SecretsHold == PagesSpec => UnsentIsKept
<1> DEFINE Kept == /\ stored'.secret # stored.secret => stored'.secret \in secretNow
                   /\ stored.library => stored'.library
<1>1. PagesInv /\ [PagesNext]_pagesVars => [Kept]_pagesVars
  <2> SUFFICES ASSUME PagesInv, PagesNext PROVE Kept
      OBVIOUS
  <2>1. ASSUME NEW p \in Pages, ServeSave(p) PROVE Kept
    <3>1. /\ stored'.secret = IF page[p].sent THEN p ELSE stored.secret
          /\ stored'.library = stored.library
          BY <2>1, MergedIsStored DEF ServeSave
    <3>2. page[p].sent => p \in secretNow
          BY DEF PagesInv, SecretsTracked, Tracked
    <3> QED
        BY <3>1, <3>2
  <2>2. CASE SaveLibrary
    <3>1. stored' = [stored EXCEPT !.library = TRUE] /\ stored \in Records
          BY <2>2 DEF SaveLibrary, Current, PagesInv, PagesTypeOK, InForceIsStored
    <3> QED
        BY <3>1 DEF Records
  <2>3. CASE UNCHANGED stored
        BY <2>3
  <2>4. (\E p \in Pages : ServeSave(p)) \/ SaveLibrary \/ UNCHANGED stored
        BY DEF PagesNext, Open, Type, TypeSecret, Discard, Save, Leave, AskLeave, Stay,
           DiscardAndLeave, SaveAndLeave, RefuseSave, Answered, Failed, Read, Restart, server
  <2> QED
      BY <2>1, <2>2, <2>3, <2>4
<1>2. QED
      BY <1>1, PagesSafe, PTL DEF PagesSpec, UnsentIsKept

-------------------------------------------------------------------------------
(* Typed input *)

\* What is on record as typed is on a page that somebody still has, and a save
\* under way carries it: what is typed later is not on record.
TypedTracked ==
    \A p \in typedNow :
        /\ page[p].at \in {"editing", "asking"}
        /\ Saving(p) => page[p].body = page[p].form

\* How the visit p may change while its input is on record (see TypedStays).
TypedKept(p) ==
    \/ page'[p].form = page[p].form /\ page'[p].at # "left"
    \/ page'[p] = [page[p] EXCEPT !.form = page'[p].form]
    \/ page'[p] = Reset(page[p])
    \/ page[p].at = "asking" /\ page'[p].at = "left" /\ ~Saving(p)
    \/ page[p].at = "editing" /\ page'[p].at = "left" /\ (Saving(p) \/ ~Dirty(p))
    \/ page[p].save = "stored" /\ page[p].body = page[p].form

\* A step of one visit that obeys both rules leaves the other visits alone.
LEMMA OneVisitKeeps ==
    ASSUME PagesTypeOK, TypedTracked, NEW p \in Pages, NEW pg,
           page' = [page EXCEPT ![p] = pg], typedNow' \subseteq typedNow \cup {p},
           p \in typedNow =>
               \/ pg.form = page[p].form /\ pg.at # "left"
               \/ pg = [page[p] EXCEPT !.form = pg.form]
               \/ pg = Reset(page[p])
               \/ page[p].at = "asking" /\ pg.at = "left" /\ ~Saving(p)
               \/ page[p].at = "editing" /\ pg.at = "left" /\ (Saving(p) \/ ~Dirty(p))
               \/ page[p].save = "stored" /\ page[p].body = page[p].form,
           p \in typedNow' =>
               /\ pg.at \in {"editing", "asking"}
               /\ pg.save # "idle" => pg.body = pg.form
    PROVE  TypedTracked' /\ \A q \in typedNow : TypedKept(q)
<1>1. page \in [Pages -> PageStates] /\ typedNow \subseteq Pages
      BY DEF PagesTypeOK
<1>2. page'[p] = pg /\ \A q \in Pages : q # p => page'[q] = page[q]
      BY <1>1
<1>3. ASSUME NEW q \in typedNow, q # p PROVE TypedKept(q)
      BY <1>1, <1>2, <1>3 DEF TypedTracked, TypedKept
<1>4. p \in typedNow => TypedKept(p)
      BY <1>2 DEF TypedKept
<1>5. ASSUME NEW q \in typedNow' PROVE page'[q].at \in {"editing", "asking"}
                                      /\ (page'[q].save # "idle" => page'[q].body = page'[q].form)
      BY <1>1, <1>2, <1>5 DEF TypedTracked, Saving
<1>6. TypedTracked'
      BY <1>5 DEF TypedTracked, Saving
<1> QED
      BY <1>3, <1>4, <1>6

\* The administrator's steps.
LEMMA AdministratorKeeps ==
    ASSUME PagesTypeOK, TypedTracked, NEW p \in Pages,
           \/ Open(p) \/ TypeSecret(p) \/ Discard(p) \/ Save(p)
           \/ \E v \in Inputs : Type(p, v)
           \/ Leave(p) \/ AskLeave(p) \/ Stay(p) \/ DiscardAndLeave(p) \/ SaveAndLeave(p)
    PROVE  TypedTracked' /\ \A q \in typedNow : TypedKept(q)
<1>1. page \in [Pages -> PageStates] /\ page[p] \in PageStates /\ typedNow \subseteq Pages
      BY DEF PagesTypeOK
<1>2. p \in typedNow => /\ page[p].at \in {"editing", "asking"}
                        /\ page[p].save # "idle" => page[p].body = page[p].form
      BY DEF TypedTracked, Saving
<1>3. CASE Open(p)
  <2> DEFINE pg == [page[p] EXCEPT !.at = "editing", !.data = Current.form, !.form = Current.form]
  <2>1. page' = [page EXCEPT ![p] = pg] /\ p \notin typedNow /\ typedNow' = typedNow
        BY <1>1, <1>2, <1>3 DEF Open, typed
  <2> QED
        BY <2>1, OneVisitKeeps
<1>4. CASE TypeSecret(p)
  <2> DEFINE pg == [page[p] EXCEPT !.box = TRUE]
  <2>1. page' = [page EXCEPT ![p] = pg] /\ typedNow' = typedNow
        BY <1>1, <1>4 DEF TypeSecret
  <2>2. pg.form = page[p].form /\ pg.at = "editing" /\ pg.save = page[p].save
        /\ pg.body = page[p].body
        BY <1>1, <1>4 DEF TypeSecret, PageStates
  <2> QED
        BY <1>2, <2>1, <2>2, OneVisitKeeps
<1>5. CASE Discard(p)
  <2>1. page' = [page EXCEPT ![p] = Reset(page[p])] /\ typedNow' = typedNow \ {p}
        BY <1>1, <1>5 DEF Discard, Forgotten
  <2> QED
        BY <2>1, OneVisitKeeps
<1>6. CASE Save(p)
  <2>1. page' = [page EXCEPT ![p] = Asked(page[p])] /\ typedNow' = typedNow
        BY <1>1, <1>6 DEF Save, typed
  <2>2. /\ Asked(page[p]).form = page[p].form /\ Asked(page[p]).at = "editing"
        /\ Asked(page[p]).body = page[p].form
        BY <1>1, <1>6 DEF Save, Bar, Asked, PageStates
  <2> QED
        BY <2>1, <2>2, OneVisitKeeps
<1>7. CASE \E v \in Inputs : Type(p, v)
  <2>1. PICK v \in Inputs : Type(p, v)
        BY <1>7
  <2> DEFINE pg == [page[p] EXCEPT !.form = v]
  <2>2. page' = [page EXCEPT ![p] = pg] /\ page[p].at = "editing"
        BY <1>1, <2>1 DEF Type
  <2>3. /\ pg.form = v /\ pg.at = "editing" /\ pg.save = page[p].save
        /\ pg = [page[p] EXCEPT !.form = pg.form]
        BY <1>1, <2>2 DEF PageStates
  <2>4. /\ typedNow' \subseteq typedNow \cup {p}
        /\ p \in typedNow' => page[p].save = "idle"
        BY <2>1 DEF Type, Locked, Saving
  <2> QED
        BY <2>2, <2>3, <2>4, OneVisitKeeps
<1>8. CASE Leave(p)
  <2>1. page' = [page EXCEPT ![p] = Left(page[p])] /\ typedNow' = typedNow \ {p}
        BY <1>1, <1>8 DEF Leave
  <2>2. page[p].at = "editing" /\ Left(page[p]).at = "left" /\ (Saving(p) \/ ~Dirty(p))
        BY <1>8 DEF Leave, Left, Stopped, Unopened
  <2> QED
        BY <2>1, <2>2, OneVisitKeeps
<1>9. CASE AskLeave(p) \/ Stay(p)
  <2>1. PICK at \in {"editing", "asking"} : page' = [page EXCEPT ![p].at = at] /\ typedNow' = typedNow
        BY <1>9 DEF AskLeave, Stay, typed
  <2> DEFINE pg == [page[p] EXCEPT !.at = at]
  <2>2. page' = [page EXCEPT ![p] = pg]
        BY <1>1, <2>1
  <2>3. pg.form = page[p].form /\ pg.at = at /\ pg.save = page[p].save /\ pg.body = page[p].body
        BY <1>1 DEF PageStates
  <2> QED
        BY <1>2, <2>1, <2>2, <2>3, OneVisitKeeps
<1>10. CASE DiscardAndLeave(p)
  <2>1. page' = [page EXCEPT ![p] = Left(page[p])] /\ typedNow' = typedNow \ {p}
        BY <1>1, <1>10 DEF DiscardAndLeave, Forgotten
  <2>2. page[p].at = "asking" /\ Left(page[p]).at = "left" /\ ~Saving(p)
        BY <1>10 DEF DiscardAndLeave, Dialog, Left, Unopened
  <2> QED
        BY <2>1, <2>2, OneVisitKeeps
<1>11. CASE SaveAndLeave(p)
  <2> DEFINE pg == [Asked(page[p]) EXCEPT !.away = TRUE]
  <2>1. page' = [page EXCEPT ![p] = pg] /\ typedNow' = typedNow
        BY <1>1, <1>11 DEF SaveAndLeave, typed
  <2>2. pg.form = page[p].form /\ pg.at = "asking" /\ pg.body = page[p].form
        BY <1>1, <1>11 DEF SaveAndLeave, Dialog, Asked, PageStates
  <2> QED
        BY <2>1, <2>2, OneVisitKeeps
<1> QED
      BY <1>3, <1>4, <1>5, <1>6, <1>7, <1>8, <1>9, <1>10, <1>11

\* The server's steps and its answers.
LEMMA ServerKeeps ==
    ASSUME PagesTypeOK, TypedTracked, NEW p \in Pages,
           ServeSave(p) \/ RefuseSave(p) \/ Answered(p) \/ Failed(p)
    PROVE  TypedTracked' /\ \A q \in typedNow : TypedKept(q)
<1>1. page \in [Pages -> PageStates] /\ page[p] \in PageStates /\ typedNow \subseteq Pages
      BY DEF PagesTypeOK
<1>2. p \in typedNow => /\ page[p].at \in {"editing", "asking"}
                        /\ page[p].save # "idle" => page[p].body = page[p].form
      BY DEF TypedTracked, Saving
<1>3. CASE ServeSave(p) \/ RefuseSave(p)
  <2>1. PICK save \in {"stored", "refused"} :
            page' = [page EXCEPT ![p].save = save] /\ typedNow' = typedNow /\ page[p].save = "asked"
        BY <1>3 DEF ServeSave, RefuseSave, typed
  <2> DEFINE pg == [page[p] EXCEPT !.save = save]
  <2>2. page' = [page EXCEPT ![p] = pg]
        BY <1>1, <2>1
  <2>3. pg.form = page[p].form /\ pg.at = page[p].at /\ pg.body = page[p].body
        BY <1>1 DEF PageStates
  <2> QED
        BY <1>2, <2>1, <2>2, <2>3, OneVisitKeeps
<1>4. CASE Answered(p)
  <2>1. /\ page' = [page EXCEPT ![p] = SavedOn(page[p])] /\ typedNow' = typedNow \ {p}
        /\ page[p].save = "stored"
        BY <1>1, <1>4 DEF Answered, Forgotten
  <2> QED
        BY <1>2, <2>1, OneVisitKeeps
<1>5. CASE Failed(p)
  <2>1. page' = [page EXCEPT ![p] = Idle(page[p])] /\ typedNow' = typedNow
        BY <1>1, <1>5 DEF Failed, typed
  <2>2. /\ Idle(page[p]).form = page[p].form /\ Idle(page[p]).at = page[p].at
        /\ Idle(page[p]).save = "idle"
        BY <1>1 DEF Idle, PageStates
  <2> QED
        BY <1>2, <2>1, <2>2, OneVisitKeeps
<1> QED
      BY <1>3, <1>4, <1>5

\* TypedStays for all instances: what was typed while nothing was being saved
\* goes only in the ways an administrator means it to, or with a save under way.
THEOREM TypedHolds == PagesSpec => TypedStays
<1>1. PagesInit => TypedTracked
      BY DEF PagesInit, TypedTracked
<1>2. PagesTypeOK /\ TypedTracked /\ [PagesNext]_pagesVars => TypedTracked' /\ [\A p \in typedNow : TypedKept(p)]_pagesVars
  <2> SUFFICES ASSUME PagesTypeOK, TypedTracked, [PagesNext]_pagesVars
               PROVE  TypedTracked' /\ [\A p \in typedNow : TypedKept(p)]_pagesVars
      OBVIOUS
  <2>1. ASSUME SaveLibrary \/ Read \/ Restart
        PROVE  TypedTracked' /\ \A p \in typedNow : TypedKept(p)
        BY <2>1 DEF SaveLibrary, Read, Restart, typed, TypedTracked, Saving, TypedKept
  <2>2. CASE UNCHANGED pagesVars
        BY <2>2 DEF pagesVars, typed, TypedTracked, Saving
  <2> QED
        BY <2>1, <2>2, AdministratorKeeps, ServerKeeps DEF PagesNext
<1>3. PagesInv => PagesTypeOK
      BY DEF PagesInv
<1> QED
      BY <1>1, <1>2, <1>3, PagesSafe, PTL DEF PagesSpec, TypedStays, TypedKept
===============================================================================
