--------------------------- MODULE PublishGateProofs ---------------------------
(***************************************************************************)
(* The gate's invariant, and what a ban and a closed event mean, for any   *)
(* clients, accounts, names, events and keys.                              *)
(***************************************************************************)
EXTENDS PublishGate, TLAPS

\* Type, wiring and names are inductive together: the name is right because the
\* account recorded for an upstream is the one that was on the connection.
GateInv == TypeOK /\ Wired /\ OwnNameOnly

\* safeStreamName leaves every account's email as it is.
NamesKept == \A a \in Accounts : Safe[a] = a

-------------------------------------------------------------------------------
\* A name the gateway accepts is, in lower case, the safe form of the account.
LEMMA AskedIsOwn ==
    ASSUME TypeOK, NEW c \in Clients, NEW n \in Names \cup {None},
           user[c] # None, OwnName(c, n)
    PROVE  /\ user[c] \in Accounts
           /\ Candidate(c, n) \in Names
           /\ Lower[Candidate(c, n)] = Lower[Safe[user[c]]]
<1>1. user[c] \in Accounts /\ user[c] \in Names
  BY GateAssumption DEF TypeOK
<1>2. Asked(c, n) \in Names
  BY <1>1 DEF Asked
<1>3. Lower[Safe[Asked(c, n)]] = Safe[Lower[Asked(c, n)]]
  BY <1>2, GateAssumption
<1>4. Lower[Safe[user[c]]] = Safe[Lower[user[c]]]
  BY <1>1, GateAssumption
<1> QED
  BY <1>1, <1>2, <1>3, <1>4, GateAssumption DEF Candidate, OwnName

\* The goroutine of c returns with nothing under way at SRS.
LEMMA ReturnKeeps ==
    ASSUME GateInv, NEW c \in Clients, NEW closed, Return(c, closed),
           \A x \in Upstreams : ups[x].conn = c => ups[x].state # "asking",
           \A x \in Upstreams : x \in closed => ups[x].conn = c
    PROVE  GateInv'
<1> USE DEF GateInv
<1>1. \A x \in Upstreams :
          \/ ups'[x] = Free
          \/ /\ ups[x].conn = c
             /\ ups[x].state # "gone"
             /\ ups'[x] = [ups[x] EXCEPT !.conn = None]
          \/ ups[x].conn # c /\ x \notin closed /\ ups'[x] = ups[x]
  BY DEF Return, Released
<1>2. ups' \in [Upstreams -> UpRecords]
  <2>1. Free \in UpRecords
    BY DEF Free, UpRecords, UpStates
  <2>2. ASSUME NEW x \in Upstreams
        PROVE  ups'[x] \in UpRecords
    BY <1>1, <2>1 DEF TypeOK, UpRecords, UpStates
  <2>3. ups' = [x \in Upstreams |-> ups'[x]]
    BY DEF Return, Released
  <2> QED
    BY <2>2, <2>3
<1>3. TypeOK'
  BY <1>2 DEF TypeOK, Return, ForgetKills, Stages, Live, eventVars
<1>4. Wired'
  <2>1. ASSUME NEW x \in Upstreams
        PROVE  /\ ups'[x].conn # None =>
                     /\ ups'[x].state # "free"
                     /\ stage'[ups'[x].conn] = "joined"
                     /\ user'[ups'[x].conn] = ups'[x].who
               /\ ups'[x].state = "asking" =>
                     ups'[x].conn # None /\ dialed'[ups'[x].conn] = x
               /\ ups'[x].state = "gone" => ups'[x].conn # None
               /\ ups'[x].state = "free" => ups'[x] = Free
    <3>1. CASE ups'[x] = Free
      BY <3>1 DEF Free
    <3>2. CASE /\ ups[x].conn = c
               /\ ups[x].state # "gone"
               /\ ups'[x] = [ups[x] EXCEPT !.conn = None]
      <4>1. ups[x] \in UpRecords
        BY DEF TypeOK
      <4>2. ups'[x].conn = None /\ ups'[x].state = ups[x].state
        BY <3>2, <4>1 DEF UpRecords
      <4>3. ups[x].state \notin {"asking", "gone", "free"}
        BY <3>2, GateAssumption DEF Wired
      <4> QED
        BY <4>2, <4>3
    <3>3. CASE ups[x].conn # c /\ x \notin closed /\ ups'[x] = ups[x]
      BY <3>3 DEF Wired, Return, TypeOK, UpRecords
    <3> QED
      BY <1>1, <3>1, <3>2, <3>3
  <2>2. ASSUME NEW d \in Clients
        PROVE  /\ dialed'[d] # None => ups'[dialed'[d]].conn = d
               /\ cur'[d] # None => ups'[cur'[d]].conn = d /\ cur'[d] # dialed'[d]
    <3>1. CASE d = c
      BY <3>1 DEF Return, TypeOK
    <3>2. CASE d # c
      <4>1. dialed'[d] = dialed[d] /\ cur'[d] = cur[d]
        BY <3>2 DEF Return, TypeOK
      <4>2. ASSUME NEW x \in Upstreams, ups[x].conn = d
            PROVE  ups'[x].conn = d
        <5>1. x \notin closed
          BY <3>2, <4>2
        <5> QED
          BY <3>2, <4>2, <5>1 DEF Return, Released
      <4> QED
        BY <4>1, <4>2 DEF Wired, TypeOK
    <3> QED
      BY <3>1, <3>2
  <2> QED
    BY <2>1, <2>2 DEF Wired
<1>5. OwnNameOnly'
  <2> SUFFICES ASSUME NEW x \in Upstreams, InUse(x)'
               PROVE  /\ ups'[x].who # None /\ ups'[x].name # None
                      /\ Lower[ups'[x].name] = Lower[Safe[ups'[x].who]]
    BY DEF OwnNameOnly
  <2>1. ups'[x] # Free
    BY DEF InUse, Free
  <2>2. /\ ups'[x].state = ups[x].state
        /\ ups'[x].who = ups[x].who
        /\ ups'[x].name = ups[x].name
    BY <1>1, <2>1 DEF TypeOK, UpRecords
  <2> QED
    BY <2>2 DEF OwnNameOnly, InUse
<1> QED
  BY <1>3, <1>4, <1>5

\* SRS closes an upstream that was in use.
LEMMA EndedKeeps ==
    ASSUME GateInv, NEW x \in Upstreams, InUse(x), Ended(x),
           UNCHANGED <<connVars, eventVars, bans>>
    PROVE  GateInv'
<1> USE DEF GateInv
<1>1. \A y \in Upstreams : y # x => ups'[y] = ups[y]
  BY DEF Ended, TypeOK
<1>2. ups[x] \in UpRecords /\ ups'[x] \in UpRecords
  BY DEF Ended, TypeOK, UpRecords, UpStates, Free
<1>3. \/ ups[x].conn = None /\ ups'[x] = Free
      \/ /\ ups[x].conn # None
         /\ ups'[x].state = "gone"
         /\ ups'[x].conn = ups[x].conn
         /\ ups'[x].who = ups[x].who
  BY <1>2 DEF Ended, TypeOK, UpRecords
<1>4. TypeOK'
  <2>1. ups' \in [Upstreams -> UpRecords]
    BY <1>1, <1>2 DEF Ended, TypeOK
  <2> QED
    BY <2>1 DEF TypeOK, Ended, ForgetKills, Live, connVars, eventVars
<1>5. Wired'
  <2>1. ASSUME NEW y \in Upstreams
        PROVE  /\ ups'[y].conn # None =>
                     /\ ups'[y].state # "free"
                     /\ stage'[ups'[y].conn] = "joined"
                     /\ user'[ups'[y].conn] = ups'[y].who
               /\ ups'[y].state = "asking" =>
                     ups'[y].conn # None /\ dialed'[ups'[y].conn] = y
               /\ ups'[y].state = "gone" => ups'[y].conn # None
               /\ ups'[y].state = "free" => ups'[y] = Free
    <3>1. CASE y # x
      BY <1>1, <3>1 DEF Wired, connVars
    <3>2. CASE y = x
      BY <1>3, <3>2 DEF Wired, connVars, Free
    <3> QED
      BY <3>1, <3>2
  <2>2. \A c \in Clients, y \in Upstreams :
            ups[y].conn = c => ups'[y].conn = c
    BY <1>1, <1>3, GateAssumption
  <2>3. ASSUME NEW c \in Clients
        PROVE  /\ dialed'[c] # None => ups'[dialed'[c]].conn = c
               /\ cur'[c] # None => ups'[cur'[c]].conn = c /\ cur'[c] # dialed'[c]
    BY <2>2 DEF Wired, TypeOK, connVars
  <2> QED
    BY <2>1, <2>3 DEF Wired
<1>6. OwnNameOnly'
  BY <1>1, <1>3 DEF OwnNameOnly, InUse, Free
<1> QED
  BY <1>4, <1>5, <1>6

\* Steps of a client between connections touch nothing the invariant relates,
\* for there is no upstream of a client that is not joined.
LEMMA DanceKeeps ==
    ASSUME GateInv, NEW c \in Clients, stage[c] # "joined",
           stage' \in [Clients -> Stages],
           user' \in [Clients -> Accounts \cup {None}],
           \A d \in Clients : d # c => stage'[d] = stage[d] /\ user'[d] = user[d],
           UNCHANGED <<cur, dialed, ups, eventVars, banVars>>
    PROVE  GateInv'
<1> USE DEF GateInv
<1>1. TypeOK'
  BY DEF TypeOK, eventVars, banVars, Live
<1>2. \A x \in Upstreams : ups[x].conn # c
  BY GateAssumption DEF Wired
<1>3. \A x \in Upstreams : ups[x].conn \in Clients \cup {None}
  BY DEF TypeOK, UpRecords
<1>4. Wired'
  <2>1. ASSUME NEW x \in Upstreams
        PROVE  ups[x].conn # None =>
                   /\ stage'[ups[x].conn] = "joined"
                   /\ user'[ups[x].conn] = ups[x].who
    BY <1>2, <1>3 DEF Wired
  <2> QED
    BY <2>1 DEF Wired
<1>5. OwnNameOnly'
  BY DEF OwnNameOnly, InUse
<1> QED
  BY <1>1, <1>4, <1>5

\* A cleared publish opens an upstream under the account's own name.
LEMMA PublishKeeps ==
    ASSUME GateInv, NEW c \in Clients, NEW n \in Names \cup {None},
           NEW k \in Keys, Publish(c, n, k)
    PROVE  GateInv'
<1> USE DEF GateInv
<1>1. PICK e \in EventsOf(k), x \in Upstreams :
          /\ Cleared(c, n, e)
          /\ ups[x] = Free
          /\ dialed' = [dialed EXCEPT ![c] = x]
          /\ ups' = [ups EXCEPT ![x] =
                 [state |-> "asking", conn |-> c, who |-> user[c],
                  name |-> Candidate(c, n), key |-> k, event |-> e]]
  BY DEF Publish
<1>2. /\ user[c] \in Accounts
      /\ Candidate(c, n) \in Names
      /\ Lower[Candidate(c, n)] = Lower[Safe[user[c]]]
  BY <1>1, AskedIsOwn DEF Cleared
<1>3. /\ ups'[x].state = "asking" /\ ups'[x].conn = c
      /\ ups'[x].who = user[c] /\ ups'[x].name = Candidate(c, n)
  BY <1>1 DEF TypeOK
<1>4. \A y \in Upstreams : y # x => ups'[y] = ups[y]
  BY <1>1 DEF TypeOK
<1>5. UNCHANGED <<stage, user, cur, eventVars, banVars>> /\ Reading(c)
  BY DEF Publish
<1>6. TypeOK'
  <2>1. e \in Events
    BY DEF EventsOf
  <2>2. ups' \in [Upstreams -> UpRecords]
    BY <1>1, <1>2, <2>1 DEF TypeOK, UpRecords, UpStates
  <2>3. \A y \in Upstreams : Live(y) => Live(y)'
    BY <1>1, <1>4 DEF Live, Free
  <2> QED
    BY <1>1, <1>5, <2>2, <2>3 DEF TypeOK, eventVars, banVars
<1>7. Wired'
  <2>1. c # None
    BY GateAssumption
  <2>2. \A y \in Upstreams : ups[y].conn = c => y # x
    BY <1>1, <2>1 DEF Free
  <2>3. dialed'[c] = x /\ \A d \in Clients : d # c => dialed'[d] = dialed[d]
    BY <1>1 DEF TypeOK
  <2>4. ASSUME NEW y \in Upstreams
        PROVE  /\ ups'[y].conn # None =>
                     /\ ups'[y].state # "free"
                     /\ stage'[ups'[y].conn] = "joined"
                     /\ user'[ups'[y].conn] = ups'[y].who
               /\ ups'[y].state = "asking" =>
                     ups'[y].conn # None /\ dialed'[ups'[y].conn] = y
               /\ ups'[y].state = "gone" => ups'[y].conn # None
               /\ ups'[y].state = "free" => ups'[y] = Free
    <3>1. CASE y = x
      BY <1>3, <1>5, <2>1, <2>3, <3>1 DEF Reading
    <3>2. CASE y # x
      <4>1. ups[y].state = "asking" => ups[y].conn # c
        BY <1>5, GateAssumption DEF Wired, Reading
      <4>2. ups[y].conn \in Clients \cup {None}
        BY DEF TypeOK, UpRecords
      <4> QED
        BY <1>4, <1>5, <2>3, <3>2, <4>1, <4>2 DEF Wired
    <3> QED
      BY <3>1, <3>2
  <2>5. ASSUME NEW d \in Clients
        PROVE  /\ dialed'[d] # None => ups'[dialed'[d]].conn = d
               /\ cur'[d] # None => ups'[cur'[d]].conn = d /\ cur'[d] # dialed'[d]
    <3>1. \A y \in Upstreams : ups[y].conn = d => y # x /\ ups'[y].conn = d
      BY <1>1, <1>4, GateAssumption DEF Free
    <3>2. cur[d] # None => cur[d] # x /\ ups'[cur[d]].conn = d
      BY <3>1 DEF Wired, TypeOK
    <3>3. dialed[d] # None => ups'[dialed[d]].conn = d
      BY <3>1 DEF Wired, TypeOK
    <3> QED
      BY <1>3, <1>5, <2>3, <3>2, <3>3 DEF Wired
  <2> QED
    BY <2>4, <2>5 DEF Wired
<1>8. OwnNameOnly'
  <2>1. user[c] # None /\ Candidate(c, n) # None
    BY <1>1, <1>2, GateAssumption DEF Cleared
  <2> QED
    BY <1>2, <1>3, <1>4, <2>1 DEF OwnNameOnly, InUse
<1> QED
  BY <1>6, <1>7, <1>8

\* Each action keeps the invariant.
LEMMA StepKeeps == GateInv /\ [Next]_vars => GateInv'
<1> SUFFICES ASSUME GateInv, [Next]_vars
             PROVE  GateInv'
  OBVIOUS
<1> USE DEF GateInv
<1>1. ASSUME NEW c \in Clients, Demand(c) \/ JoinOpen(c) \/ GiveUp(c)
      PROVE  GateInv'
  <2>1. stage[c] # "joined" /\ UNCHANGED <<cur, dialed, ups, eventVars, banVars>>
    BY <1>1 DEF Demand, JoinOpen, GiveUp
  <2>2. /\ stage' \in [Clients -> Stages]
        /\ user' \in [Clients -> Accounts \cup {None}]
        /\ \A d \in Clients : d # c => stage'[d] = stage[d] /\ user'[d] = user[d]
    BY <1>1 DEF Demand, JoinOpen, GiveUp, TypeOK, Stages
  <2> QED
    BY <2>1, <2>2, DanceKeeps
<1>2. ASSUME NEW c \in Clients, Respond(c)
      PROVE  GateInv'
  <2>1. stage[c] # "joined" /\ UNCHANGED <<cur, dialed, ups, eventVars, banVars>>
    BY <1>2 DEF Respond
  <2>2. /\ stage' \in [Clients -> Stages]
        /\ user' \in [Clients -> Accounts \cup {None}]
        /\ \A d \in Clients : d # c => stage'[d] = stage[d] /\ user'[d] = user[d]
    BY <1>2 DEF Respond, Verified, TypeOK, Stages
  <2> QED
    BY <2>1, <2>2, DanceKeeps
<1>3. ASSUME NEW c \in Clients, NEW a \in Accounts \cup {None}, Challenge(c, a)
      PROVE  GateInv'
  <2>1. stage[c] # "joined" /\ UNCHANGED <<cur, dialed, ups, eventVars, banVars>>
    BY <1>3 DEF Challenge
  <2>2. /\ stage' \in [Clients -> Stages]
        /\ user' \in [Clients -> Accounts \cup {None}]
        /\ \A d \in Clients : d # c => stage'[d] = stage[d] /\ user'[d] = user[d]
    BY <1>3 DEF Challenge, TypeOK, Stages
  <2> QED
    BY <2>1, <2>2, DanceKeeps
<1>4. ASSUME NEW c \in Clients, Reading(c)
      PROVE  /\ \A x \in Upstreams : ups[x].conn = c => ups[x].state # "asking"
             /\ \A x \in Upstreams : x \in {cur[c]} => ups[x].conn = c
  <2>1. \A x \in Upstreams : ups[x].conn = c => ups[x].state # "asking"
    BY <1>4, GateAssumption DEF Wired, Reading
  <2>2. \A x \in Upstreams : x \in {cur[c]} => ups[x].conn = c
    BY GateAssumption DEF Wired
  <2> QED
    BY <2>1, <2>2
<1>5. ASSUME NEW c \in Clients, Refuse(c) \/ Leave(c)
      PROVE  GateInv'
  <2>1. PICK closed \in {{}, {cur[c]}} : Return(c, closed)
    BY <1>5 DEF Refuse, Leave
  <2>2. Reading(c)
    BY <1>5 DEF Refuse, Leave
  <2> QED
    BY <1>4, <2>1, <2>2, ReturnKeeps
<1>6. ASSUME NEW x \in Upstreams, Drained(x)
      PROVE  GateInv'
  <2>1. PICK c \in Clients : c = ups[x].conn
    BY <1>6 DEF Drained, TypeOK, UpRecords
  <2>2. Reading(c) /\ Return(c, {cur[c]})
    BY <1>6, <2>1 DEF Drained
  <2> QED
    BY <1>4, <2>2, ReturnKeeps
<1>7. ASSUME NEW c \in Clients, Answered(c)
      PROVE  GateInv'
  <2>1. dialed[c] \in Upstreams /\ ups[dialed[c]].conn = c
    BY <1>7 DEF Answered, Wired, TypeOK
  <2>2. CASE /\ cur' = [cur EXCEPT ![c] = dialed[c]]
             /\ dialed' = [dialed EXCEPT ![c] = None]
             /\ UNCHANGED <<stage, user, ups, eventVars, banVars>>
    <3>1. TypeOK'
      BY <2>1, <2>2 DEF TypeOK, eventVars, banVars, Live
    <3>2. \A x \in Upstreams : ups[x].state = "asking" => ups[x].conn # c
      BY <1>7, GateAssumption DEF Answered, Wired
    <3>3. ASSUME NEW x \in Upstreams
          PROVE  ups[x].state = "asking" =>
                     ups[x].conn # None /\ dialed'[ups[x].conn] = x
      BY <2>2, <3>2 DEF Wired, TypeOK, UpRecords
    <3>4. ASSUME NEW d \in Clients
          PROVE  /\ dialed'[d] # None => ups[dialed'[d]].conn = d
                 /\ cur'[d] # None => ups[cur'[d]].conn = d /\ cur'[d] # dialed'[d]
      BY <1>7, <2>1, <2>2 DEF Wired, TypeOK, Answered
    <3>5. Wired'
      BY <2>2, <3>3, <3>4 DEF Wired
    <3>6. OwnNameOnly'
      BY <2>2 DEF OwnNameOnly, InUse
    <3> QED
      BY <3>1, <3>5, <3>6
  <2>3. CASE ups[dialed[c]].state = "gone" /\ Return(c, {dialed[c]})
    <3>1. \A x \in Upstreams : ups[x].conn = c => ups[x].state # "asking"
      BY <2>3, GateAssumption DEF Wired
    <3>2. \A x \in Upstreams : x \in {dialed[c]} => ups[x].conn = c
      BY <2>1
    <3> QED
      BY <2>3, <3>1, <3>2, ReturnKeeps
  <2> QED
    BY <1>7, <2>2, <2>3 DEF Answered
<1>8. ASSUME NEW c \in Clients, NEW n \in Names \cup {None}, NEW k \in Keys,
             Publish(c, n, k)
      PROVE  GateInv'
  BY <1>8, PublishKeeps
<1>9. ASSUME NEW x \in Upstreams, Hook(x)
      PROVE  GateInv'
  <2>1. CASE /\ ups' = [ups EXCEPT ![x].state = "live"]
             /\ UNCHANGED killing
    <3>1. UNCHANGED <<connVars, eventVars, bans, killing>>
      BY <1>9, <2>1 DEF Hook
    <3>2. /\ ups'[x] = [ups[x] EXCEPT !.state = "live"]
          /\ \A y \in Upstreams : y # x => ups'[y] = ups[y]
          /\ ups[x].state = "asking"
      BY <1>9, <2>1 DEF Hook, TypeOK
    <3>3. /\ ups'[x] \in UpRecords /\ ups'[x].state = "live"
          /\ ups'[x].conn = ups[x].conn /\ ups'[x].who = ups[x].who
          /\ ups'[x].name = ups[x].name
      BY <3>2 DEF TypeOK, UpRecords, UpStates
    <3>4. ups' \in [Upstreams -> UpRecords]
      BY <2>1, <3>2, <3>3 DEF TypeOK
    <3>5. TypeOK'
      BY <3>1, <3>2, <3>3, <3>4 DEF TypeOK, Live, connVars, eventVars
    <3>6. Wired'
      <4>1. \A y \in Upstreams :
                /\ ups'[y].conn = ups[y].conn /\ ups'[y].who = ups[y].who
                /\ \/ ups'[y].state = ups[y].state
                   \/ ups[y].state = "asking" /\ ups'[y].state = "live"
                /\ ups'[y].state = "free" => ups'[y] = ups[y]
        <5>1. ASSUME NEW y \in Upstreams, y # x
              PROVE  ups'[y] = ups[y]
          BY <3>2, <5>1
        <5> QED
          BY <3>2, <3>3, <5>1
      <4>2. UNCHANGED <<stage, user, cur, dialed>>
        BY <3>1 DEF connVars
      <4>3. ASSUME NEW y \in Upstreams
            PROVE  /\ ups'[y].conn # None =>
                         /\ ups'[y].state # "free"
                         /\ stage'[ups'[y].conn] = "joined"
                         /\ user'[ups'[y].conn] = ups'[y].who
                   /\ ups'[y].state = "asking" =>
                         ups'[y].conn # None /\ dialed'[ups'[y].conn] = y
                   /\ ups'[y].state = "gone" => ups'[y].conn # None
                   /\ ups'[y].state = "free" => ups'[y] = Free
        BY <4>1, <4>2 DEF Wired
      <4>4. ASSUME NEW c \in Clients
            PROVE  /\ dialed'[c] # None => ups'[dialed'[c]].conn = c
                   /\ cur'[c] # None =>
                         ups'[cur'[c]].conn = c /\ cur'[c] # dialed'[c]
        BY <4>1, <4>2 DEF Wired, TypeOK
      <4> QED
        BY <4>3, <4>4 DEF Wired
    <3>7. OwnNameOnly'
      <4>1. \A y \in Upstreams :
                /\ ups'[y].who = ups[y].who /\ ups'[y].name = ups[y].name
                /\ ups'[y].state \in {"asking", "live"} =>
                      ups[y].state \in {"asking", "live"}
        BY <3>2, <3>3
      <4> QED
        BY <4>1 DEF OwnNameOnly, InUse
    <3> QED
      BY <3>5, <3>6, <3>7
  <2>2. CASE Ended(x)
    BY <1>9, <2>2, EndedKeeps DEF Hook, InUse
  <2> QED
    BY <1>9, <2>1, <2>2 DEF Hook
<1>10. ASSUME NEW x \in Upstreams, End(x)
       PROVE  GateInv'
  BY <1>10, EndedKeeps DEF End, InUse, Live
<1>11. ASSUME UNCHANGED <<connVars, ups>>, TypeOK'
       PROVE  GateInv'
  BY <1>11 DEF Wired, OwnNameOnly, InUse, connVars
<1>12. ASSUME NEW x \in Upstreams, Kill(x)
       PROVE  GateInv'
  <2>1. Live(x)
    BY <1>12 DEF Kill, TypeOK
  <2>2. CASE Ended(x)
    BY <1>12, <2>1, <2>2, EndedKeeps DEF Kill, InUse, Live
  <2>3. CASE killing' = killing \ {x} /\ UNCHANGED ups
    <3>1. TypeOK'
      BY <1>12, <2>3 DEF Kill, TypeOK, Live, connVars, eventVars
    <3> QED
      BY <1>11, <1>12, <2>3, <3>1 DEF Kill
  <2> QED
    BY <1>12, <2>2, <2>3 DEF Kill
<1>13. ASSUME NEW x \in Upstreams, Kick(x)
       PROVE  GateInv'
  <2>1. ups[x].name \in Names
    BY <1>13, GateAssumption DEF Kick, Live, OwnNameOnly, InUse, TypeOK, UpRecords
  <2>2. TypeOK'
    BY <1>13, <2>1, GateAssumption DEF Kick, TypeOK, Live, connVars, eventVars
  <2> QED
    BY <1>11, <1>13, <2>2 DEF Kick
<1>14. ASSUME \E e \in Events :
                 SetWindow(e) \/ \E k \in Keys \cup {None} : SetKey(e, k)
       PROVE  GateInv'
  <2>1. TypeOK'
    BY <1>14 DEF SetWindow, SetKey, TypeOK, Live, connVars, banVars
  <2> QED
    BY <1>11, <1>14, <2>1 DEF SetWindow, SetKey
<1>15. ASSUME \/ \E a \in Accounts, scope \in Events \cup {Site} : Ban(a, scope)
              \/ \E b \in bans : Unban(b)
       PROVE  GateInv'
  <2>1. TypeOK'
    BY <1>15, GateAssumption DEF Ban, Unban, TypeOK, Live, connVars, eventVars
  <2> QED
    BY <1>11, <1>15, <2>1 DEF Ban, Unban
<1>16. ASSUME Restart
       PROVE  GateInv'
  <2>1. \A x \in Upstreams : ups'[x] = Free
    BY <1>16 DEF Restart
  <2>2. \A c \in Clients : cur'[c] = None /\ dialed'[c] = None
    BY <1>16 DEF Restart
  <2>3. TypeOK'
    BY <1>16 DEF Restart, TypeOK, Free, UpRecords, UpStates, Stages, eventVars
  <2>4. Wired'
    BY <2>1, <2>2 DEF Wired, Free
  <2>5. OwnNameOnly'
    BY <2>1 DEF OwnNameOnly, InUse, Free
  <2> QED
    BY <2>3, <2>4, <2>5
<1>17. CASE UNCHANGED vars
  <2>1. TypeOK'
    BY <1>17 DEF vars, TypeOK, Live, connVars, eventVars, banVars
  <2> QED
    BY <1>11, <1>17, <2>1 DEF vars
<1> QED
  BY <1>1, <1>2, <1>3, <1>5, <1>6, <1>7, <1>8, <1>9, <1>10, <1>12, <1>13,
     <1>14, <1>15, <1>16, <1>17 DEF Next

-------------------------------------------------------------------------------
\* Init establishes the invariant.
LEMMA InitKeeps == Init => GateInv
<1> SUFFICES ASSUME Init
             PROVE  GateInv
  OBVIOUS
<1>1. \A x \in Upstreams : ups[x] = Free
  BY DEF Init
<1>2. TypeOK
  BY DEF Init, TypeOK, Free, UpRecords, UpStates, Stages
<1>3. Wired
  <2>1. \A c \in Clients : cur[c] = None /\ dialed[c] = None
    BY DEF Init
  <2> QED
    BY <1>1, <2>1 DEF Wired, Free
<1>4. OwnNameOnly
  BY <1>1 DEF OwnNameOnly, InUse, Free
<1> QED
  BY <1>2, <1>3, <1>4 DEF GateInv

\* The gate's state is well typed, what its goroutines hold agrees with what is
\* open at SRS, and every stream is its account's own (server.go:166-275).
THEOREM GateSafe == Spec => []GateInv
<1>1. Init => GateInv
  BY InitKeeps
<1>2. GateInv /\ [Next]_vars => GateInv'
  BY StepKeeps
<1> QED
  BY <1>1, <1>2, PTL DEF Spec

\* A connection and its upstreams belong together (server.go:247-275).
THEOREM ConnectionsAreWired == Spec => []Wired
<1>1. GateInv => Wired
  BY DEF GateInv
<1> QED
  BY <1>1, GateSafe, PTL

\* No account is published under a name that is not its own (server.go:22).
THEOREM NoImpersonation == Spec => []OwnNameOnly
<1>1. GateInv => OwnNameOnly
  BY DEF GateInv
<1> QED
  BY <1>1, GateSafe, PTL

-------------------------------------------------------------------------------
\* What a step can do to an upstream: the admissions are those of Publish, and
\* the streams that start are those the hook allowed.
LEMMA UpSteps ==
    ASSUME GateInv, [Next]_vars, NEW x \in Upstreams
    PROVE  \/ \E c \in Clients, n \in Names \cup {None}, k \in Keys, e \in Events :
                 /\ Cleared(c, n, e)
                 /\ ups'[x].state = "asking"
                 /\ ups'[x].who = user[c] /\ ups'[x].event = e
                 /\ UNCHANGED bans
           \/ /\ ups[x].state = "asking" /\ HookAllows(ups[x].key)
              /\ ups'[x].state = "live" /\ ups'[x].key = ups[x].key
              /\ ups'[x].who = ups[x].who /\ ups'[x].event = ups[x].event
           \/ /\ ups'[x].state = ups[x].state /\ ups'[x].key = ups[x].key
              /\ ups'[x].who = ups[x].who /\ ups'[x].event = ups[x].event
           \/ ups'[x].state \in {"free", "gone"}
<1> USE DEF GateInv
<1> DEFINE Same == /\ ups'[x].state = ups[x].state /\ ups'[x].key = ups[x].key
                   /\ ups'[x].who = ups[x].who /\ ups'[x].event = ups[x].event
           Closed == ups'[x].state \in {"free", "gone"}
<1>1. ASSUME NEW c, NEW closed, Return(c, closed)
      PROVE  Same \/ Closed
  <2>1. \/ ups'[x] = Free
        \/ ups'[x] = [ups[x] EXCEPT !.conn = None]
        \/ ups'[x] = ups[x]
    BY <1>1 DEF Return, Released
  <2> QED
    BY <2>1 DEF Free, TypeOK, UpRecords
<1>2. ASSUME NEW y \in Upstreams, Ended(y)
      PROVE  Same \/ Closed
  BY <1>2 DEF Ended, TypeOK, UpRecords, Free
<1>3. ASSUME NEW c \in Clients, NEW n \in Names \cup {None}, NEW k \in Keys,
             Publish(c, n, k)
      PROVE  \/ \E e \in Events :
                   /\ Cleared(c, n, e)
                   /\ ups'[x].state = "asking"
                   /\ ups'[x].who = user[c] /\ ups'[x].event = e
                   /\ UNCHANGED bans
             \/ Same
  <2>1. PICK e \in EventsOf(k), y \in Upstreams :
            /\ Cleared(c, n, e)
            /\ ups' = [ups EXCEPT ![y] =
                   [state |-> "asking", conn |-> c, who |-> user[c],
                    name |-> Candidate(c, n), key |-> k, event |-> e]]
    BY <1>3 DEF Publish
  <2>2. CASE y = x
    BY <1>3, <2>1, <2>2 DEF Publish, EventsOf, TypeOK, banVars
  <2>3. CASE y # x
    BY <2>1, <2>3 DEF TypeOK
  <2> QED
    BY <2>2, <2>3
<1>4. ASSUME NEW y \in Upstreams, Hook(y)
      PROVE  \/ /\ ups[x].state = "asking" /\ HookAllows(ups[x].key)
                /\ ups'[x].state = "live" /\ ups'[x].key = ups[x].key
                /\ ups'[x].who = ups[x].who /\ ups'[x].event = ups[x].event
             \/ Same
             \/ Closed
  <2>1. CASE /\ HookAllows(ups[y].key)
             /\ ups' = [ups EXCEPT ![y].state = "live"]
    <3>1. CASE y = x
      BY <1>4, <2>1, <3>1 DEF Hook, TypeOK, UpRecords
    <3>2. CASE y # x
      BY <2>1, <3>2 DEF TypeOK
    <3> QED
      BY <3>1, <3>2
  <2>2. CASE Ended(y)
    BY <1>2, <2>2
  <2> QED
    BY <1>4, <2>1, <2>2 DEF Hook
<1>5. ASSUME UNCHANGED ups
      PROVE  Same
  BY <1>5
<1>6. ASSUME Restart
      PROVE  Closed
  BY <1>6 DEF Restart, Free
<1>7. ASSUME NEW c \in Clients,
             \/ Demand(c) \/ JoinOpen(c) \/ Respond(c) \/ GiveUp(c)
             \/ Refuse(c) \/ Answered(c) \/ Leave(c)
             \/ \E a \in Accounts \cup {None} : Challenge(c, a)
      PROVE  Same \/ Closed
  <2>1. CASE UNCHANGED ups
    BY <1>5, <2>1
  <2>2. CASE \E closed \in {{}, {cur[c]}, {dialed[c]}} : Return(c, closed)
    BY <1>1, <2>2
  <2> QED
    BY <1>7, <2>1, <2>2
       DEF Demand, JoinOpen, Respond, GiveUp, Refuse, Answered, Leave, Challenge
<1>8. ASSUME NEW y \in Upstreams, Drained(y) \/ End(y) \/ Kick(y) \/ Kill(y)
      PROVE  Same \/ Closed
  <2>1. CASE Drained(y)
    <3>1. PICK c, closed : Return(c, closed)
      BY <2>1 DEF Drained
    <3> QED
      BY <1>1, <3>1
  <2>2. CASE Ended(y)
    BY <1>2, <2>2
  <2>3. CASE UNCHANGED ups
    BY <1>5, <2>3
  <2> QED
    BY <1>8, <2>1, <2>2, <2>3 DEF End, Kick, Kill
<1>9. ASSUME \/ \E e \in Events :
                   SetWindow(e) \/ \E k \in Keys \cup {None} : SetKey(e, k)
             \/ \E a \in Accounts, scope \in Events \cup {Site} : Ban(a, scope)
             \/ \E b \in bans : Unban(b)
             \/ UNCHANGED vars
      PROVE  Same
  BY <1>5, <1>9 DEF SetWindow, SetKey, Ban, Unban, vars
<1> QED
  BY <1>3, <1>4, <1>6, <1>7, <1>8, <1>9 DEF Next

\* A banned account that is not on the air in an event stays off it until the
\* ban is lifted, provided safeStreamName keeps its email (stream-bans.ts:2).
THEOREM BansHold == ASSUME NamesKept PROVE Spec => BannedStaysOff
<1>1. GateInv /\ [Next]_vars =>
          \A a \in Accounts, e \in Events :
              BanCovers(a, e) /\ BanCovers(a, e)' /\ ~OnAir(a, e)
                  => ~OnAir(a, e)'
  <2> SUFFICES ASSUME GateInv, [Next]_vars,
                      NEW a \in Accounts, NEW e \in Events,
                      BanCovers(a, e), ~OnAir(a, e),
                      NEW x \in Upstreams,
                      InUse(x)', ups'[x].who = a, ups'[x].event = e
               PROVE  FALSE
    BY DEF OnAir
  <2>1. ups'[x].state \notin {"free", "gone"}
    BY DEF InUse
  <2>2. ~(InUse(x) /\ ups[x].who = a /\ ups[x].event = e)
    BY DEF OnAir
  <2>3. PICK c \in Clients, n \in Names \cup {None} :
            Cleared(c, n, e) /\ user[c] = a
    BY <2>1, <2>2, UpSteps DEF InUse
  <2>4. Lower[Candidate(c, n)] = a
    BY <2>3, AskedIsOwn, NamesKept, GateAssumption
       DEF Cleared, GateInv, NamesKept
  <2> QED
    BY <2>3, <2>4 DEF Cleared, PolicyAllows, Blocked, BanCovers
<1> QED
  BY <1>1, GateSafe, PTL DEF Spec, BannedStaysOff

\* A key that no open event has puts nobody on the air (access-control.ts:18).
THEOREM ClosedHolds == Spec => ClosedStaysOff
<1>1. GateInv /\ [Next]_vars =>
          \A k \in Keys : ~KeyOpen(k) /\ ~KeyOnAir(k) => ~KeyOnAir(k)'
  <2> SUFFICES ASSUME GateInv, [Next]_vars, NEW k \in Keys,
                      ~KeyOpen(k), ~KeyOnAir(k),
                      NEW x \in Upstreams, Live(x)', ups'[x].key = k
               PROVE  FALSE
    BY DEF KeyOnAir
  <2>1. ups'[x].state = "live" /\ ~(ups[x].state = "live" /\ ups[x].key = k)
    BY DEF Live, KeyOnAir
  <2> QED
    BY <2>1, UpSteps DEF HookAllows, KeyOpen, EventsOf
<1> QED
  BY <1>1, GateSafe, PTL DEF Spec, ClosedStaysOff
===============================================================================
