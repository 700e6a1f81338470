------------------------------ MODULE PublishGate ------------------------------
(***************************************************************************)
(* Who may publish: the RTMP gateway in front of SRS (rtmp-gateway/        *)
(* server.go, app.go, upstream.go), the three questions it asks the app    *)
(* (server/api/srs/rtmp-auth), the app's second look in the on_publish     *)
(* hook (access-control.ts), and the bans and kicks of the administrators  *)
(* (stream-bans.ts, api/streams/clients).                                  *)
(*                                                                         *)
(* A client is a publisher's OBS; it has at most one connection at a time, *)
(* which one goroutine of the gateway serves.  That goroutine waits for    *)
(* the app and for SRS, so the app's answer is stale when it acts on it.   *)
(* The app computes each answer without an await.  An upstream is a        *)
(* connection of the gateway to SRS; its slot is used again when both      *)
(* sides have forgotten it.  SRS is external.                              *)
(*                                                                         *)
(* Names are stream names and account emails alike, because the gateway    *)
(* publishes an account under its email (server.go:196) and the bans go by *)
(* that name (policy.get.ts:42).  A key stands for the token of an event;  *)
(* per-student keys and publish tokens are refused by the gateway          *)
(* (server.go:205).                                                        *)
(***************************************************************************)
EXTENDS FiniteSets

CONSTANTS
    Clients,
    Accounts,   \* emails of accounts that have an authmod secret
    Names,      \* stream names, the accounts among them
    Lower,      \* toLowerCase
    Safe,       \* safeStreamName
    Events,
    Keys,
    Upstreams,  \* bound: the connections to SRS open at the same time
    Site,       \* the scope of a site-wide ban
    None

ASSUME GateAssumption ==
    /\ Accounts \subseteq Names
    /\ Lower \in [Names -> Names]
    /\ Safe \in [Names -> Names]
    /\ \A n \in Names : Safe[Lower[n]] = Lower[Safe[n]]
    /\ \A a \in Accounts : Lower[a] = a
    /\ Site \notin Events
    /\ None \notin Clients \cup Names \cup Keys \cup Events \cup Upstreams

VARIABLES
    stage,    \* how far each client is in the authmod dance
    user,     \* the account it offered, then the one verified (authedUser)
    cur,      \* the variable `up` of the goroutine
    dialed,   \* the upstream the goroutine is dialling and publishing on
    ups,      \* the connections to SRS
    pkey,     \* events.publish_key
    admits,   \* whether now is in the event's window and it is not archived
    bans,     \* stream_bans: <<email, scope>>
    killing   \* kicks that have stored the ban and not yet called SRS

connVars == <<stage, user, cur, dialed>>
eventVars == <<pkey, admits>>
banVars == <<bans, killing>>
vars == <<connVars, ups, eventVars, banVars>>

-------------------------------------------------------------------------------
\* "told": answered with the demand for authmod.  "salted": answered with the
\* challenge.  Both answers close the connection; OBS remembers them.
Stages == {"off", "told", "salted", "joined"}

\* "asking": the on_publish hook is under way.  "gone": SRS has ended it and
\* the goroutine that drains it has not noticed.
UpStates == {"free", "asking", "live", "gone"}

Free == [state |-> "free", conn |-> None, who |-> None, name |-> None,
         key |-> None, event |-> None]

\* conn: the client whose goroutine serves it, None when that has returned.
\* who, event: the account and event of the policy decision (history).
UpRecords ==
    [state : UpStates, conn : Clients \cup {None},
     who : Accounts \cup {None}, name : Names \cup {None},
     key : Keys \cup {None}, event : Events \cup {None}]

InUse(x) == ups[x].state \in {"asking", "live"}

Live(x) == ups[x].state = "live"

Init ==
    /\ stage = [c \in Clients |-> "off"]
    /\ user = [c \in Clients |-> None]
    /\ cur = [c \in Clients |-> None]
    /\ dialed = [c \in Clients |-> None]
    /\ ups = [x \in Upstreams |-> Free]
    /\ pkey = [e \in Events |-> None]
    /\ admits = [e \in Events |-> FALSE]
    /\ bans = {}
    /\ killing = {}

-------------------------------------------------------------------------------
(* What the app answers *)

\* (Mutant: the name is compared as it is written.)
BlockedVerbatim(n, e) == <<n, Site>> \in bans \/ <<n, e>> \in bans

\* isBlocked: a site-wide ban, or one in the event
Blocked(n, e) == <<Lower[n], Site>> \in bans \/ <<Lower[n], e>> \in bans

\* isSiteWideBanned, which the salt endpoint answers with the salt
SiteBanned(a) == <<a, Site>> \in bans

\* Whom the verify endpoint can make of the user a connection offered: the
\* account, or nobody when there is none or no answer
Verified(c) == {user[c], None}

\* findByPublishKey; the column is not unique, so there may be several
EventsOf(k) == {e \in Events : pkey[e] = k}

\* The name a connection asks for: an explicit one, or its account's
Asked(c, explicit) == IF explicit = None THEN user[c] ELSE explicit

\* The name it publishes under
Candidate(c, explicit) == Safe[Asked(c, explicit)]

\* (Mutant: anybody's name may be asked for.)
NameOfAnyone(c, explicit) == TRUE

\* strings.EqualFold of the account and the name asked for
OwnName(c, explicit) == Lower[Asked(c, explicit)] = Lower[user[c]]

\* The policy endpoint: the name is not banned and the event's window is open.
PolicyAllows(n, e) == ~Blocked(n, e) /\ admits[e]

\* The gateway's checks at publish.  Every event requires account auth.
Cleared(c, explicit, e) ==
    /\ user[c] # None
    /\ PolicyAllows(Candidate(c, explicit), e)
    /\ OwnName(c, explicit)

\* (Mutant: the hook looks the key up and not the window.)
HookTrustsPolicy(k) == EventsOf(k) # {}

\* authorizePublish with a shared key
HookAllows(k) == \E e \in EventsOf(k) : admits[e]

-------------------------------------------------------------------------------
(* Connections *)

\* (Mutant: a goroutine that returns leaves its upstreams as they are.)
ReleasedNothing(c, closed) == ups

\* The upstreams after c's goroutine has returned, having closed those in
\* `closed`.  The others it dialled stay open until SRS gives them up.
Released(c, closed) ==
    [x \in Upstreams |->
        IF x \in closed \/ (ups[x].conn = c /\ ups[x].state = "gone")
        THEN Free
        ELSE IF ups[x].conn = c THEN [ups[x] EXCEPT !.conn = None]
        ELSE ups[x]]

\* A kick whose client has gone finds nothing to kill.
ForgetKills == killing' = {x \in killing : ups'[x].state = "live"}

\* The goroutine returns and its connection is closed.
Return(c, closed) ==
    /\ stage' = [stage EXCEPT ![c] = "off"]
    /\ user' = [user EXCEPT ![c] = None]
    /\ cur' = [cur EXCEPT ![c] = None]
    /\ dialed' = [dialed EXCEPT ![c] = None]
    /\ ups' = Released(c, closed)
    /\ ForgetKills
    /\ UNCHANGED <<eventVars, bans>>

\* The read loop of c is waiting for a message.
Reading(c) == stage[c] = "joined" /\ dialed[c] = None

\* A plain connect is answered with the demand for authmod.
Demand(c) ==
    /\ stage[c] = "off"
    /\ stage' = [stage EXCEPT ![c] = "told"]
    /\ UNCHANGED <<user, cur, dialed, ups, eventVars, banVars>>

\* connect without a user: accepted, unauthenticated
JoinOpen(c) ==
    /\ stage[c] = "told"
    /\ stage' = [stage EXCEPT ![c] = "joined"]
    /\ UNCHANGED <<user, cur, dialed, ups, eventVars, banVars>>

\* connect with a user, and the salt endpoint's answer; None is a user that is
\* no account (the digest of the response covers the user as the client typed
\* it, so an account verifies only in its registered spelling).  Without an answer the challenge goes out with a random salt, and
\* nothing the client answers can verify: the user counts as None.
Challenge(c, a) ==
    /\ stage[c] = "told"
    /\ \/ /\ SiteBanned(a)
          /\ stage' = [stage EXCEPT ![c] = "off"]
          /\ UNCHANGED user
       \/ /\ ~SiteBanned(a)
          /\ stage' = [stage EXCEPT ![c] = "salted"]
          /\ user' = [user EXCEPT ![c] = a]
       \/ /\ stage' = [stage EXCEPT ![c] = "salted"]
          /\ UNCHANGED user
    /\ UNCHANGED <<cur, dialed, ups, eventVars, banVars>>

\* connect with a response, and the verify endpoint's answer: it verifies; or
\* the user is unknown or the app does not answer, and the connection is
\* accepted unauthenticated; or the password was wrong.
Respond(c) ==
    /\ stage[c] = "salted"
    /\ \/ /\ stage' = [stage EXCEPT ![c] = "joined"]
          /\ user' \in {[user EXCEPT ![c] = a] : a \in Verified(c)}
       \/ /\ stage' = [stage EXCEPT ![c] = "off"]
          /\ user' = [user EXCEPT ![c] = None]
    /\ UNCHANGED <<cur, dialed, ups, eventVars, banVars>>

\* The publisher gives up between two connections of the dance.
GiveUp(c) ==
    /\ stage[c] \in {"told", "salted"}
    /\ stage' = [stage EXCEPT ![c] = "off"]
    /\ user' = [user EXCEPT ![c] = None]
    /\ UNCHANGED <<cur, dialed, ups, eventVars, banVars>>

\* publish that the app refuses or does not answer, or SRS cannot be dialled.
\* The goroutine returns without closing `up`, if it had one.
Refuse(c) ==
    /\ Reading(c)
    /\ Return(c, {})

\* publish that is cleared, under an explicit name or none: the gateway dials
\* SRS and publishes there, which makes SRS call on_publish.  Of several events
\* with the key the database returns one.
Publish(c, explicit, k) ==
    /\ Reading(c)
    /\ \E e \in EventsOf(k), x \in Upstreams :
          /\ Cleared(c, explicit, e)
          /\ ups[x] = Free
          /\ dialed' = [dialed EXCEPT ![c] = x]
          /\ ups' = [ups EXCEPT ![x] =
                 [state |-> "asking", conn |-> c, who |-> user[c],
                  name |-> Candidate(c, explicit), key |-> k, event |-> e]]
    /\ UNCHANGED <<stage, user, cur, eventVars, banVars>>

\* The dialled upstream has answered a command, whichever it is, and becomes
\* `up`; what `up` was before is forgotten, not closed.  Or it has been closed
\* without one, and the goroutine returns.
Answered(c) ==
    /\ dialed[c] # None
    /\ ups[dialed[c]].state # "asking"
    /\ \/ /\ cur' = [cur EXCEPT ![c] = dialed[c]]
          /\ dialed' = [dialed EXCEPT ![c] = None]
          /\ UNCHANGED <<stage, user, ups, eventVars, banVars>>
       \/ /\ ups[dialed[c]].state = "gone"
          /\ Return(c, {dialed[c]})

\* The publisher hangs up, or a frame cannot be written to SRS.
Leave(c) ==
    /\ Reading(c)
    /\ Return(c, {cur[c]})

\* (Mutant: the drain ends and leaves the connection open.)
DrainsOnly(x) == FALSE /\ UNCHANGED vars

\* The drain of x has seen SRS close it and closes the publisher's connection,
\* which its goroutine notices when it reads again.
Drained(x) ==
    /\ ups[x].state = "gone"
    /\ ups[x].conn # None
    /\ Reading(ups[x].conn)
    /\ Return(ups[x].conn, {cur[ups[x].conn]})

\* The gateway is restarted: every connection on both sides is closed.
Restart ==
    /\ stage' = [c \in Clients |-> IF stage[c] = "joined" THEN "off"
                                   ELSE stage[c]]
    /\ user' = [c \in Clients |-> IF stage[c] = "joined" THEN None
                                  ELSE user[c]]
    /\ cur' = [c \in Clients |-> None]
    /\ dialed' = [c \in Clients |-> None]
    /\ ups' = [x \in Upstreams |-> Free]
    /\ killing' = {}
    /\ UNCHANGED <<eventVars, bans>>

-------------------------------------------------------------------------------
(* SRS *)

\* SRS closes x; a slot that no goroutine knows is free at once.
Ended(x) ==
    /\ ups' = [ups EXCEPT ![x] =
           IF ups[x].conn = None THEN Free ELSE [@ EXCEPT !.state = "gone"]]
    /\ ForgetKills

\* The on_publish hook of x returns: SRS lets it publish if the hook allows it
\* and nobody is publishing under the name, or closes it.
Hook(x) ==
    /\ ups[x].state = "asking"
    /\ \/ /\ HookAllows(ups[x].key)
          /\ \A y \in Upstreams : Live(y) => ups[y].name # ups[x].name
          /\ ups' = [ups EXCEPT ![x].state = "live"]
          /\ UNCHANGED killing
       \/ Ended(x)
    /\ UNCHANGED <<connVars, eventVars, bans>>

\* SRS ends a stream: a failure, a restart, or a publisher that sends nothing.
End(x) ==
    /\ Live(x)
    /\ Ended(x)
    /\ UNCHANGED <<connVars, eventVars, bans>>

-------------------------------------------------------------------------------
(* Administrators *)

\* An event is given a key, or loses its own: createEvent and updateEvent, where
\* the key is the slug, setPublishKey and clearPublishKey.
SetKey(e, k) ==
    /\ pkey' = [pkey EXCEPT ![e] = k]
    /\ UNCHANGED <<connVars, ups, admits, banVars>>

\* The window opens or closes, or updateEvent changes it or the status.
SetWindow(e) ==
    /\ admits' = [admits EXCEPT ![e] = ~admits[e]]
    /\ UNCHANGED <<connVars, ups, pkey, banVars>>

\* ban, from the blacklist page
Ban(a, scope) ==
    /\ bans' = bans \cup {<<a, scope>>}
    /\ UNCHANGED <<connVars, ups, eventVars, killing>>

\* unban
Unban(b) ==
    /\ bans' = bans \ {b}
    /\ UNCHANGED <<connVars, ups, eventVars, killing>>

\* An administrator bans a live publisher by its stream name; the handler goes
\* on to kill the client ...
Kick(x) ==
    /\ Live(x)
    /\ bans' = bans \cup {<<Lower[ups[x].name], Site>>}
    /\ killing' = killing \cup {x}
    /\ UNCHANGED <<connVars, ups, eventVars>>

\* ... and SRS does so, or cannot be reached.
Kill(x) ==
    /\ x \in killing
    /\ \/ Ended(x)
       \/ /\ killing' = killing \ {x}
          /\ UNCHANGED ups
    /\ UNCHANGED <<connVars, eventVars, bans>>

-------------------------------------------------------------------------------
Next ==
    \/ \E c \in Clients :
          \/ Demand(c) \/ JoinOpen(c) \/ Respond(c) \/ GiveUp(c)
          \/ Refuse(c) \/ Answered(c) \/ Leave(c)
          \/ \E a \in Accounts \cup {None} : Challenge(c, a)
          \/ \E n \in Names \cup {None}, k \in Keys : Publish(c, n, k)
    \/ \E x \in Upstreams :
          Drained(x) \/ Hook(x) \/ End(x) \/ Kick(x) \/ Kill(x)
    \/ \E e \in Events :
          SetWindow(e) \/ \E k \in Keys \cup {None} : SetKey(e, k)
    \/ \E a \in Accounts, scope \in Events \cup {Site} : Ban(a, scope)
    \/ \E b \in bans : Unban(b)
    \/ Restart

Spec == Init /\ [][Next]_vars

\* The app and SRS answer, and the goroutine goes on with the answer.  A drain
\* that has ended closes the connection whatever its goroutine is doing, so the
\* goroutine, which reads again and again, cannot miss it.
FairSpec ==
    /\ Spec
    /\ \A x \in Upstreams : WF_vars(Hook(x)) /\ SF_vars(Drained(x))
    /\ \A c \in Clients : WF_vars(Answered(c))
-------------------------------------------------------------------------------
(* Properties *)

\* The type invariant.  A kick in progress is that of a live upstream.
TypeOK ==
    /\ stage \in [Clients -> Stages]
    /\ user \in [Clients -> Accounts \cup {None}]
    /\ cur \in [Clients -> Upstreams \cup {None}]
    /\ dialed \in [Clients -> Upstreams \cup {None}]
    /\ ups \in [Upstreams -> UpRecords]
    /\ pkey \in [Events -> Keys \cup {None}]
    /\ admits \in [Events -> BOOLEAN]
    /\ bans \subseteq Names \X (Events \cup {Site})
    /\ killing \subseteq {x \in Upstreams : Live(x)}

\* What the goroutine of a connection holds and what SRS has open agree: an
\* upstream it serves was published by the account that is still on the
\* connection, one that awaits the hook is the one being dialled, and `up` is
\* never the one being dialled, nor another goroutine's (server.go:247-275).
Wired ==
    /\ \A x \in Upstreams :
          /\ ups[x].conn # None =>
                /\ ups[x].state # "free"
                /\ stage[ups[x].conn] = "joined"
                /\ user[ups[x].conn] = ups[x].who
          /\ ups[x].state = "asking" =>
                ups[x].conn # None /\ dialed[ups[x].conn] = x
          /\ ups[x].state = "gone" => ups[x].conn # None
          /\ ups[x].state = "free" => ups[x] = Free
    /\ \A c \in Clients :
          /\ dialed[c] # None => ups[dialed[c]].conn = c
          /\ cur[c] # None => ups[cur[c]].conn = c /\ cur[c] # dialed[c]

\* A stream is published by a verified account under that account's own name:
\* no impersonation, whatever name was asked for (server.go:22).
OwnNameOnly ==
    \A x \in Upstreams : InUse(x) =>
        /\ ups[x].who # None /\ ups[x].name # None
        /\ Lower[ups[x].name] = Lower[Safe[ups[x].who]]

BanCovers(a, e) == <<a, Site>> \in bans \/ <<a, e>> \in bans

OnAir(a, e) ==
    \E x \in Upstreams : InUse(x) /\ ups[x].who = a /\ ups[x].event = e

\* A ban keeps an account off the event: once none of its streams is on the air
\* or being admitted there, none will be while the ban stands, through any
\* reconnection, spelling of the name, or race with a kick (stream-bans.ts:2).
BannedStaysOff ==
    [][\A a \in Accounts, e \in Events :
          BanCovers(a, e) /\ BanCovers(a, e)' /\ ~OnAir(a, e)
              => ~OnAir(a, e)']_vars

KeyOpen(k) == \E e \in Events : pkey[e] = k /\ admits[e]

KeyOnAir(k) == \E x \in Upstreams : Live(x) /\ ups[x].key = k

\* A key that no open event has puts nobody on the air, although the policy
\* may have cleared the publisher before the window closed or the key changed
\* (access-control.ts:18).
ClosedStaysOff ==
    [][\A k \in Keys : ~KeyOpen(k) /\ ~KeyOnAir(k) => ~KeyOnAir(k)']_vars

\* A publisher is not left half-live: when SRS has closed the upstream its
\* connection carries, the connection ends (server.go:264).
NoHalfLive ==
    \A c \in Clients :
        (cur[c] # None /\ ups[cur[c]].state = "gone") ~> cur[c] = None
===============================================================================
