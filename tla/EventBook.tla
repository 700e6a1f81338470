------------------------------- MODULE EventBook -------------------------------
(***************************************************************************)
(* EventBook: the events (services/events.ts), the keys under which they   *)
(* are found, the keys they had before (event_slug_aliases), the groups    *)
(* they are restricted to (event_groups), and what the lists, the guide    *)
(* endpoint and the guide page show of them to a viewer.                   *)
(*                                                                         *)
(* A handler of events.ts runs from its request to its answer without an   *)
(* await, so it is one step; but it is no transaction.  A handler that     *)
(* throws half way keeps what it wrote: that is why creating and updating  *)
(* an event have several actions each.  Ids are never used again           *)
(* (autoIncrement).  Publish keys and tokens are in PublishGate; names,    *)
(* texts and times are left out.                                           *)
(***************************************************************************)
EXTENDS FiniteSets

CONSTANTS
    Events, Keys, Groups,
    None

ASSUME EventBookAssumption ==
    /\ None \notin Events \cup Keys \cup {"public", "registered", "groups"}
    /\ \A gs \in SUBSET Groups : gs # None

VARIABLES
    event,    \* the events table
    alias,    \* event_slug_aliases: the event a retired key belongs to
    scope,    \* event_groups
    groups,   \* the groups there are
    asked     \* the audience last asked for each event (history)

bookVars == <<event, alias, scope, groups, asked>>

-------------------------------------------------------------------------------
Visibilities == {"public", "registered", "groups"}

\* open: the status is neither draft nor archived.
EventRows == [st : {"unmade", "there", "gone"}, slug : Keys \cup {None},
              vis : Visibilities, open : BOOLEAN]
NoEvent(st) == [st |-> st, slug |-> None, vis |-> "registered", open |-> FALSE]

There == {e \in Events : event[e].st = "there"}
HasSlug(k) == {e \in There : event[e].slug = k}
ScopeOf(e) == {g \in Groups : <<e, g>> \in scope}

Audiences == [vis : Visibilities, groups : SUBSET Groups]
Nobody == [vis |-> "groups", groups |-> {}]

BookInit ==
    /\ event = [e \in Events |-> NoEvent("unmade")]
    /\ alias = [k \in Keys |-> None]
    /\ scope = {}
    /\ groups = Groups
    /\ asked = [e \in Events |-> Nobody]

-------------------------------------------------------------------------------
(* Groups: only that they go; the rows that name one go with it. *)

DeleteGroup(g) ==
    /\ g \in groups
    /\ groups' = groups \ {g}
    /\ scope' = scope \ (Events \X {g})
    /\ UNCHANGED <<event, alias, asked>>

\* setEventGroups: the old rows are deleted first, in a statement of its own.
\* The insert of a group that is gone violates the foreign key.
Scoped(e, gs) ==
    (scope \ ({e} \X Groups)) \cup (IF gs \subseteq groups THEN {e} \X gs ELSE {})

-------------------------------------------------------------------------------
(* createEvent *)

\* The key is the new event's own from now on.
WithoutAlias(k) == [alias EXCEPT ![k] = None]

\* ensureSlugUnique
KeyFree(k, e) == HasSlug(k) \subseteq {e}

CreateEvent(e, k, aud, open) ==
    /\ event[e].st = "unmade" /\ KeyFree(k, e)
    /\ aud.groups \subseteq groups
    /\ event' = [event EXCEPT ![e] = [st |-> "there", slug |-> k, vis |-> aud.vis, open |-> open]]
    /\ scope' = Scoped(e, aud.groups)
    /\ alias' = WithoutAlias(k)
    /\ asked' = [asked EXCEPT ![e] = aud]
    /\ UNCHANGED groups

\* A group of the request is gone: the row was inserted, the alias of its key
\* is still there, and the administrator is told that it failed.
CreateEventBreaks(e, k, aud, open) ==
    /\ event[e].st = "unmade" /\ KeyFree(k, e)
    /\ ~ aud.groups \subseteq groups
    /\ event' = [event EXCEPT ![e] = [st |-> "there", slug |-> k, vis |-> aud.vis, open |-> open]]
    /\ scope' = Scoped(e, aud.groups)
    /\ asked' = [asked EXCEPT ![e] = aud]
    /\ UNCHANGED <<alias, groups>>

-------------------------------------------------------------------------------
(* updateEvent.  A patch names what it changes; None leaves it as it is. *)

Patches == [slug : Keys \cup {None}, vis : Visibilities \cup {None},
            groups : (SUBSET Groups) \cup {None}, open : BOOLEAN]

Given(value, stored) == IF value = None THEN stored ELSE value
Renames(e, p) == p.slug # None /\ p.slug # event[e].slug
AcceptsSlug(e, p) == Renames(e, p) => KeyFree(p.slug, e)

\* The key the event gives up leads to it, and the one it takes to nothing else.
AliasesAfter(e, p) ==
    IF Renames(e, p) THEN [alias EXCEPT ![event[e].slug] = e, ![p.slug] = None] ELSE alias

Patched(e, p) ==
    [event[e] EXCEPT !.slug = Given(p.slug, @), !.vis = Given(p.vis, @), !.open = p.open]

\* Where the patch names a group that is gone, it fails after the row and the
\* deletion of the old restriction.
UpdateEvent(e, p) ==
    /\ e \in There /\ AcceptsSlug(e, p)
    /\ alias' = AliasesAfter(e, p)
    /\ event' = [event EXCEPT ![e] = Patched(e, p)]
    /\ scope' = IF p.groups = None THEN scope ELSE Scoped(e, p.groups)
    /\ asked' = [asked EXCEPT ![e] =
           [vis |-> Given(p.vis, event[e].vis), groups |-> Given(p.groups, asked[e].groups)]]
    /\ UNCHANGED groups

\* The override of the limits is refused (a width of 1920.5): the aliases were
\* written already, the row was not.
UpdateEventRefused(e, p) ==
    /\ e \in There /\ AcceptsSlug(e, p)
    /\ alias' = AliasesAfter(e, p)
    /\ UNCHANGED <<event, scope, groups, asked>>

\* deleteEvent: the aliases, and with the row what refers to it.
DeleteEvent(e) ==
    /\ e \in There
    /\ alias' = [k \in Keys |-> IF alias[k] = e THEN None ELSE alias[k]]
    /\ event' = [event EXCEPT ![e] = NoEvent("gone")]
    /\ scope' = scope \ ({e} \X Groups)
    /\ asked' = [asked EXCEPT ![e] = Nobody]
    /\ UNCHANGED groups

BookNext ==
    \/ \E g \in Groups : DeleteGroup(g)
    \/ \E e \in Events, k \in Keys, aud \in Audiences, open \in BOOLEAN :
           CreateEvent(e, k, aud, open) \/ CreateEventBreaks(e, k, aud, open)
    \/ \E e \in Events, p \in Patches : UpdateEvent(e, p) \/ UpdateEventRefused(e, p)
    \/ \E e \in Events : DeleteEvent(e)

BookSpec == BookInit /\ [][BookNext]_bookVars

-------------------------------------------------------------------------------
(* What is shown.  A viewer is known by the role of the session and by the *)
(* groups of its account.                                                  *)

Viewers == {[role |-> "guest", in |-> {}], [role |-> "admin", in |-> {}]}
    \cup [role : {"user"}, in : SUBSET groups]

\* (Mutant: an event restricted to no group at all is restricted to nobody.)
ViewableUnlessScoped(v, e) ==
    \/ v.role = "admin" \/ event[e].vis = "public"
    \/ v.role = "user" /\ (event[e].vis = "registered" \/ ScopeOf(e) = {} \/ v.in \cap ScopeOf(e) # {})

\* canViewEvent
CanView(v, e) ==
    \/ v.role = "admin"
    \/ event[e].vis = "public"
    \/ v.role = "user" /\ event[e].vis = "registered"
    \/ v.role = "user" /\ event[e].vis = "groups" /\ v.in \cap ScopeOf(e) # {}

\* The home page lists the public events to everybody, drafts too; the events
\* page and the page of an event want a session.
PublicEvents == {e \in There : event[e].vis = "public"}
HomePage == PublicEvents
ListedEvents(v) == {e \in There : CanView(v, e)}
EventsPage(v) == IF v.role = "guest" THEN {} ELSE ListedEvents(v)
OpensEvent(v, e) == v.role # "guest" /\ e \in There /\ CanView(v, e)

\* (Mutant: the retired keys are looked up before the keys in use.)
AliasFirst(k) ==
    IF alias[k] # None /\ event[alias[k]].slug # k THEN {alias[k]} ELSE HasSlug(k)

\* The event a key leads to: the one that has it, else the one that had it.
LeadsTo(k) ==
    IF HasSlug(k) # {} THEN HasSlug(k)
    ELSE {e \in There : alias[k] = e /\ event[e].slug # k}

\* The guide endpoint: the event, and the key to go to instead, or an error.
Guide(v, k) ==
    LET row == {e \in LeadsTo(k) : event[e].open} IN
    IF row = {} THEN [status |-> "not found", event |-> None, to |-> None]
    ELSE LET e == CHOOSE e \in row : TRUE IN
         IF ~ CanView(v, e) THEN [status |-> "forbidden", event |-> None, to |-> None]
         ELSE [status |-> "ok", event |-> e,
               to |-> IF event[e].slug = k THEN None ELSE event[e].slug]

\* The guide page goes to another key once it is told to.
Page(v, k) == LET g == Guide(v, k) IN IF g.to = None THEN g ELSE Guide(v, g.to)

\* What it then shows: also to a user without the right group, who is signed in.
Shows(v, k) ==
    LET g == Page(v, k) IN
    CASE g.status = "not found" -> [card |-> "Event not found", event |-> None]
      [] g.status = "forbidden" -> [card |-> "Sign in required", event |-> None]
      [] g.status = "ok" -> [card |-> "Push-streaming guide", event |-> g.event]

\* The overview tab asks for the guide under the key of its event.
Overview(v, e) == IF OpensEvent(v, e) THEN Guide(v, event[e].slug).event ELSE None

-------------------------------------------------------------------------------
(* Properties *)

\* Every variable has its type; an alias or a restriction of an event that is
\* gone, or a restriction to a group that is gone, went with it.
BookTypeOK ==
    /\ event \in [Events -> EventRows]
    /\ alias \in [Keys -> There \cup {None}]
    /\ scope \subseteq There \X groups
    /\ groups \subseteq Groups
    /\ asked \in [Events -> Audiences]

MayHaveSeen(v, aud) ==
    \/ v.role = "admin" \/ aud.vis = "public"
    \/ v.role = "user" /\ (aud.vis = "registered" \/ v.in \cap aud.groups # {})

\* Whatever failed half way and whichever groups were deleted since, a viewer
\* is shown an event, in a list or by any key, only as the last request that
\* was carried out for the event asked.  (canViewEvent, setEventGroups)
SeenAsAsked ==
    \A v \in Viewers :
        \A e \in HomePage \cup EventsPage(v) \cup {e \in Events : OpensEvent(v, e)}
                  \cup ({Shows(v, k).event : k \in Keys} \ {None}) :
            MayHaveSeen(v, asked[e])

\* No old key, of this event or another, comes between an event and its own
\* key, also after creations and renames that failed half way: who may view it
\* finds it there, on the guide page and in the dashboard.  (guide.get.ts)
OwnKeyLeadsHome ==
    \A e \in There, v \in Viewers : event[e].open /\ CanView(v, e) =>
        /\ Shows(v, event[e].slug).event = e
        /\ Guide(v, event[e].slug).to = None
        /\ OpensEvent(v, e) => Overview(v, e) = e

-----------------------------------------------------------------------------
(* What a comment says and the code does not do; see the README. *)

\* schema.ts:121-123: the old key leads visitors to the new one until a new event
\* claims it.  So an alias goes only when its key is claimed or its event goes.
RetiredKeysRedirect ==
    [][\A k \in Keys, e \in Events :
           alias[k] = e /\ alias'[k] # e =>
               event'[e].st = "gone" \/ \E f \in Events : event'[f].slug = k]_bookVars

===============================================================================
