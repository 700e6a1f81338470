------------------------------- MODULE Membership -------------------------------
(***************************************************************************)
(* Membership: groups, who belongs to them (services/groups.ts), the       *)
(* invite links that let people in (services/invites.ts), the pages an     *)
(* invited person passes (invite.vue, login.vue) and the page on which an  *)
(* administrator ticks groups and sets roles (users.vue).                  *)
(*                                                                         *)
(* The administrator's page edits the users in Edited and may have other   *)
(* rows to save, of which only the failure shows.  Its PATCHes travel side *)
(* by side.  Ids are never used again, so a group or an invite that is     *)
(* gone stays gone.  A database statement takes effect or fails as a       *)
(* whole, and a handler that fails keeps what it did before; foreign keys  *)
(* are enforced (db.ts).  The account of the administrator is no member of *)
(* Users, the names of groups are in EditPages, and nothing deletes users. *)
(***************************************************************************)
EXTENDS Naturals, FiniteSets

CONSTANTS
    Users, Groups, Invites,
    Edited,     \* the users whose rows the administrator edits
    MaxUses,    \* maxUses of the invites; unlimited ones have no budget
    MaxPatches, \* bound: saves of the administrator's page under way at once
    None

ASSUME MembershipAssumption ==
    /\ Edited \subseteq Users
    /\ MaxUses \in Nat \ {0} /\ MaxPatches \in Nat \ {0}
    /\ None \notin Invites /\ None \notin [role : {"user", "admin"}, groups : SUBSET Groups]

VARIABLES
    groups,   \* unmade, there or gone
    role,     \* of the users table; none before the registration
    member,   \* user_groups
    invites,  \* invite_links
    browser,  \* what a person's tab holds
    page,     \* the administrator's page
    flight,   \* its PATCHes under way
    joins,    \* joins through each invite (history)
    granted   \* the memberships somebody was answered with success (history)

pageVars == <<page, flight>>
histVars == <<joins, granted>>
vars == <<groups, role, member, invites, browser, pageVars, histVars>>

-------------------------------------------------------------------------------
Roles == {"user", "admin"}

\* What a row of the page, or a PATCH, says of a user
Rows == [role : Roles, groups : SUBSET Groups]

\* st: unmade, open or over, where its time is up, or gone
InviteRows == [st : {"unmade", "open", "over", "gone"}, group : Groups \cup {None},
               used : Nat]
NoInvite(st) == [st |-> st, group |-> None, used |-> 0]

\* stash: the invite in sessionStorage, for the next registration.
\* banner: the one the login page announces.
Tabs == [stash : Invites \cup {None}, banner : Invites \cup {None}]

\* list, known: the users and the groups as fetched.  save: the number of the
\* save the page waits for, 0 when it waits for none.  ok: nothing of it failed.
PageStates == [list : [Edited -> Rows \cup {None}], known : SUBSET Groups,
               draft : [Edited -> Rows \cup {None}], save : 0 .. MaxPatches,
               ok : BOOLEAN]

Patches == [user : Edited, row : Rows, save : 1 .. MaxPatches]

There == {g \in Groups : groups[g] = "there"}
Registered == {u \in Users : role[u] # "none"}
GroupsOf(u) == {g \in Groups : <<u, g>> \in member}

\* listUsersWithGroups
Listed == [u \in Edited |->
    IF u \in Registered THEN [role |-> role[u], groups |-> GroupsOf(u)] ELSE None]

Init ==
    /\ groups = [g \in Groups |-> "unmade"]
    /\ role \in [Users -> {"none", "user"}]
    /\ member = {}
    /\ invites = [i \in Invites |-> NoInvite("unmade")]
    /\ browser = [u \in Users |-> [stash |-> None, banner |-> None]]
    /\ page = [list |-> Listed, known |-> {}, draft |-> [u \in Edited |-> None], save |-> 0,
               ok |-> TRUE]
    /\ flight = {}
    /\ joins = [i \in Invites |-> 0]
    /\ granted = {}

-------------------------------------------------------------------------------
(* Groups and invites, by any administrator *)

CreateGroup(g) ==
    /\ groups[g] = "unmade"
    /\ groups' = [groups EXCEPT ![g] = "there"]
    /\ UNCHANGED <<role, member, invites, browser, pageVars, histVars>>

\* The foreign keys take the members along.
MembersWithout(g) == {m \in member : m[2] # g}

IsRow(i) == invites[i].st \in {"open", "over"}
InvitesTo(g) == {i \in Invites : invites[i].group = g}

DeleteGroup(g) ==
    /\ groups[g] = "there"
    /\ groups' = [groups EXCEPT ![g] = "gone"]
    /\ member' = MembersWithout(g)
    /\ invites' = [i \in Invites |-> IF i \in InvitesTo(g) THEN NoInvite("gone") ELSE invites[i]]
    /\ UNCHANGED <<role, browser, pageVars, histVars>>

CreateInvite(i, g) ==
    /\ invites[i].st = "unmade" /\ g \in There
    /\ invites' = [invites EXCEPT ![i] = [st |-> "open", group |-> g, used |-> 0]]
    /\ UNCHANGED <<groups, role, member, browser, pageVars, histVars>>

RemoveInvite(i) ==
    /\ IsRow(i)
    /\ invites' = [invites EXCEPT ![i] = NoInvite("gone")]
    /\ UNCHANGED <<groups, role, member, browser, pageVars, histVars>>

\* Its time is over.  Nothing sets active to false: deactivateInvite has no caller.
ExpireInvite(i) ==
    /\ invites[i].st = "open"
    /\ invites' = [invites EXCEPT ![i].st = "over"]
    /\ UNCHANGED <<groups, role, member, browser, pageVars, histVars>>

-------------------------------------------------------------------------------
(* The use of an invite *)

\* (Mutant: the members there are count as its uses.)
ExhaustedByMembers(i) ==
    Cardinality({u \in Users : <<u, invites[i].group>> \in member}) >= MaxUses

Exhausted(i) == invites[i].used >= MaxUses

Open(i) == invites[i].st = "open" /\ ~Exhausted(i)

\* consumeInvite returns the group: to somebody who is in already, or now is.
Admits(i, u) == IsRow(i) /\ (invites[i].group \in GroupsOf(u) \/ Open(i))

\* The part of consumeInvite that writes; who is a member costs no use.
ConsumeInvite(i, u) ==
    IF Admits(i, u) /\ invites[i].group \notin GroupsOf(u)
    THEN /\ member' = member \cup {<<u, invites[i].group>>}
         /\ invites' = [invites EXCEPT ![i].used = @ + 1]
         /\ joins' = [joins EXCEPT ![i] = @ + 1]
         /\ granted' = granted \cup {<<u, invites[i].group>>}
    ELSE UNCHANGED <<member, invites, histVars>>

\* Somebody who is signed in joins on the invite's page.
Claim(i, u) ==
    /\ u \in Registered
    /\ Admits(i, u)
    /\ ConsumeInvite(i, u)
    /\ UNCHANGED <<groups, role, browser, pageVars>>

\* Somebody who is not goes on to the login page, which announces the invite
\* and stashes it.
GoSignIn(i, u) ==
    /\ invites[i].st # "unmade"
    /\ browser' = [browser EXCEPT ![u] = [stash |-> i, banner |-> i]]
    /\ UNCHANGED <<groups, role, member, invites, pageVars, histVars>>

\* A registration takes the stash before it posts, and the post is refused.
RegisterFails(u) ==
    /\ u \notin Registered /\ browser[u].stash # None
    /\ browser' = [browser EXCEPT ![u].stash = None]
    /\ UNCHANGED <<groups, role, member, invites, pageVars, histVars>>

Register(u) ==
    /\ u \notin Registered
    /\ role' = [role EXCEPT ![u] = "user"]
    /\ IF browser[u].stash = None THEN UNCHANGED <<member, invites, histVars>>
                                  ELSE ConsumeInvite(browser[u].stash, u)
    /\ browser' = [browser EXCEPT ![u] = [stash |-> None, banner |-> None]]
    /\ UNCHANGED <<groups, pageVars>>

\* login leads to the dashboard; the stash stays where it is.
SignIn(u) ==
    /\ u \in Registered /\ browser[u].banner # None
    /\ browser' = [browser EXCEPT ![u].banner = None]
    /\ UNCHANGED <<groups, role, member, invites, pageVars, histVars>>

-------------------------------------------------------------------------------
(* The administrator's page *)

OpenPage ==
    /\ page' = [list |-> Listed, known |-> There,
                draft |-> [u \in Edited |-> None], save |-> 0, ok |-> TRUE]
    /\ UNCHANGED <<groups, role, member, invites, browser, flight, histVars>>

\* ensureDraft: the row as it was fetched, unless there is a draft.
Draft(u) == IF page.draft[u] = None THEN page.list[u] ELSE page.draft[u]

Editable(u) == page.save = 0 /\ page.list[u] # None

SetRole(u, r) ==
    /\ Editable(u) /\ Draft(u).role # r
    /\ page' = [page EXCEPT !.draft[u] = [Draft(u) EXCEPT !.role = r]]
    /\ UNCHANGED <<groups, role, member, invites, browser, flight, histVars>>

ToggleGroup(u, g) ==
    /\ Editable(u) /\ g \in page.known
    /\ page' = [page EXCEPT !.draft[u] = [Draft(u) EXCEPT !.groups =
           IF g \in @ THEN @ \ {g} ELSE @ \cup {g}]]
    /\ UNCHANGED <<groups, role, member, invites, browser, flight, histVars>>

Dirty == {u \in Edited : page.list[u] # None /\ Draft(u) # page.list[u]}

\* The rows that differ from what was fetched are sent, role and groups.
SaveAll ==
    /\ page.save = 0 /\ Dirty # {}
    /\ \E n \in 1 .. MaxPatches :
          /\ \A x \in flight : x.save # n
          /\ page' = [page EXCEPT !.save = n, !.ok = TRUE]
          /\ flight' = flight \cup {[user |-> u, row |-> Draft(u), save |-> n] : u \in Dirty}
    /\ UNCHANGED <<groups, role, member, invites, browser, histVars>>

Discard ==
    /\ page.save = 0 /\ Dirty # {}
    /\ page' = [page EXCEPT !.draft = [u \in Edited |-> None]]
    /\ UNCHANGED <<groups, role, member, invites, browser, flight, histVars>>

\* (Mutant: the groups that are still there are inserted.)
InsertedSome(u, gs) == {<<u, g>> : g \in gs \cap There}

\* setUserGroups inserts all or none: a group that is gone fails the statement.
Inserted(u, gs) == IF gs \subseteq There THEN {<<u, g>> : g \in gs} ELSE {}

\* The handler: the role, then the groups removed, then the new ones inserted.
Patch(x) ==
    /\ x \in flight
    /\ flight' = flight \ {x}
    /\ role' = [role EXCEPT ![x.user] = x.row.role]
    /\ member' = {m \in member : m[1] # x.user} \cup Inserted(x.user, x.row.groups)
    /\ IF x.row.groups \subseteq There
       THEN /\ granted' = granted \cup {<<x.user, g>> : g \in x.row.groups}
            /\ UNCHANGED page
       ELSE /\ page' = [page EXCEPT !.ok = @ /\ page.save # x.save]
            /\ UNCHANGED granted
    /\ UNCHANGED <<groups, invites, browser, joins>>

\* One of the rows has failed, or another request of the save.  After a refresh
\* the drafts are still there, and so are the other PATCHes under way.
SaveFailed ==
    /\ page.save # 0
    /\ page' = [page EXCEPT !.list = Listed, !.save = 0, !.ok = TRUE]
    /\ UNCHANGED <<groups, role, member, invites, browser, flight, histVars>>

\* All have been answered: a refresh, and the drafts are dropped.
SaveDone ==
    /\ page.save # 0 /\ page.ok /\ \A x \in flight : x.save # page.save
    /\ page' = [page EXCEPT !.list = Listed, !.save = 0,
                            !.draft = [u \in Edited |-> None]]
    /\ UNCHANGED <<groups, role, member, invites, browser, flight, histVars>>

Next ==
    \/ \E g \in Groups : CreateGroup(g) \/ DeleteGroup(g)
    \/ \E i \in Invites :
          \/ \E g \in Groups : CreateInvite(i, g)
          \/ RemoveInvite(i) \/ ExpireInvite(i)
          \/ \E u \in Users : Claim(i, u) \/ GoSignIn(i, u)
    \/ \E u \in Users : RegisterFails(u) \/ Register(u) \/ SignIn(u)
    \/ OpenPage \/ SaveAll \/ Discard \/ SaveFailed \/ SaveDone
    \/ \E u \in Edited :
          \/ \E r \in Roles : SetRole(u, r)
          \/ \E g \in Groups : ToggleGroup(u, g)
    \/ \E x \in flight : Patch(x)

Spec == Init /\ [][Next]_vars

-------------------------------------------------------------------------------
(* Properties *)

\* The type invariant, with the foreign keys
TypeOK ==
    /\ groups \in [Groups -> {"unmade", "there", "gone"}]
    /\ role \in [Users -> Roles \cup {"none"}]
    /\ member \subseteq Registered \X There
    /\ invites \in [Invites -> InviteRows]
    /\ \A i \in Invites : IsRow(i) => invites[i].group \in There
    /\ browser \in [Users -> Tabs]
    /\ page \in PageStates
    /\ flight \subseteq Patches
    /\ joins \in [Invites -> Nat]
    /\ granted \subseteq Users \X Groups

\* Nobody is let in beyond maxUses, through people who leave the group and come
\* back, claims repeated by members and registrations at the same time
\* (invites.ts:90-101).
InviteBudget == \A i \in Invites : joins[i] <= MaxUses

\* Whoever is in a group got there by a claim, a registration or a save that
\* was answered with success: a save that fails half way takes memberships away
\* and gives none, although the page gives up on PATCHes that are still under
\* way and groups are deleted under it ([id].patch.ts:24-29,
\* groups.repository.ts:73-78).
FailureGrantsNothing == member \subseteq granted

-------------------------------------------------------------------------------
(* What the pages say and the code does not do; see the README. *)

\* Whoever registers or signs in on a page that announces an invite that is
\* still open is then a member: "your account will be added to the invite's
\* group" (login.vue:133), "Register or sign in to accept this invite and join
\* its group" (invite.vue:82).
BannerKept ==
    [][\A u \in Users :
          LET i == browser[u].banner
          IN  i # None /\ browser'[u].banner = None => (Open(i) => invites[i].group \in
              {g \in Groups : <<u, g>> \in member'})]_vars
===============================================================================
