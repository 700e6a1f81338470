--------------------------- MODULE MembershipProofs ---------------------------
(***************************************************************************)
(* Proofs about Membership, for any finite or infinite sets of users,      *)
(* groups and invites: the foreign keys hold, an invite lets in no more    *)
(* than its uses, and a membership nobody was promised does not arise.     *)
(***************************************************************************)
EXTENDS Membership, TLAPS

\* What the page fetched or sent is about users there are.
PageKnows ==
    /\ \A u \in Edited : page.list[u] # None => u \in Registered
    /\ \A x \in flight : x.user \in Registered

\* The counter of a row is the number of joins through it.
UsesCounted ==
    \A i \in Invites :
        /\ joins[i] <= MaxUses
        /\ invites[i].st = "unmade" => joins[i] = 0
        /\ IsRow(i) => joins[i] = invites[i].used

MemInv == TypeOK /\ PageKnows /\ UsesCounted /\ FailureGrantsNothing

USE MembershipAssumption

\* At first there are no members, no invites and no requests.
LEMMA InitHolds == Init => MemInv
<1> SUFFICES ASSUME Init PROVE MemInv
    OBVIOUS
<1>1. \A u \in Edited : Listed[u] \in Rows \cup {None}
      BY DEF Init, Listed, Rows, Roles, GroupsOf, Registered
<1>2. page \in PageStates
      BY <1>1 DEF Init, PageStates, Listed
<1>3. TypeOK
      BY <1>2 DEF Init, TypeOK, Registered, There, Roles, Tabs, InviteRows, NoInvite, IsRow
<1>4. PageKnows
      BY DEF Init, PageKnows, Listed, Registered
<1>5. UsesCounted
      BY DEF Init, UsesCounted, NoInvite, IsRow
<1>6. QED
      BY <1>3, <1>4, <1>5 DEF MemInv, FailureGrantsNothing, Init

-------------------------------------------------------------------------------
(* The actions, by what they write. *)

\* A group that goes takes its members and its invites along.
LEMMA GroupsKeep ==
    ASSUME MemInv, NEW g \in Groups, CreateGroup(g) \/ DeleteGroup(g)
    PROVE  MemInv'
<1> USE DEF MemInv, pageVars, histVars
<1>1. CASE CreateGroup(g)
  <2>1. TypeOK'
    BY <1>1 DEF CreateGroup, TypeOK, There, Registered, IsRow
  <2> QED
    BY <1>1, <2>1 DEF CreateGroup, PageKnows, Registered, UsesCounted, IsRow, FailureGrantsNothing
<1>2. CASE DeleteGroup(g)
  <2>1. member' \subseteq Registered' \X There'
    BY <1>2 DEF DeleteGroup, MembersWithout, TypeOK, There, Registered
  <2>2. /\ invites' \in [Invites -> InviteRows]
        /\ \A i \in Invites : IsRow(i)' => invites[i] = invites'[i] /\ IsRow(i)
                                             /\ invites[i].group # g
    BY <1>2 DEF DeleteGroup, InvitesTo, NoInvite, InviteRows, TypeOK, IsRow
  <2>3. \A i \in Invites : invites'[i].st = "unmade" => invites[i].st = "unmade"
    BY <1>2 DEF DeleteGroup, InvitesTo, NoInvite, TypeOK
  <2>4. TypeOK'
    BY <1>2, <2>1, <2>2 DEF DeleteGroup, TypeOK, There, IsRow
  <2>5. UsesCounted'
    BY <1>2, <2>2, <2>3 DEF DeleteGroup, UsesCounted
  <2> QED
    BY <1>2, <2>4, <2>5 DEF DeleteGroup, MembersWithout, PageKnows, Registered, FailureGrantsNothing
<1> QED
  BY <1>1, <1>2

\* An invite is made for a group there is, and its uses start at none.
LEMMA InvitesKeep ==
    ASSUME MemInv, NEW i \in Invites,
           \/ \E g \in Groups : CreateInvite(i, g)
           \/ RemoveInvite(i)
           \/ ExpireInvite(i)
    PROVE  MemInv'
<1> USE DEF MemInv, pageVars, histVars
<1>1. ASSUME NEW g \in Groups, CreateInvite(i, g)
      PROVE  MemInv'
  <2>1. TypeOK'
    BY <1>1 DEF CreateInvite, TypeOK, InviteRows, IsRow, There, Registered
  <2>2. UsesCounted'
    BY <1>1 DEF CreateInvite, UsesCounted, IsRow, TypeOK, InviteRows
  <2> QED
    BY <1>1, <2>1, <2>2 DEF CreateInvite, PageKnows, Registered, FailureGrantsNothing
<1>2. CASE RemoveInvite(i)
  <2>1. TypeOK'
    BY <1>2 DEF RemoveInvite, NoInvite, TypeOK, InviteRows, IsRow, There, Registered
  <2>2. UsesCounted'
    BY <1>2 DEF RemoveInvite, NoInvite, UsesCounted, IsRow, TypeOK, InviteRows
  <2> QED
    BY <1>2, <2>1, <2>2 DEF RemoveInvite, PageKnows, Registered, FailureGrantsNothing
<1>3. CASE ExpireInvite(i)
  <2>1. TypeOK'
    BY <1>3 DEF ExpireInvite, TypeOK, InviteRows, IsRow, There, Registered
  <2>2. UsesCounted'
    BY <1>3 DEF ExpireInvite, UsesCounted, IsRow, TypeOK, InviteRows
  <2> QED
    BY <1>3, <2>1, <2>2 DEF ExpireInvite, PageKnows, Registered, FailureGrantsNothing
<1> QED
  BY <1>1, <1>2, <1>3

\* consumeInvite counts a use for every join, and only while some are left.
LEMMA ConsumeKeeps ==
    ASSUME MemInv, NEW i \in Invites, NEW u \in Users, ConsumeInvite(i, u),
           groups' = groups,
           role' \in [Users -> Roles \cup {"none"}],
           Registered \subseteq Registered', u \in Registered'
    PROVE  /\ member' \subseteq Registered' \X There'
           /\ invites' \in [Invites -> InviteRows]
           /\ \A j \in Invites : IsRow(j)' => invites'[j].group \in There'
           /\ joins' \in [Invites -> Nat]
           /\ granted' \subseteq Users \X Groups
           /\ UsesCounted'
           /\ FailureGrantsNothing'
<1> USE DEF MemInv, histVars
<1>1. There' = There
  BY DEF There
<1>2. CASE Admits(i, u) /\ invites[i].group \notin GroupsOf(u)
  <2>1. /\ IsRow(i) /\ invites[i].st = "open"
        /\ invites[i].used \in Nat /\ joins[i] = invites[i].used /\ joins[i] < MaxUses
        /\ invites[i].group \in There
    BY <1>2 DEF Admits, Open, Exhausted, IsRow, TypeOK, InviteRows, UsesCounted
  <2>2. /\ member' = member \cup {<<u, invites[i].group>>}
        /\ invites' = [invites EXCEPT ![i].used = @ + 1]
        /\ joins' = [joins EXCEPT ![i] = @ + 1]
        /\ granted' = granted \cup {<<u, invites[i].group>>}
    BY <1>2 DEF ConsumeInvite
  <2>3. \A j \in Invites : /\ invites'[j].st = invites[j].st
                           /\ invites'[j].group = invites[j].group
                           /\ j # i => invites'[j] = invites[j] /\ joins'[j] = joins[j]
    BY <2>2 DEF TypeOK, InviteRows
  <2>4. invites'[i].used = invites[i].used + 1 /\ joins'[i] = joins[i] + 1
    BY <2>2 DEF TypeOK, InviteRows
  <2>5. invites' \in [Invites -> InviteRows] /\ joins' \in [Invites -> Nat]
    BY <2>1, <2>2 DEF TypeOK, InviteRows
  <2>6. member' \subseteq Registered' \X There' /\ granted' \subseteq Users \X Groups
    BY <1>1, <2>1, <2>2 DEF TypeOK, There
  <2>7. UsesCounted'
    BY <2>1, <2>3, <2>4 DEF UsesCounted, IsRow, TypeOK
  <2>8. \A j \in Invites : IsRow(j)' => invites'[j].group \in There'
    BY <1>1, <2>3 DEF IsRow, TypeOK
  <2> QED
    BY <2>2, <2>5, <2>6, <2>7, <2>8 DEF FailureGrantsNothing
<1>3. CASE ~(Admits(i, u) /\ invites[i].group \notin GroupsOf(u))
  <2>1. UNCHANGED <<member, invites, joins, granted>>
    BY <1>3 DEF ConsumeInvite
  <2> QED
    BY <1>1, <2>1 DEF TypeOK, UsesCounted, IsRow, FailureGrantsNothing
<1> QED
  BY <1>2, <1>3

\* Claims and registrations add to the users and their groups.
LEMMA JoiningKeeps ==
    ASSUME MemInv, NEW u \in Users,
           (\E i \in Invites : Claim(i, u)) \/ Register(u)
    PROVE  MemInv'
<1> USE DEF MemInv, pageVars, histVars
<1>1. ASSUME NEW i \in Invites, Claim(i, u)
      PROVE  MemInv'
  <2>1. Registered' = Registered /\ u \in Registered /\ groups' = groups /\ role' = role
        /\ ConsumeInvite(i, u)
    BY <1>1 DEF Claim, Registered
  <2>2. role' \in [Users -> Roles \cup {"none"}]
    BY <2>1 DEF TypeOK
  <2>3. TypeOK' /\ UsesCounted' /\ FailureGrantsNothing'
    BY <1>1, <2>1, <2>2, ConsumeKeeps DEF Claim, TypeOK
  <2> QED
    BY <1>1, <2>1, <2>3 DEF Claim, PageKnows
<1>2. CASE Register(u)
  <2>1. /\ role' \in [Users -> Roles \cup {"none"}]
        /\ Registered \subseteq Registered' /\ u \in Registered'
        /\ groups' = groups
        /\ browser' \in [Users -> Tabs]
    BY <1>2 DEF Register, Registered, Roles, TypeOK, Tabs
  <2>2. CASE browser[u].stash = None
    <3>1. TypeOK'
      BY <1>2, <2>1, <2>2 DEF Register, TypeOK, There, IsRow
    <3> QED
      BY <1>2, <2>1, <2>2, <3>1
      DEF Register, PageKnows, UsesCounted, IsRow, FailureGrantsNothing
  <2>3. CASE browser[u].stash # None
    <3>1. browser[u].stash \in Invites /\ ConsumeInvite(browser[u].stash, u)
      BY <1>2, <2>3 DEF Register, TypeOK, Tabs
    <3>2. TypeOK' /\ UsesCounted' /\ FailureGrantsNothing'
      BY <1>2, <2>1, <3>1, ConsumeKeeps DEF Register, TypeOK
    <3> QED
      BY <1>2, <2>1, <3>2 DEF Register, PageKnows
  <2> QED
    BY <2>2, <2>3
<1> QED
  BY <1>1, <1>2

\* What a person's tab holds is an invite or nothing.
LEMMA TabsKeep ==
    ASSUME MemInv, NEW u \in Users,
           (\E i \in Invites : GoSignIn(i, u)) \/ RegisterFails(u) \/ SignIn(u)
    PROVE  MemInv'
<1> USE DEF MemInv, pageVars, histVars
<1>1. browser' \in [Users -> Tabs]
  BY DEF GoSignIn, RegisterFails, SignIn, TypeOK, Tabs
<1>2. UNCHANGED <<groups, role, member, invites, page, flight, joins, granted>>
  BY DEF GoSignIn, RegisterFails, SignIn
<1>3. TypeOK'
  BY <1>1, <1>2 DEF TypeOK, There, Registered, IsRow
<1> QED
  BY <1>2, <1>3 DEF PageKnows, Registered, UsesCounted, IsRow, FailureGrantsNothing

-------------------------------------------------------------------------------
(* The administrator's page. *)

\* What the server answers is well formed, and about users there are.
LEMMA ListedIsRows ==
    ASSUME TypeOK, NEW u \in Edited
    PROVE  /\ Listed[u] \in Rows \cup {None}
           /\ Listed[u] # None => u \in Registered
BY DEF Listed, TypeOK, Rows, Roles, GroupsOf, Registered

\* A draft of a user the page knows is a row.
LEMMA DraftIsRow ==
    ASSUME TypeOK, NEW u \in Edited, page.list[u] # None
    PROVE  Draft(u) \in Rows
BY DEF Draft, TypeOK, PageStates

\* A step of the page alone is harmless if it leaves the page well formed.
LEMMA PageStep ==
    ASSUME MemInv,
           UNCHANGED <<groups, role, member, invites, browser, joins, granted>>,
           page' \in PageStates,
           \A u \in Edited : page'.list[u] # None => u \in Registered,
           flight' \subseteq Patches,
           \A x \in flight' : x.user \in Registered
    PROVE  MemInv'
<1>1. Registered' = Registered /\ There' = There
  BY DEF Registered, There
<1>2. TypeOK'
  BY <1>1 DEF MemInv, TypeOK, IsRow
<1> QED
  BY <1>1, <1>2 DEF MemInv, PageKnows, UsesCounted, IsRow, FailureGrantsNothing

\* Setting one field of the page to a value of its type.
LEMMA FieldSet ==
    ASSUME NEW p \in PageStates
    PROVE  /\ \A v \in [Edited -> Rows \cup {None}] :
                 /\ [p EXCEPT !.list = v] \in PageStates /\ [p EXCEPT !.list = v].list = v
                 /\ [p EXCEPT !.draft = v] \in PageStates /\ [p EXCEPT !.draft = v].list = p.list
           /\ \A v \in 0 .. MaxPatches :
                 [p EXCEPT !.save = v] \in PageStates /\ [p EXCEPT !.save = v].list = p.list
           /\ \A v \in BOOLEAN :
                 [p EXCEPT !.ok = v] \in PageStates /\ [p EXCEPT !.ok = v].list = p.list
BY DEF PageStates

\* Fetching: what was fetched replaces the list.
LEMMA FetchingKeeps ==
    ASSUME MemInv, OpenPage \/ SaveFailed \/ SaveDone
    PROVE  MemInv'
<1> USE DEF MemInv, histVars
<1>1. /\ UNCHANGED <<groups, role, member, invites, browser, joins, granted, flight>>
      /\ page'.list = Listed
      /\ page' \in PageStates
  <2>1. Listed \in [Edited -> Rows \cup {None}]
    BY ListedIsRows DEF Listed
  <2>2. CASE OpenPage
    BY <2>1, <2>2, MembershipAssumption DEF OpenPage, PageStates, There
  <2>3. CASE SaveFailed
    <3> DEFINE p1 == [page EXCEPT !.list = Listed]
               p2 == [p1 EXCEPT !.save = 0]
    <3>1. p1 \in PageStates /\ p1.list = Listed
      BY <2>1, FieldSet DEF TypeOK
    <3>2. p2 \in PageStates /\ p2.list = Listed
      <4> HIDE DEF p1
      <4> QED
        BY <3>1, FieldSet, MembershipAssumption
    <3>3. page' = [p2 EXCEPT !.ok = TRUE]
      BY <2>3, Zenon DEF SaveFailed
    <3> HIDE DEF p2
    <3>4. page' \in PageStates /\ page'.list = Listed
      BY <3>2, <3>3, FieldSet
    <3> QED
      BY <2>3, <3>4 DEF SaveFailed
  <2>4. CASE SaveDone
    <3> DEFINE none == [u \in Edited |-> None]
               p1 == [page EXCEPT !.list = Listed]
               p2 == [p1 EXCEPT !.save = 0]
    <3>1. p1 \in PageStates /\ p1.list = Listed
      BY <2>1, FieldSet DEF TypeOK
    <3>2. p2 \in PageStates /\ p2.list = Listed
      <4> HIDE DEF p1
      <4> QED
        BY <3>1, FieldSet, MembershipAssumption
    <3>3. page' = [p2 EXCEPT !.draft = none]
      BY <2>4, Zenon DEF SaveDone
    <3>4. none \in [Edited -> Rows \cup {None}]
      OBVIOUS
    <3> HIDE DEF p2, none
    <3>5. page' \in PageStates /\ page'.list = Listed
      BY <3>2, <3>3, <3>4, FieldSet
    <3> QED
      BY <2>4, <3>5 DEF SaveDone
  <2> QED
    BY <2>2, <2>3, <2>4
<1>2. \A u \in Edited : page'.list[u] # None => u \in Registered
  BY <1>1, ListedIsRows
<1> QED
  BY <1>1, <1>2, PageStep DEF TypeOK, PageKnows

\* Editing: the list stays, the drafts are rows or none.
LEMMA EditingKeeps ==
    ASSUME MemInv,
           \/ Discard
           \/ \E u \in Edited : \/ \E r \in Roles : SetRole(u, r)
                                \/ \E g \in Groups : ToggleGroup(u, g)
    PROVE  MemInv'
<1> USE DEF MemInv, histVars
<1> DEFINE Edits == /\ UNCHANGED <<groups, role, member, invites, browser, joins, granted, flight>>
                    /\ page'.list = page.list
                    /\ page' \in PageStates
<1>1. Edits
  <2>1. CASE Discard
    BY <2>1 DEF Discard, TypeOK, PageStates
  <2>2. ASSUME NEW u \in Edited, NEW r \in Roles, SetRole(u, r)
        PROVE  Edits
    <3>1. [Draft(u) EXCEPT !.role = r] \in Rows
      BY <2>2, DraftIsRow DEF SetRole, Editable, Rows
    <3> QED
      BY <2>2, <3>1 DEF SetRole, TypeOK, PageStates
  <2>3. ASSUME NEW u \in Edited, NEW g \in Groups, ToggleGroup(u, g)
        PROVE  Edits
    <3>1. [Draft(u) EXCEPT !.groups = IF g \in @ THEN @ \ {g} ELSE @ \cup {g}] \in Rows
      BY <2>3, DraftIsRow DEF ToggleGroup, Editable, Rows
    <3> QED
      BY <2>3, <3>1 DEF ToggleGroup, TypeOK, PageStates
  <2> QED
    BY <2>1, <2>2, <2>3
<1> QED
  BY <1>1, PageStep DEF TypeOK, PageKnows

\* Saving: what is sent are drafts of users the page knows.
LEMMA SavingKeeps ==
    ASSUME MemInv, SaveAll
    PROVE  MemInv'
<1> USE DEF MemInv, histVars
<1>1. PICK n \in 1 .. MaxPatches :
          /\ page' = [page EXCEPT !.save = n, !.ok = TRUE]
          /\ flight' = flight \cup {[user |-> u, row |-> Draft(u), save |-> n] : u \in Dirty}
  BY DEF SaveAll
<1>2. \A u \in Dirty : u \in Edited /\ u \in Registered /\ Draft(u) \in Rows
  BY DraftIsRow DEF Dirty, PageKnows
<1>3. flight' \subseteq Patches /\ \A x \in flight' : x.user \in Registered
  BY <1>1, <1>2 DEF TypeOK, Patches, PageKnows
<1>4. page' \in PageStates /\ page'.list = page.list
  <2> DEFINE p1 == [page EXCEPT !.save = n]
  <2>1. p1 \in PageStates /\ p1.list = page.list
    BY FieldSet, MembershipAssumption DEF TypeOK
  <2>2. page' = [p1 EXCEPT !.ok = TRUE]
    BY <1>1, Zenon
  <2> HIDE DEF p1
  <2> QED
    BY <2>1, <2>2, FieldSet
<1>5. UNCHANGED <<groups, role, member, invites, browser, joins, granted>>
  BY DEF SaveAll
<1> QED
  BY <1>3, <1>4, <1>5, PageStep DEF PageKnows

\* The handler gives the memberships it was asked for if every group is still
\* there, and none otherwise.
LEMMA PatchKeeps ==
    ASSUME MemInv, NEW x \in flight, Patch(x)
    PROVE  MemInv'
<1> USE DEF MemInv
<1>1. /\ x.user \in Users /\ x.user \in Registered
      /\ x.row.role \in Roles /\ x.row.groups \subseteq Groups
  BY MembershipAssumption DEF TypeOK, Patches, Rows, PageKnows, Registered
<1>2. /\ role' \in [Users -> Roles \cup {"none"}]
      /\ Registered' = Registered
      /\ There' = There
      /\ UNCHANGED <<groups, invites, browser, joins>>
      /\ flight' \subseteq flight
  BY <1>1 DEF Patch, Registered, Roles, TypeOK, There
<1>3. page' \in PageStates /\ page'.list = page.list
  <2>1. ASSUME NEW b \in BOOLEAN, page' = [page EXCEPT !.ok = b]
        PROVE  page' \in PageStates /\ page'.list = page.list
    BY <2>1 DEF TypeOK, PageStates
  <2>2. CASE page' = page
    BY <2>2 DEF TypeOK
  <2>3. page' = page \/ \E b \in BOOLEAN : page' = [page EXCEPT !.ok = b]
    BY Zenon DEF Patch
  <2> QED
    BY <2>1, <2>2, <2>3
<1>4. member' \subseteq Registered \X There
  BY <1>1 DEF Patch, Inserted, TypeOK
<1>5. granted' \subseteq Users \X Groups /\ member' \subseteq granted'
  <2>1. CASE x.row.groups \subseteq There
    BY <1>1, <2>1 DEF Patch, Inserted, TypeOK, FailureGrantsNothing
  <2>2. CASE ~(x.row.groups \subseteq There)
    BY <2>2 DEF Patch, Inserted, TypeOK, FailureGrantsNothing
  <2> QED
    BY <2>1, <2>2
<1>6. TypeOK'
  BY <1>2, <1>3, <1>4, <1>5 DEF TypeOK, IsRow
<1> QED
  BY <1>2, <1>3, <1>5, <1>6 DEF PageKnows, UsesCounted, IsRow, FailureGrantsNothing

-------------------------------------------------------------------------------
(* The theorems. *)

\* Every step keeps the invariant.
LEMMA NextKeeps == MemInv /\ [Next]_vars => MemInv'
<1> SUFFICES ASSUME MemInv, [Next]_vars PROVE MemInv'
  OBVIOUS
<1>1. CASE UNCHANGED vars
  BY <1>1 DEF vars, pageVars, histVars, MemInv, TypeOK, PageKnows, UsesCounted,
              FailureGrantsNothing, Registered, There, IsRow
<1>2. CASE Next
  BY <1>2, GroupsKeep, InvitesKeep, JoiningKeeps, TabsKeep, FetchingKeeps, EditingKeeps,
     SavingKeeps, PatchKeeps
  DEF Next
<1> QED
  BY <1>1, <1>2

\* Rows are well formed and refer to rows there are: no member of a group that is
\* gone, no invite to one, whatever the order of deletions, saves and claims.
THEOREM MembershipSafe == Spec => []MemInv
BY InitHolds, NextKeeps, PTL DEF Spec

\* No invite lets in more people than its uses.
THEOREM BudgetHolds == Spec => []InviteBudget
<1>1. MemInv => InviteBudget
  BY DEF MemInv, UsesCounted, InviteBudget
<1> QED
  BY <1>1, MembershipSafe, PTL

\* A request that fails gives nobody a membership.
THEOREM NothingByFailure == Spec => []FailureGrantsNothing
<1>1. MemInv => FailureGrantsNothing
  BY DEF MemInv
<1> QED
  BY <1>1, MembershipSafe, PTL
===============================================================================
