---------------------------- MODULE AccountsProofs ----------------------------
(***************************************************************************)
(* Proofs about Accounts, for any addresses, pages and numbers of codes:   *)
(* who made an account read the mail of its address or was the first, a    *)
(* code can be guessed at so often and no more, and a page acts as the     *)
(* account it shows.                                                       *)
(***************************************************************************)
EXTENDS Accounts, TLAPS

\* A login that looked an account up, and an answer on its way, are about one
\* there is.
LookedUp ==
    \A p \in Pages : req[p].st \in {"verifying", "replying"} =>
        req[p].email \in Emails /\ users[req[p].email] # None

\* A code is in one entry at most, and it was mailed, or is being mailed, to the
\* address of that entry only.
CodesApart ==
    /\ \A k \in Emails \X Pages : codes[k] # None => codes[k].code <= made
    /\ \A k, l \in Emails \X Pages :
           codes[k] # None /\ codes[l] # None /\ codes[k].code = codes[l].code => k = l
    /\ \A m \in inbox : /\ m[1] <= made
                        /\ \A k \in Emails \X Pages : Matches(k, m[1]) => k[1] = m[2]
    /\ \A p \in Pages : req[p].st = "mailing" =>
           /\ req[p].code \in 1 .. made /\ req[p].email \in Emails
           /\ \A k \in Emails \X Pages : Matches(k, req[p].code) => k[1] = req[p].email

\* The attempts of an entry are all the wrong guesses at its code.
GuessesCounted ==
    /\ \A k \in Emails \X Pages : codes[k] # None => guesses[codes[k].code] = codes[k].attempts
    /\ \A c \in 1 .. MaxCodes : c > made => guesses[c] = 0

AccountsInv ==
    /\ TypeOK /\ LookedUp /\ CodesApart /\ GuessesCounted
    /\ OneBootstrap /\ OwnMailbox /\ GuessesBounded /\ ShownIsCookie

\* What a page may wait for
Requests == [st : ReqStates, email : Emails \cup {None},
             code : (1 .. MaxCodes) \cup {None}, salt : Pages \cup {None}]

USE AccountsAssumption, NoneIsNoRow

\* At first there is one account at most, and no code.
LEMMA InitHolds == Init => AccountsInv
<1> SUFFICES ASSUME Init PROVE AccountsInv
    OBVIOUS
<1>1. PICK S \in {{}} \cup {{e} : e \in Allowed \ Blocked} :
          users = [e \in Emails |-> IF e \in S THEN OldUser ELSE None]
      BY DEF Init
<1>2. OldUser \in Users /\ OldUser # None /\ OldUser.origin = "before"
      BY DEF OldUser, Users
<1>3. /\ \A e, f \in S : e = f
      /\ users \in [Emails -> Users \cup {None}]
      /\ \A e \in Emails : users[e] # None => e \in S /\ users[e].origin = "before"
      BY <1>1, <1>2
<1>4. /\ req = [p \in Pages |-> Idle] /\ Idle \in Requests /\ Idle.st = "idle"
      BY DEF Init, Idle, Requests, ReqStates
<1>5. TypeOK
  <2>1. tab \in [Pages -> Tabs] /\ cookie \in [Pages -> Emails \cup {None}]
        BY DEF Init, Tabs
  <2>2. /\ codes \in [Emails \X Pages -> Entries \cup {None}] /\ made \in 0 .. MaxCodes
        /\ inbox \subseteq (1 .. MaxCodes) \X Emails /\ guesses \in [1 .. MaxCodes -> Nat]
        BY DEF Init
  <2>3. row \in 0 .. MaxKeys /\ cache \in 0 .. MaxKeys /\ keys \in 0 .. MaxKeys
        BY DEF Init
  <2>4. req \in [Pages -> Requests]
        BY <1>4
  <2> QED
      BY <1>3, <2>1, <2>2, <2>3, <2>4 DEF TypeOK, Requests
<1>6. LookedUp /\ CodesApart /\ GuessesCounted
      BY <1>4 DEF Init, LookedUp, CodesApart, GuessesCounted, Matches
<1>7. OneBootstrap /\ OwnMailbox
      BY <1>3 DEF OneBootstrap, OwnMailbox
<1>8. GuessesBounded /\ ShownIsCookie
      BY DEF Init, GuessesBounded, ShownIsCookie
<1> QED
    BY <1>5, <1>6, <1>7, <1>8 DEF AccountsInv

-------------------------------------------------------------------------------
(* What a step may touch *)

\* Entries only go, and no mail is on its way that was not.
LEMMA MailKept ==
    ASSUME AccountsInv, UNCHANGED <<made, inbox, guesses>>,
           \A k \in Emails \X Pages : codes'[k] \in {codes[k], None},
           \A p \in Pages : req'[p].st = "mailing" => req'[p] = req[p]
    PROVE  CodesApart' /\ GuessesCounted' /\ GuessesBounded'
<1> USE DEF AccountsInv
<1>1. \A k \in Emails \X Pages : codes'[k] # None => codes'[k] = codes[k]
      OBVIOUS
<1>2. \A k \in Emails \X Pages : \A c : Matches(k, c)' => Matches(k, c)
      BY <1>1 DEF Matches
<1>3. CodesApart'
  <2>1. \A k \in Emails \X Pages : codes'[k] # None => codes'[k].code <= made'
        BY <1>1 DEF CodesApart
  <2>2. \A k, l \in Emails \X Pages :
            codes'[k] # None /\ codes'[l] # None /\ codes'[k].code = codes'[l].code => k = l
        BY <1>1 DEF CodesApart
  <2>3. \A m \in inbox : m[1] <= made /\ \A k \in Emails \X Pages : Matches(k, m[1])' => k[1] = m[2]
        BY <1>2 DEF CodesApart
  <2>4. ASSUME NEW p \in Pages, req'[p].st = "mailing"
        PROVE  /\ req'[p].code \in 1 .. made /\ req'[p].email \in Emails
               /\ \A k \in Emails \X Pages : codes'[k] # None /\ codes'[k].code = req'[p].code =>
                      k[1] = req'[p].email
    <3>1. req'[p] = req[p]
          BY <2>4
    <3>2. \A k \in Emails \X Pages : codes'[k] # None /\ codes'[k].code = req'[p].code =>
              k[1] = req'[p].email
          BY <1>1, <2>4, <3>1 DEF CodesApart, Matches
    <3> QED
        BY <2>4, <3>1, <3>2 DEF CodesApart, Matches
  <2> QED
      BY <2>1, <2>2, <2>3, <2>4 DEF CodesApart, Matches
<1>4. GuessesCounted' /\ GuessesBounded'
      BY <1>1 DEF GuessesCounted, GuessesBounded
<1> QED
    BY <1>3, <1>4

\* A step that leaves the accounts alone
LEMMA AccountsKept ==
    ASSUME AccountsInv, users' = users
    PROVE  OneBootstrap' /\ OwnMailbox'
BY DEF AccountsInv, OneBootstrap, OwnMailbox

\* Loading the key gives one that there is.
LEMMA Loading ==
    ASSUME TypeOK, Load
    PROVE  /\ row' \in 0 .. MaxKeys /\ cache' \in 0 .. MaxKeys /\ keys' \in 0 .. MaxKeys
           /\ Loaded \in 0 .. MaxKeys
BY DEF TypeOK, Load, Loaded

-------------------------------------------------------------------------------
(* The page *)

\* What a page does alone: reloads, keys, logout, an expired cookie and the check for users.
LEMMA PageKeeps ==
    ASSUME AccountsInv, NEW p \in Pages,
           OpenPage(p) \/ FetchBootstrap(p) \/ FetchKey(p) \/ Logout(p) \/ ExpireCookie(p)
    PROVE  AccountsInv'
<1> USE DEF AccountsInv, mailVars, rsaVars
<1>1. UNCHANGED <<users, made, inbox, guesses, req>>
      BY DEF OpenPage, FetchBootstrap, FetchKey, Logout, ExpireCookie
<1>2. codes \in [Emails \X Pages -> Entries \cup {None}] /\ tab \in [Pages -> Tabs]
      BY DEF TypeOK
<1>3. /\ codes' \in [Emails \X Pages -> Entries \cup {None}]
      /\ \A k \in Emails \X Pages : codes'[k] \in {codes[k], None}
      BY <1>2 DEF OpenPage, FetchBootstrap, FetchKey, Logout, ExpireCookie
<1>4. row' \in 0 .. MaxKeys /\ cache' \in 0 .. MaxKeys /\ keys' \in 0 .. MaxKeys
      BY Loading DEF OpenPage, FetchBootstrap, FetchKey, Logout, ExpireCookie, TypeOK
<1>5. cookie' \in [Pages -> Emails \cup {None}] /\ \A q \in Pages : cookie'[q] \in {cookie[q], None}
      BY DEF OpenPage, FetchBootstrap, FetchKey, Logout, ExpireCookie, TypeOK
<1>6. /\ tab' \in [Pages -> Tabs]
      /\ \A q \in Pages : \/ tab'[q].user = tab[q].user
                          \/ tab'[q].user = None
                          \/ tab'[q].user = cookie[q]
  <2>1. CASE OpenPage(p)
    <3>1. [user |-> cookie[p], key |-> 0, bootstrap |-> FALSE] \in Tabs
          BY DEF TypeOK, Tabs
    <3> QED
        BY <1>2, <2>1, <3>1 DEF OpenPage
  <2>2. CASE FetchBootstrap(p)
    <3>1. [tab[p] EXCEPT !.bootstrap = IsEmpty] \in Tabs
          BY <1>2 DEF Tabs, IsEmpty
    <3>2. [tab[p] EXCEPT !.bootstrap = IsEmpty].user = tab[p].user
          BY <1>2 DEF Tabs
    <3> QED
        BY <1>2, <2>2, <3>1, <3>2 DEF FetchBootstrap
  <2>3. CASE FetchKey(p)
    <3>1. Loaded \in 0 .. MaxKeys
          BY <2>3, Loading DEF FetchKey
    <3>2. [tab[p] EXCEPT !.key = Loaded] \in Tabs /\ [tab[p] EXCEPT !.key = Loaded].user = tab[p].user
          BY <1>2, <3>1 DEF Tabs
    <3> QED
        BY <1>2, <2>3, <3>2 DEF FetchKey
  <2>4. CASE Logout(p)
    <3>1. [tab[p] EXCEPT !.user = None] \in Tabs /\ [tab[p] EXCEPT !.user = None].user = None
          BY <1>2 DEF Tabs
    <3> QED
        BY <1>2, <2>4, <3>1 DEF Logout
  <2>5. CASE ExpireCookie(p)
        BY <1>2, <2>5 DEF ExpireCookie
  <2> QED
      BY <2>1, <2>2, <2>3, <2>4, <2>5
<1>7. TypeOK'
      BY <1>1, <1>3, <1>4, <1>5, <1>6 DEF TypeOK
<1>8. LookedUp'
      BY <1>1 DEF LookedUp
<1>9. ShownIsCookie'
      BY <1>5, <1>6 DEF ShownIsCookie
<1> QED
    BY <1>1, <1>3, <1>7, <1>8, <1>9, MailKept, AccountsKept

\* The row goes, or the server begins anew.
LEMMA ServerKeeps ==
    ASSUME AccountsInv, DeleteRsaRow \/ Restart \/ \E k \in Emails \X Pages : ExpireCode(k)
    PROVE  AccountsInv'
<1> USE DEF AccountsInv, mailVars, rsaVars, pageVars
<1>1. UNCHANGED <<users, made, inbox, guesses, keys, tab, cookie>>
      BY DEF DeleteRsaRow, Restart, ExpireCode
<1>2. /\ codes' \in [Emails \X Pages -> Entries \cup {None}]
      /\ \A k \in Emails \X Pages : codes'[k] \in {codes[k], None}
      BY DEF TypeOK, DeleteRsaRow, Restart, ExpireCode
<1>3. row' \in 0 .. MaxKeys /\ cache' \in 0 .. MaxKeys
      BY DEF TypeOK, DeleteRsaRow, Restart, ExpireCode
<1>4. Idle \in Requests /\ Idle.st = "idle"
      BY DEF Idle, Requests, ReqStates
<1>5. req' \in [Pages -> Requests] /\ \A p \in Pages : req'[p] = req[p] \/ req'[p] = Idle
      BY <1>4 DEF TypeOK, Requests, DeleteRsaRow, Restart, ExpireCode
<1>6. TypeOK'
      BY <1>1, <1>2, <1>3, <1>5 DEF TypeOK, Requests
<1>7. LookedUp'
      BY <1>1, <1>4, <1>5 DEF LookedUp
<1>8. ShownIsCookie'
      BY <1>1 DEF ShownIsCookie
<1>9. \A p \in Pages : req'[p].st = "mailing" => req'[p] = req[p]
      BY <1>4, <1>5
<1> QED
    BY <1>1, <1>2, <1>6, <1>7, <1>8, <1>9, MailKept, AccountsKept

-------------------------------------------------------------------------------
(* Codes *)

\* A new code is in one entry, that of the address it is mailed to.
LEMMA SendCodeKeeps ==
    ASSUME AccountsInv, NEW p \in Pages, NEW e \in Emails, SendCode(p, e)
    PROVE  AccountsInv'
<1> USE DEF AccountsInv, rsaVars
<1>1. UNCHANGED <<users, inbox, guesses, row, cache, keys, cookie>> /\ req[p] = Idle
      BY DEF SendCode, Asks, AtLogin
<1>2. CASE tab' = [tab EXCEPT ![p].bootstrap = TRUE] /\ UNCHANGED <<codes, made, req>>
  <2>1. tab \in [Pages -> Tabs]
        BY DEF TypeOK
  <2>2. [tab[p] EXCEPT !.bootstrap = TRUE] \in Tabs /\ [tab[p] EXCEPT !.bootstrap = TRUE].user = tab[p].user
        BY <2>1 DEF Tabs
  <2>3. tab' \in [Pages -> Tabs] /\ \A q \in Pages : tab'[q].user = tab[q].user
        BY <1>2, <2>1, <2>2
  <2>4. TypeOK'
        BY <1>1, <1>2, <2>3 DEF TypeOK
  <2>5. LookedUp' /\ ShownIsCookie'
        BY <1>1, <1>2, <2>3 DEF LookedUp, ShownIsCookie
  <2> QED
      BY <1>1, <1>2, <2>4, <2>5, MailKept, AccountsKept
<1>3. CASE /\ made < MaxCodes /\ made' = made + 1 /\ tab' = tab
           /\ codes' = [codes EXCEPT ![<<e, p>>] = [code |-> made + 1, attempts |-> 0]]
           /\ req' = [req EXCEPT ![p] =
                  [Idle EXCEPT !.st = "mailing", !.email = e, !.code = made + 1]]
  <2> DEFINE entry == [code |-> made + 1, attempts |-> 0]
             mail == [Idle EXCEPT !.st = "mailing", !.email = e, !.code = made + 1]
  <2>1. /\ made \in Nat /\ made + 1 \in 1 .. MaxCodes /\ made' \in 0 .. MaxCodes /\ made' = made + 1
        /\ codes \in [Emails \X Pages -> Entries \cup {None}] /\ <<e, p>> \in Emails \X Pages
        /\ req \in [Pages -> Requests]
        BY <1>3 DEF TypeOK, Requests
  <2>2. entry \in Entries /\ entry # None /\ entry.code = made + 1 /\ entry.attempts = 0
        BY <2>1 DEF Entries
  <2>3. /\ codes' \in [Emails \X Pages -> Entries \cup {None}] /\ codes'[<<e, p>>] = entry
        /\ \A k \in Emails \X Pages : k # <<e, p>> => codes'[k] = codes[k]
        BY <1>3, <2>1, <2>2
  <2>4. /\ mail \in Requests /\ mail.st = "mailing" /\ mail.email = e /\ mail.code = made + 1
        BY <2>1 DEF Idle, Requests, ReqStates
  <2>5. /\ req' \in [Pages -> Requests] /\ req'[p] = mail
        /\ \A q \in Pages : q # p => req'[q] = req[q]
        BY <1>3, <2>1, <2>4
  <2>6. TypeOK'
        BY <1>1, <1>3, <2>1, <2>3, <2>5 DEF TypeOK, Requests
  <2>7. LookedUp' /\ ShownIsCookie'
        BY <1>1, <1>3, <2>4, <2>5 DEF LookedUp, ShownIsCookie
  <2>8. ASSUME NEW k \in Emails \X Pages, codes[k] # None
        PROVE  codes[k].code <= made /\ codes[k].code \in Nat
    <3>1. codes[k] \in Entries
          BY <2>1, <2>8
    <3> QED
        BY <2>8, <3>1 DEF CodesApart, Entries
  <2>9. CodesApart'
    <3>1. \A k \in Emails \X Pages : codes'[k] # None => codes'[k].code <= made'
          BY <2>1, <2>2, <2>3, <2>8
    <3>2. ASSUME NEW k \in Emails \X Pages, NEW l \in Emails \X Pages,
                 codes'[k] # None, codes'[l] # None, codes'[k].code = codes'[l].code
          PROVE  k = l
      <4>1. CASE k # <<e, p>> /\ l # <<e, p>>
            BY <2>3, <3>2, <4>1 DEF CodesApart
      <4>2. CASE k = <<e, p>> \/ l = <<e, p>>
            BY <2>1, <2>2, <2>3, <2>8, <3>2, <4>2
      <4> QED
          BY <4>1, <4>2
    <3>3. ASSUME NEW m \in inbox
          PROVE  m[1] <= made' /\ \A k \in Emails \X Pages :
                     codes'[k] # None /\ codes'[k].code = m[1] => k[1] = m[2]
      <4>1. m[1] <= made /\ m[1] \in Nat
            BY DEF CodesApart, TypeOK
      <4>2. \A k \in Emails \X Pages : codes[k] # None /\ codes[k].code = m[1] => k[1] = m[2]
            BY DEF CodesApart, Matches
      <4> QED
          BY <2>1, <2>2, <2>3, <4>1, <4>2
    <3>4. ASSUME NEW q \in Pages, req'[q].st = "mailing"
          PROVE  /\ req'[q].code \in 1 .. made' /\ req'[q].email \in Emails
                 /\ \A k \in Emails \X Pages :
                        codes'[k] # None /\ codes'[k].code = req'[q].code => k[1] = req'[q].email
      <4>1. CASE q = p
        <5>1. req'[q].code = made + 1 /\ req'[q].email = e
              BY <2>4, <2>5, <4>1
        <5>2. ASSUME NEW k \in Emails \X Pages, codes'[k] # None, codes'[k].code = made + 1
              PROVE  k = <<e, p>>
              BY <2>1, <2>3, <2>8, <5>2
        <5> QED
            BY <2>1, <5>1, <5>2
      <4>2. CASE q # p
        <5>1. /\ req'[q] = req[q] /\ req[q].code \in 1 .. made /\ req[q].email \in Emails
              /\ \A k \in Emails \X Pages :
                     codes[k] # None /\ codes[k].code = req[q].code => k[1] = req[q].email
              BY <2>5, <3>4, <4>2 DEF CodesApart, Matches
        <5> QED
            BY <2>1, <2>2, <2>3, <5>1
      <4> QED
          BY <4>1, <4>2
    <3> QED
        BY <1>1, <3>1, <3>2, <3>3, <3>4 DEF CodesApart, Matches
  <2>10. GuessesCounted' /\ GuessesBounded'
    <3>1. guesses[made + 1] = 0
          BY <2>1 DEF GuessesCounted
    <3>2. \A k \in Emails \X Pages : codes'[k] # None => guesses[codes'[k].code] = codes'[k].attempts
          BY <2>2, <2>3, <3>1 DEF GuessesCounted
    <3>3. \A c \in 1 .. MaxCodes : c > made' => guesses[c] = 0
          BY <2>1 DEF GuessesCounted
    <3> QED
        BY <1>1, <3>2, <3>3 DEF GuessesCounted, GuessesBounded
  <2> QED
      BY <1>1, <2>6, <2>7, <2>9, <2>10, AccountsKept
<1> QED
    BY <1>2, <1>3 DEF SendCode

\* The mail is about the entry it was made for.
LEMMA MailedKeeps ==
    ASSUME AccountsInv, NEW p \in Pages, Mailed(p)
    PROVE  AccountsInv'
<1> USE DEF AccountsInv, rsaVars
<1> DEFINE m == <<req[p].code, req[p].email>>
<1>1. /\ UNCHANGED <<users, codes, made, guesses, row, cache, keys, tab, cookie>>
      /\ req[p].st = "mailing" /\ req' = [req EXCEPT ![p] = Idle]
      /\ inbox' \subseteq inbox \cup {m}
      BY DEF Mailed
<1>2. Idle \in Requests /\ Idle.st = "idle"
      BY DEF Idle, Requests, ReqStates
<1>3. req' \in [Pages -> Requests] /\ \A q \in Pages : req'[q] = IF q = p THEN Idle ELSE req[q]
      BY <1>1, <1>2 DEF TypeOK, Requests
<1>4. /\ req[p].code \in 1 .. made /\ req[p].email \in Emails
      /\ \A k \in Emails \X Pages : Matches(k, req[p].code) => k[1] = req[p].email
      BY <1>1 DEF CodesApart
<1>5. inbox' \subseteq (1 .. MaxCodes) \X Emails
      BY <1>1, <1>4 DEF TypeOK
<1>6. TypeOK'
      BY <1>1, <1>3, <1>5 DEF TypeOK, Requests
<1>7. LookedUp' /\ ShownIsCookie'
      BY <1>1, <1>2, <1>3 DEF LookedUp, ShownIsCookie
<1>8. CodesApart'
  <2>1. ASSUME NEW x \in inbox'
        PROVE  x[1] <= made /\ \A k \in Emails \X Pages : Matches(k, x[1]) => k[1] = x[2]
    <3>1. CASE x \in inbox
          BY <3>1 DEF CodesApart
    <3>2. CASE x = m
          BY <1>4, <3>2 DEF TypeOK
    <3> QED
        BY <1>1, <3>1, <3>2
  <2>2. ASSUME NEW q \in Pages, req'[q].st = "mailing"
        PROVE  req'[q] = req[q] /\ req[q].st = "mailing"
        BY <1>2, <1>3, <2>2
  <2> QED
      BY <1>1, <2>1, <2>2 DEF CodesApart, Matches
<1>9. GuessesCounted' /\ GuessesBounded'
      BY <1>1 DEF GuessesCounted, GuessesBounded
<1> QED
    BY <1>1, <1>6, <1>7, <1>8, <1>9, AccountsKept

\* A wrong code is counted where the code is, and the last one takes it away.
LEMMA ConsumeKeeps ==
    ASSUME AccountsInv, NEW k \in Emails \X Pages, NEW c, ConsumeCode(k, c),
           UNCHANGED <<made, inbox>>,
           \A p \in Pages : req'[p].st = "mailing" => req'[p] = req[p]
    PROVE  /\ codes' \in [Emails \X Pages -> Entries \cup {None}]
           /\ guesses' \in [1 .. MaxCodes -> Nat]
           /\ CodesApart' /\ GuessesCounted' /\ GuessesBounded'
<1> USE DEF AccountsInv
<1>1. /\ codes \in [Emails \X Pages -> Entries \cup {None}]
      /\ guesses \in [1 .. MaxCodes -> Nat] /\ made \in 0 .. MaxCodes
      BY DEF TypeOK
<1>2. CASE codes[k] = None \/ Matches(k, c)
  <2>1. guesses' = guesses /\ \A l \in Emails \X Pages : codes'[l] \in {codes[l], None}
        BY <1>1, <1>2 DEF ConsumeCode
  <2>2. codes' \in [Emails \X Pages -> Entries \cup {None}]
        BY <1>1, <1>2 DEF ConsumeCode
  <2> QED
      BY <1>1, <2>1, <2>2, MailKept
<1>3. CASE codes[k] # None /\ ~Matches(k, c)
  <2> DEFINE guessed == codes[k].code
  <2>1. /\ codes[k] \in Entries /\ guessed \in 1 .. MaxCodes /\ codes[k].attempts \in 0 .. (MaxAttempts - 1)
        BY <1>1, <1>3 DEF Entries
  <2>2. /\ codes' = [codes EXCEPT ![k] = Missed(codes[k])]
        /\ guesses' = [guesses EXCEPT ![guessed] = guesses[guessed] + 1]
        BY <1>1, <1>3 DEF ConsumeCode
  <2>3. \/ Missed(codes[k]) = None
        \/ /\ Missed(codes[k]) \in Entries /\ Missed(codes[k]).code = guessed
           /\ Missed(codes[k]).attempts = codes[k].attempts + 1
        BY <2>1 DEF Missed, Entries
  <2>4. /\ codes' \in [Emails \X Pages -> Entries \cup {None}]
        /\ \A l \in Emails \X Pages : l # k => codes'[l] = codes[l]
        /\ codes'[k] = Missed(codes[k])
        BY <1>1, <2>2, <2>3
  <2>5. /\ guesses' \in [1 .. MaxCodes -> Nat]
        /\ \A x \in 1 .. MaxCodes : x # guessed => guesses'[x] = guesses[x]
        /\ guesses'[guessed] = guesses[guessed] + 1
        BY <1>1, <2>1, <2>2
  <2>6. \A l \in Emails \X Pages : codes'[l] # None =>
            codes[l] # None /\ codes'[l].code = codes[l].code
        BY <1>3, <2>3, <2>4
  <2>7. CodesApart'
    <3>1. \A l \in Emails \X Pages : codes'[l] # None => codes'[l].code <= made
          BY <2>6 DEF CodesApart
    <3>2. \A l, n \in Emails \X Pages :
              codes'[l] # None /\ codes'[n] # None /\ codes'[l].code = codes'[n].code => l = n
          BY <2>6 DEF CodesApart
    <3>3. \A m \in inbox : m[1] <= made /\ \A l \in Emails \X Pages :
              codes'[l] # None /\ codes'[l].code = m[1] => l[1] = m[2]
          BY <2>6 DEF CodesApart, Matches
    <3>4. ASSUME NEW q \in Pages, req'[q].st = "mailing"
          PROVE  /\ req'[q].code \in 1 .. made /\ req'[q].email \in Emails
                 /\ \A l \in Emails \X Pages :
                        codes'[l] # None /\ codes'[l].code = req'[q].code => l[1] = req'[q].email
      <4>1. req'[q] = req[q]
            BY <3>4
      <4> QED
          BY <2>6, <3>4, <4>1 DEF CodesApart, Matches
    <3> QED
        BY <3>1, <3>2, <3>3, <3>4 DEF CodesApart, Matches
  <2>8. guesses[guessed] = codes[k].attempts
        BY <1>3 DEF GuessesCounted
  <2>9. GuessesCounted'
    <3>1. ASSUME NEW l \in Emails \X Pages, codes'[l] # None
          PROVE  guesses'[codes'[l].code] = codes'[l].attempts
      <4>1. CASE l = k
            BY <2>1, <2>3, <2>4, <2>5, <2>8, <3>1, <4>1
      <4>2. CASE l # k
        <5>1. codes'[l] = codes[l] /\ codes[l] # None /\ codes[l] \in Entries
              BY <1>1, <2>4, <3>1, <4>2
        <5>2. codes[l].code \in 1 .. MaxCodes /\ codes[l].code # guessed
              BY <1>3, <4>2, <5>1 DEF CodesApart, Entries
        <5> QED
            BY <2>5, <5>1, <5>2 DEF GuessesCounted
      <4> QED
          BY <4>1, <4>2
    <3>2. guessed <= made
          BY <1>3 DEF CodesApart
    <3>3. \A x \in 1 .. MaxCodes : x > made => guesses'[x] = 0
          BY <1>1, <2>1, <2>5, <3>2 DEF GuessesCounted
    <3> QED
        BY <3>1, <3>3 DEF GuessesCounted
  <2>10. GuessesBounded'
    <3>1. guesses'[guessed] <= MaxAttempts
          BY <2>1, <2>5, <2>8
    <3>2. \A x \in 1 .. MaxCodes : x # guessed => guesses'[x] <= MaxAttempts
          BY <2>5 DEF GuessesBounded
    <3> QED
        BY <3>1, <3>2 DEF GuessesBounded
  <2> QED
      BY <2>4, <2>5, <2>7, <2>9, <2>10
<1> QED
    BY <1>2, <1>3

-------------------------------------------------------------------------------
(* Accounts *)

\* An account is made for an address that has none, and the answer is on its way.
LEMMA RegisteredTyped ==
    ASSUME AccountsInv, NEW p \in Pages, NEW e \in Emails, NEW origin \in {"first", "code"},
           Registered(p, e, origin), req[p] = Idle, users[e] = None
    PROVE  /\ users' \in [Emails -> Users \cup {None}]
           /\ users'[e] # None /\ users'[e].origin = origin /\ users'[e].by = p
           /\ \A f \in Emails : f # e => users'[f] = users[f]
           /\ req' \in [Pages -> Requests] /\ LookedUp'
           /\ \A q \in Pages : req'[q].st = "mailing" => req'[q] = req[q]
<1> USE DEF AccountsInv
<1> DEFINE u == [role |-> IF origin = "first" THEN "admin" ELSE "user",
                 salt |-> p, origin |-> origin, by |-> p]
           answer == [Idle EXCEPT !.st = "replying", !.email = e]
<1>1. users \in [Emails -> Users \cup {None}] /\ req \in [Pages -> Requests]
      BY DEF TypeOK, Requests
<1>2. u \in Users /\ u # None /\ u.origin = origin /\ u.by = p
      BY DEF Users
<1>3. answer \in Requests /\ answer.st = "replying" /\ answer.email = e
      BY DEF Idle, Requests, ReqStates
<1>4. users' = [users EXCEPT ![e] = u] /\ req' = [req EXCEPT ![p] = answer]
      BY DEF Registered
<1> HIDE DEF u, answer
<1>5. /\ users' \in [Emails -> Users \cup {None}] /\ users'[e] = u
      /\ \A f \in Emails : f # e => users'[f] = users[f]
      BY <1>1, <1>2, <1>4
<1>6. /\ req' \in [Pages -> Requests] /\ req'[p] = answer
      /\ \A q \in Pages : q # p => req'[q] = req[q]
      BY <1>1, <1>3, <1>4
<1>7. LookedUp'
      BY <1>2, <1>3, <1>5, <1>6 DEF LookedUp
<1> QED
    BY <1>2, <1>3, <1>5, <1>6, <1>7

\* A registration spends its code, or is the first and needs none.
LEMMA RegisterKeeps ==
    ASSUME AccountsInv, NEW p \in Pages, NEW e \in Emails,
           NEW c \in 1 .. MaxCodes \cup {Wrong}, Register(p, e, c)
    PROVE  AccountsInv'
<1> USE DEF AccountsInv
<1> DEFINE k == EntryKey(e, p)
<1>1. /\ req[p] = Idle /\ users[e] = None /\ MaySubmit(p, c) /\ Load
      /\ UNCHANGED <<made, inbox, tab, cookie>> /\ k = <<e, p>> /\ k \in Emails \X Pages
      BY DEF Register, Ready, AtLogin, EntryKey
<1>2. row' \in 0 .. MaxKeys /\ cache' \in 0 .. MaxKeys /\ keys' \in 0 .. MaxKeys
      BY <1>1, Loading
<1>3. ShownIsCookie'
      BY <1>1 DEF ShownIsCookie
<1>4. users \in [Emails -> Users \cup {None}]
      BY DEF TypeOK
<1>5. CASE IsFirst(p) /\ Registered(p, e, "first") /\ UNCHANGED <<codes, guesses>>
  <2>1. /\ users' \in [Emails -> Users \cup {None}]
        /\ users'[e].origin = "first"
        /\ \A f \in Emails : f # e => users'[f] = users[f]
        /\ req' \in [Pages -> Requests] /\ LookedUp'
        /\ \A q \in Pages : req'[q].st = "mailing" => req'[q] = req[q]
        BY <1>1, <1>5, RegisteredTyped
  <2>2. \A f \in Emails : f # e => users'[f] = None
        BY <1>5, <2>1 DEF IsFirst, IsEmpty
  <2>3. OneBootstrap' /\ OwnMailbox'
        BY <2>1, <2>2 DEF OneBootstrap, OwnMailbox
  <2>4. CodesApart' /\ GuessesCounted' /\ GuessesBounded'
        BY <1>1, <1>5, <2>1, MailKept
  <2>5. TypeOK'
        BY <1>1, <1>2, <1>5, <2>1 DEF TypeOK, Requests
  <2> QED
      BY <1>3, <2>1, <2>3, <2>4, <2>5
<1>6. CASE ConsumeCode(k, c) /\ Matches(k, c) /\ Registered(p, e, "code")
  <2>1. /\ users' \in [Emails -> Users \cup {None}]
        /\ users'[e].origin = "code" /\ users'[e].by = p
        /\ \A f \in Emails : f # e => users'[f] = users[f]
        /\ req' \in [Pages -> Requests] /\ LookedUp'
        /\ \A q \in Pages : req'[q].st = "mailing" => req'[q] = req[q]
        BY <1>1, <1>6, RegisteredTyped
  <2>2. /\ codes' \in [Emails \X Pages -> Entries \cup {None}]
        /\ guesses' \in [1 .. MaxCodes -> Nat]
        /\ CodesApart' /\ GuessesCounted' /\ GuessesBounded'
        BY <1>1, <1>6, <2>1, ConsumeKeeps
  <2>3. Owner[e] = p
    <3>1. c # Wrong
      <4>1. codes[k] \in Entries /\ codes[k].code = c
            BY <1>1, <1>6 DEF TypeOK, Matches
      <4> QED
          BY <4>1 DEF Entries
    <3>2. PICK m \in inbox : m[1] = c /\ Owner[m[2]] = p
          BY <1>1, <3>1 DEF MaySubmit, Known
    <3>3. k[1] = m[2] /\ k[1] = e
          BY <1>1, <1>6, <3>2 DEF CodesApart
    <3> QED
        BY <3>2, <3>3
  <2>4. OneBootstrap' /\ OwnMailbox'
        BY <2>1, <2>3 DEF OneBootstrap, OwnMailbox
  <2>5. TypeOK'
        BY <1>1, <1>2, <2>1, <2>2 DEF TypeOK, Requests
  <2> QED
      BY <1>3, <2>1, <2>2, <2>4, <2>5
<1>7. CASE ConsumeCode(k, c) /\ UNCHANGED <<users, req>>
  <2>1. /\ codes' \in [Emails \X Pages -> Entries \cup {None}]
        /\ guesses' \in [1 .. MaxCodes -> Nat]
        /\ CodesApart' /\ GuessesCounted' /\ GuessesBounded'
        BY <1>1, <1>7, ConsumeKeeps
  <2>2. TypeOK' /\ LookedUp'
        BY <1>1, <1>2, <1>7, <2>1 DEF TypeOK, LookedUp
  <2> QED
      BY <1>3, <1>7, <2>1, <2>2, AccountsKept
<1> QED
    BY <1>5, <1>6, <1>7 DEF Register

\* Logins look an account up, verify and reply.
LEMMA LoginKeeps ==
    ASSUME AccountsInv, NEW p \in Pages,
           Verified(p) \/ Reply(p) \/ \E e \in Emails : Lookup(p, e)
    PROVE  AccountsInv'
<1> USE DEF AccountsInv, mailVars, rsaVars
<1>1. /\ users \in [Emails -> Users \cup {None}] /\ req \in [Pages -> Requests]
      /\ tab \in [Pages -> Tabs] /\ cookie \in [Pages -> Emails \cup {None}]
      BY DEF TypeOK, Requests
<1>2. Idle \in Requests /\ Idle.st = "idle"
      BY DEF Idle, Requests, ReqStates
<1>3. ASSUME NEW e \in Emails, Lookup(p, e) PROVE AccountsInv'
  <2> DEFINE asked == [Idle EXCEPT !.st = "verifying", !.email = e, !.salt = users[e].salt]
  <2>1. /\ UNCHANGED <<users, codes, made, inbox, guesses, tab, cookie>> /\ users[e] \in Users
        /\ req' = [req EXCEPT ![p] = asked]
        BY <1>1, <1>3 DEF Lookup
  <2>2. asked \in Requests /\ asked.st = "verifying" /\ asked.email = e
        BY <2>1 DEF Idle, Requests, ReqStates, Users
  <2>3. req' \in [Pages -> Requests] /\ \A q \in Pages : req'[q] = IF q = p THEN asked ELSE req[q]
        BY <1>1, <2>1, <2>2
  <2>4. row' \in 0 .. MaxKeys /\ cache' \in 0 .. MaxKeys /\ keys' \in 0 .. MaxKeys
        BY <1>3, Loading DEF Lookup
  <2>5. TypeOK'
        BY <2>1, <2>3, <2>4 DEF TypeOK, Requests
  <2>6. LookedUp' /\ ShownIsCookie'
        BY <2>1, <2>2, <2>3, <1>3 DEF LookedUp, ShownIsCookie, Lookup
  <2>7. \A q \in Pages : req'[q].st = "mailing" => req'[q] = req[q]
        BY <2>2, <2>3
  <2> QED
      BY <2>1, <2>5, <2>6, <2>7, MailKept, AccountsKept
<1>4. CASE Verified(p)
  <2> DEFINE e == req[p].email
  <2>1. /\ UNCHANGED <<codes, made, inbox, guesses, row, cache, keys, tab, cookie>>
        /\ req[p].st = "verifying" /\ e \in Emails /\ users[e] # None /\ users[e] \in Users
        BY <1>1, <1>4 DEF Verified, LookedUp
  <2>2. /\ req' \in [Pages -> Requests]
        /\ \A q \in Pages : \/ req'[q] = req[q]
                            \/ req'[q].st = "idle"
                            \/ req'[q].st = "replying" /\ q = p /\ req'[q].email = e
    <3>1. CASE req' = [req EXCEPT ![p] = Idle]
          BY <1>1, <1>2, <3>1
    <3>2. CASE req' = [req EXCEPT ![p].st = "replying"]
      <4>1. /\ [req[p] EXCEPT !.st = "replying"] \in Requests
            /\ [req[p] EXCEPT !.st = "replying"].st = "replying"
            /\ [req[p] EXCEPT !.st = "replying"].email = e
            BY <1>1 DEF Requests, ReqStates
      <4> QED
          BY <1>1, <3>2, <4>1
    <3> QED
        BY <1>4, <3>1, <3>2 DEF Verified
  <2>3. /\ users' \in [Emails -> Users \cup {None}]
        /\ \A f \in Emails : /\ users'[f] = None <=> users[f] = None
                             /\ users[f] # None => users'[f].origin = users[f].origin
                                                     /\ users'[f].by = users[f].by
    <3> DEFINE now == Upgraded(p, req[p].salt, users[e])
    <3>1. now \in Users /\ now # None /\ now.origin = users[e].origin /\ now.by = users[e].by
          BY <2>1 DEF Upgraded, Users
    <3>2. users' = users \/ users' = [users EXCEPT ![e] = now]
          BY <1>1, <1>4, <2>1 DEF Verified
    <3> HIDE DEF now
    <3> QED
        BY <1>1, <2>1, <3>1, <3>2
  <2>4. TypeOK'
        BY <2>1, <2>2, <2>3 DEF TypeOK, Requests
  <2>5. LookedUp' /\ ShownIsCookie'
        BY <2>1, <2>2, <2>3 DEF LookedUp, ShownIsCookie
  <2>6. OneBootstrap'
        BY <2>3 DEF OneBootstrap
  <2>7. OwnMailbox'
        BY <2>3 DEF OwnMailbox
  <2>8. \A q \in Pages : req'[q].st = "mailing" => req'[q] = req[q]
        BY <2>2
  <2> QED
      BY <2>1, <2>4, <2>5, <2>6, <2>7, <2>8, MailKept
<1>5. CASE Reply(p)
  <2> DEFINE shown == [tab[p] EXCEPT !.user = req[p].email]
  <2>1. /\ UNCHANGED <<users, codes, made, inbox, guesses, row, cache, keys>>
        /\ req' = [req EXCEPT ![p] = Idle] /\ req[p].email \in Emails
        /\ cookie' = [cookie EXCEPT ![p] = req[p].email]
        /\ tab' = [tab EXCEPT ![p] = shown]
        BY <1>1, <1>5 DEF Reply, Signed, LookedUp
  <2>2. shown \in Tabs /\ shown.user = req[p].email
        BY <1>1, <2>1 DEF Tabs
  <2> HIDE DEF shown
  <2>3. /\ tab' \in [Pages -> Tabs] /\ cookie' \in [Pages -> Emails \cup {None}]
        /\ tab'[p].user = cookie'[p]
        /\ \A q \in Pages : q # p => tab'[q] = tab[q] /\ cookie'[q] = cookie[q]
        BY <1>1, <2>1, <2>2
  <2>4. req' \in [Pages -> Requests] /\ \A q \in Pages : req'[q] = IF q = p THEN Idle ELSE req[q]
        BY <1>1, <1>2, <2>1
  <2>5. TypeOK'
        BY <2>1, <2>3, <2>4 DEF TypeOK, Requests
  <2>6. LookedUp' /\ ShownIsCookie'
        BY <1>2, <2>1, <2>3, <2>4 DEF LookedUp, ShownIsCookie
  <2>7. \A q \in Pages : req'[q].st = "mailing" => req'[q] = req[q]
        BY <1>2, <2>4
  <2> QED
      BY <2>1, <2>5, <2>6, <2>7, MailKept, AccountsKept
<1> QED
    BY <1>3, <1>4, <1>5

-------------------------------------------------------------------------------
(* The theorems *)

\* Every step of Accounts keeps its invariant.
LEMMA NextKeeps == AccountsInv /\ [Next]_vars => AccountsInv'
<1> SUFFICES ASSUME AccountsInv, [Next]_vars PROVE AccountsInv'
    OBVIOUS
<1>1. CASE DeleteRsaRow \/ Restart \/ \E k \in Emails \X Pages : ExpireCode(k)
      BY <1>1, ServerKeeps
<1>2. ASSUME NEW p \in Pages,
             OpenPage(p) \/ FetchBootstrap(p) \/ FetchKey(p) \/ Logout(p) \/ ExpireCookie(p)
      PROVE  AccountsInv'
      BY <1>2, PageKeeps
<1>3. ASSUME NEW p \in Pages, NEW e \in Emails, SendCode(p, e) PROVE AccountsInv'
      BY <1>3, SendCodeKeeps
<1>4. ASSUME NEW p \in Pages, Mailed(p) PROVE AccountsInv'
      BY <1>4, MailedKeeps
<1>5. ASSUME NEW p \in Pages, NEW e \in Emails,
             \E c \in 1 .. MaxCodes \cup {Wrong} : Register(p, e, c)
      PROVE  AccountsInv'
      BY <1>5, RegisterKeeps
<1>6. ASSUME NEW p \in Pages, Verified(p) \/ Reply(p) \/ \E e \in Emails : Lookup(p, e)
      PROVE  AccountsInv'
      BY <1>6, LoginKeeps
<1>7. CASE UNCHANGED vars
  <2>1. UNCHANGED <<users, codes, made, inbox, guesses, row, cache, keys, tab, cookie, req>>
        BY <1>7 DEF vars, mailVars, rsaVars, pageVars
  <2>2. TypeOK' /\ LookedUp' /\ ShownIsCookie'
        BY <2>1 DEF AccountsInv, TypeOK, LookedUp, ShownIsCookie
  <2> QED
      BY <2>1, <2>2, MailKept, AccountsKept DEF AccountsInv
<1> QED
    BY <1>1, <1>2, <1>3, <1>4, <1>5, <1>6, <1>7 DEF Next

\* The invariant holds in every state: the types, the bookkeeping of codes and
\* guesses, and the four properties below.
THEOREM AccountsSafe == Spec => []AccountsInv
<1> QED
    BY InitHolds, NextKeeps, PTL DEF Spec

\* Whatever the pages were told, one account was made without a code, when
\* there was no other.
THEOREM BootstrapOnce == Spec => []OneBootstrap
<1>1. AccountsInv => OneBootstrap
      BY DEF AccountsInv
<1> QED
    BY <1>1, AccountsSafe, PTL

\* An account made with a code is of somebody who reads the mail of its address.
THEOREM MailboxProved == Spec => []OwnMailbox
<1>1. AccountsInv => OwnMailbox
      BY DEF AccountsInv
<1> QED
    BY <1>1, AccountsSafe, PTL

\* No code is guessed at more than MAX_ATTEMPTS times.
THEOREM GuessesLimited == Spec => []GuessesBounded
<1>1. AccountsInv => GuessesBounded
      BY DEF AccountsInv
<1> QED
    BY <1>1, AccountsSafe, PTL

\* A page acts as the account it shows, or as nobody.
THEOREM ActsAsShown == Spec => []ShownIsCookie
<1>1. AccountsInv => ShownIsCookie
      BY DEF AccountsInv
<1> QED
    BY <1>1, AccountsSafe, PTL
===============================================================================
