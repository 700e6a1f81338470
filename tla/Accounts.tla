-------------------------------- MODULE Accounts --------------------------------
(***************************************************************************)
(* Accounts: verification codes (api/auth/send-code, utils/email-code),    *)
(* registration and the first administrator, login with its upgrades of    *)
(* old rows, session cookies, the RSA key passwords travel under           *)
(* (utils/rsa.ts, usePasswordCipher.ts), and the login page that asks for  *)
(* all of it (login.vue, useAuth.ts).                                      *)
(*                                                                         *)
(* A page is one tab with its own cookie jar and one request at a time; a  *)
(* request arrives when it is sent, because nothing it carries can change. *)
(* A page's session token is written as the page itself: a reload makes a  *)
(* new one, and the entries of the old one can no longer be asked for.     *)
(* Codes are numbered in the order they are made; a page knows those that  *)
(* were mailed to its owner, and Wrong stands for any other six digits.    *)
(* Time passes in steps of its own: a code expires, a cookie expires.      *)
(* Whether a password is right shows when it is checked.  Roles after the  *)
(* registration, and groups, are in Membership.                            *)
(***************************************************************************)
EXTENDS Naturals, FiniteSets

CONSTANTS
    Emails,        \* normalised addresses
    Allowed,       \* those that pass the whitelist
    Blocked,       \* those of the blocklist
    Pages,
    Owner,         \* whose mail the user of a page can read, or None
    MaxAttempts,   \* MAX_ATTEMPTS of email-code.ts
    MaxCodes,      \* bound: codes made
    MaxKeys,       \* bound: RSA keys made
    Wrong,
    None

ASSUME AccountsAssumption ==
    /\ Allowed \subseteq Emails /\ Blocked \subseteq Emails
    /\ Owner \in [Emails -> Pages \cup {None}]
    /\ MaxAttempts \in Nat \ {0} /\ MaxCodes \in Nat /\ MaxKeys \in Nat \ {0}
    /\ None \notin Emails \cup Pages \cup Nat
    /\ Wrong \notin Nat

VARIABLES
    users,     \* the users table, by email; no row is ever deleted
    codes,     \* the Map of email-code.ts, by email and session
    made,      \* codes made
    inbox,     \* the mails that arrived: code and address
    guesses,   \* wrong codes compared with each code (history)
    row, cache,\* the RSA key in app_config, and the one in memory; 0 for none
    keys,      \* RSA keys made
    tab,       \* what each page holds
    cookie,    \* its session cookie
    req        \* the request it waits for

mailVars == <<codes, made, inbox, guesses>>
rsaVars == <<row, cache, keys>>
pageVars == <<tab, cookie, req>>
vars == <<users, mailVars, rsaVars, pageVars>>

-------------------------------------------------------------------------------
\* salt: the authmod secret, named by the page whose request minted it; the
\* rows without one are those with an old password hash.  role: as registered.
\* origin, by: how the account came about and from which page (history).
Users == [role : {"admin", "user"}, salt : Pages \cup {None},
          origin : {"before", "first", "code"}, by : Pages \cup {None}]

Entries == [code : 1 .. MaxCodes, attempts : 0 .. (MaxAttempts - 1)]

ASSUME NoneIsNoRow == None \notin Users \cup Entries

\* user: the account the page shows.  key: its copy of the RSA key.
\* bootstrap: whether it believes that there are no users yet.
Tabs == [user : Emails \cup {None}, key : 0 .. MaxKeys, bootstrap : BOOLEAN]

Idle == [st |-> "idle", email |-> None, code |-> None, salt |-> None]

\* mailing, verifying, replying: the server awaits the mail, the password
\* check, the signature of the cookie.  salt: as it was looked up.
ReqStates == {"idle", "mailing", "verifying", "replying"}

\* Made by an earlier version: an old hash and no authmod secret.  Bound: one.
OldUser == [role |-> "admin", salt |-> None, origin |-> "before", by |-> None]

Init ==
    /\ users \in {[e \in Emails |-> IF e \in S THEN OldUser ELSE None] :
                     S \in {{}} \cup {{e} : e \in Allowed \ Blocked}}
    /\ codes = [k \in Emails \X Pages |-> None]
    /\ made = 0
    /\ inbox = {}
    /\ guesses = [c \in 1 .. MaxCodes |-> 0]
    /\ row = 0 /\ cache = 0 /\ keys = 0
    /\ tab = [p \in Pages |-> [user |-> None, key |-> 0, bootstrap |-> FALSE]]
    /\ cookie = [p \in Pages |-> None]
    /\ req = [p \in Pages |-> Idle]

IsEmpty == \A e \in Emails : users[e] = None

-------------------------------------------------------------------------------
(* The RSA key *)

\* load: the key in memory, else the stored one, else a new one
Loaded == IF cache # 0 THEN cache ELSE IF row # 0 THEN row ELSE keys + 1

Load ==
    /\ Loaded <= MaxKeys
    /\ cache' = Loaded
    /\ row' = IF cache # 0 THEN row ELSE Loaded
    /\ keys' = IF Loaded > keys THEN Loaded ELSE keys

\* What can be decrypted: it was encrypted for the key in use
Decrypts(p) == tab[p].key = Loaded

\* Somebody deletes the row to make the server take a new key.
DeleteRsaRow ==
    /\ row # 0
    /\ row' = 0
    /\ UNCHANGED <<users, mailVars, cache, keys, pageVars>>

-------------------------------------------------------------------------------
(* The page *)

\* A reload: the session is read from the database for the cookie.
OpenPage(p) ==
    /\ req[p] = Idle
    /\ tab' = [tab EXCEPT ![p] =
           [user |-> cookie[p], key |-> 0, bootstrap |-> FALSE]]
    /\ codes' = [k \in DOMAIN codes |-> IF k[2] = p THEN None ELSE codes[k]]
    /\ UNCHANGED <<users, made, inbox, guesses, rsaVars, cookie, req>>

\* The login page, where a page with an account is not let stay
AtLogin(p) == req[p] = Idle /\ tab[p].user = None

\* onMounted
FetchBootstrap(p) ==
    /\ AtLogin(p)
    /\ tab' = [tab EXCEPT ![p].bootstrap = IsEmpty]
    /\ UNCHANGED <<users, mailVars, rsaVars, cookie, req>>

\* encryptPassword: a page fetches the key once.
FetchKey(p) ==
    /\ AtLogin(p) /\ tab[p].key = 0
    /\ Load
    /\ tab' = [tab EXCEPT ![p].key = Loaded]
    /\ UNCHANGED <<users, mailVars, cookie, req>>

\* login and register begin with the password encrypted.
Ready(p) == AtLogin(p) /\ tab[p].key # 0

\* The codes the user of a page may type
Known(p) == {Wrong} \cup {m[1] : m \in {x \in inbox : Owner[x[2]] = p}}

\* What the form lets through
MaySubmit(p, c) == IF tab[p].bootstrap THEN c = Wrong ELSE c \in Known(p)

\* logout: the page forgets the account whether or not the server has answered.
Logout(p) ==
    /\ req[p] = Idle /\ tab[p].user # None
    /\ tab' = [tab EXCEPT ![p].user = None]
    /\ \E answered \in BOOLEAN :
          cookie' = IF answered THEN [cookie EXCEPT ![p] = None] ELSE cookie
    /\ UNCHANGED <<users, mailVars, rsaVars, req>>

-------------------------------------------------------------------------------
(* Codes *)

\* The checks of send-code before it makes a code; those on the address come
\* with an error and the one on the account does not.
MaySend(e) == e \in Allowed \ Blocked /\ users[e] = None

\* doSendCode: the form has the button unless the page thinks it is the first.
Asks(p) == AtLogin(p) /\ ~tab[p].bootstrap

\* The handler up to the await of the mail.  Mail may not be configured and the
\* address may have had enough of it.
SendCode(p, e) ==
    /\ Asks(p)
    /\ \/ /\ IsEmpty
          /\ tab' = [tab EXCEPT ![p].bootstrap = TRUE]
          /\ UNCHANGED <<codes, made, req>>
       \/ /\ ~IsEmpty /\ MaySend(e) /\ made < MaxCodes
          /\ made' = made + 1
          /\ codes' = [codes EXCEPT ![<<e, p>>] = [code |-> made + 1, attempts |-> 0]]
          /\ req' = [req EXCEPT ![p] =
                 [Idle EXCEPT !.st = "mailing", !.email = e, !.code = made + 1]]
          /\ UNCHANGED tab
    /\ UNCHANGED <<users, inbox, guesses, rsaVars, cookie>>

\* The mail is sent, or it fails and the code stays in the Map.
Mailed(p) ==
    /\ req[p].st = "mailing"
    /\ \E sent \in BOOLEAN :
          inbox' = IF sent THEN inbox \cup {<<req[p].code, req[p].email>>} ELSE inbox
    /\ req' = [req EXCEPT ![p] = Idle]
    /\ UNCHANGED <<users, codes, made, guesses, rsaVars, tab, cookie>>

\* Ten minutes pass.
ExpireCode(k) ==
    /\ codes[k] # None
    /\ codes' = [codes EXCEPT ![k] = None]
    /\ UNCHANGED <<users, made, inbox, guesses, rsaVars, pageVars>>

\* (Mutant: the entry is looked up by session and not by address.)
EntryOfSession(e, p) ==
    IF \E f \in Emails : codes[<<f, p>>] # None
    THEN <<CHOOSE f \in Emails : codes[<<f, p>>] # None, p>> ELSE <<e, p>>

\* The key of the Map
EntryKey(e, p) == <<e, p>>

\* (Mutant: a wrong code puts a fresh entry back.)
MissedFresh(x) == [x EXCEPT !.attempts = 0]

\* The entry after a wrong code
Missed(x) ==
    IF x.attempts + 1 >= MaxAttempts THEN None ELSE [x EXCEPT !.attempts = @ + 1]

Matches(k, c) == codes[k] # None /\ codes[k].code = c

\* consumeCode: a match takes the entry away, anything else is counted.
ConsumeCode(k, c) ==
    /\ codes' = IF codes[k] = None THEN codes
                ELSE [codes EXCEPT ![k] = IF Matches(k, c) THEN None ELSE Missed(@)]
    /\ guesses' = IF codes[k] = None \/ Matches(k, c) THEN guesses
                  ELSE [guesses EXCEPT ![codes[k].code] = @ + 1]

-------------------------------------------------------------------------------
(* Registration *)

\* (Mutant: what the page was told decides.)
FirstAsTold(p) == tab[p].bootstrap

\* Nobody has registered: no code and no whitelist, and the role is admin.
IsFirst(p) == IsEmpty

\* Stored, with the cookie still to be signed
Registered(p, e, origin) ==
    LET u == [role |-> IF origin = "first" THEN "admin" ELSE "user",
              salt |-> p, origin |-> origin, by |-> p]
    IN  /\ users' = [users EXCEPT ![e] = u]
        /\ req' = [req EXCEPT ![p] =
               [Idle EXCEPT !.st = "replying", !.email = e]]

\* The handler up to the await of the cookie.  It refuses a password it cannot
\* decrypt, an address that is blocked or has an account and, unless it is the
\* first, one off the whitelist.
Register(p, e, c) ==
    LET k == EntryKey(e, p)
    IN  /\ Ready(p) /\ MaySubmit(p, c)
        /\ Decrypts(p) /\ e \notin Blocked /\ users[e] = None
        /\ Load
        /\ \/ /\ IsFirst(p)
              /\ Registered(p, e, "first")
              /\ UNCHANGED <<codes, guesses>>
           \/ /\ ~IsFirst(p) /\ e \in Allowed
              /\ ConsumeCode(k, c)
              /\ \/ Matches(k, c) /\ Registered(p, e, "code")
                 \/ ~Matches(k, c) /\ UNCHANGED <<users, req>>
        /\ UNCHANGED <<made, inbox, tab, cookie>>

-------------------------------------------------------------------------------
(* Login *)

\* Up to the await of the password check: without the account, or with a
\* password it cannot decrypt, the handler ends here and nothing has changed.
Lookup(p, e) ==
    /\ Ready(p) /\ Decrypts(p) /\ users[e] # None
    /\ Load
    /\ req' = [req EXCEPT ![p] =
           [Idle EXCEPT !.st = "verifying", !.email = e, !.salt = users[e].salt]]
    /\ UNCHANGED <<users, mailVars, tab, cookie>>

\* The row of somebody who had this salt when the login looked: an old hash is
\* replaced, a missing authmod secret is minted.
Upgraded(p, salt, now) == IF salt = None THEN [now EXCEPT !.salt = p] ELSE now

Verified(p) ==
    /\ req[p].st = "verifying"
    /\ \/ /\ users' = [users EXCEPT ![req[p].email] = Upgraded(p, req[p].salt, @)]
          /\ req' = [req EXCEPT ![p].st = "replying"]
       \/ /\ req' = [req EXCEPT ![p] = Idle]
          /\ UNCHANGED users
    /\ UNCHANGED <<mailVars, rsaVars, tab, cookie>>

\* (Mutant: a cookie that is there is kept.)
CookieKept(p) == IF cookie[p] # None THEN cookie[p] ELSE req[p].email

\* A cookie for the account, good for a week
Signed(p) == req[p].email

\* The answer to a login or a registration
Reply(p) ==
    /\ req[p].st = "replying"
    /\ cookie' = [cookie EXCEPT ![p] = Signed(p)]
    /\ tab' = [tab EXCEPT ![p].user = req[p].email]
    /\ req' = [req EXCEPT ![p] = Idle]
    /\ UNCHANGED <<users, mailVars, rsaVars>>

ExpireCookie(p) ==
    /\ cookie[p] # None
    /\ cookie' = [cookie EXCEPT ![p] = None]
    /\ UNCHANGED <<users, mailVars, rsaVars, tab, req>>

\* A restart forgets the codes and the key in memory and drops what is under way.
Restart ==
    /\ codes' = [k \in DOMAIN codes |-> None]
    /\ cache' = 0
    /\ req' = [p \in Pages |-> Idle]
    /\ UNCHANGED <<users, made, inbox, guesses, row, keys, tab, cookie>>

Next ==
    \/ DeleteRsaRow \/ Restart
    \/ \E k \in Emails \X Pages : ExpireCode(k)
    \/ \E p \in Pages :
          \/ OpenPage(p) \/ FetchBootstrap(p) \/ FetchKey(p) \/ Logout(p)
          \/ \E e \in Emails :
                \/ SendCode(p, e)
                \/ \E c \in 1 .. MaxCodes \cup {Wrong} : Register(p, e, c)
                \/ Lookup(p, e)
          \/ Mailed(p) \/ Verified(p) \/ Reply(p)
          \/ ExpireCookie(p)

Spec == Init /\ [][Next]_vars

-------------------------------------------------------------------------------
(* Properties *)

\* The type invariant
TypeOK ==
    /\ users \in [Emails -> Users \cup {None}]
    /\ codes \in [Emails \X Pages -> Entries \cup {None}]
    /\ made \in 0 .. MaxCodes
    /\ inbox \subseteq (1 .. MaxCodes) \X Emails
    /\ guesses \in [1 .. MaxCodes -> Nat]
    /\ row \in 0 .. MaxKeys /\ cache \in 0 .. MaxKeys /\ keys \in 0 .. MaxKeys
    /\ tab \in [Pages -> Tabs]
    /\ cookie \in [Pages -> Emails \cup {None}]
    /\ req \in [Pages -> [st : ReqStates, email : Emails \cup {None},
                          code : (1 .. MaxCodes) \cup {None},
                          salt : Pages \cup {None}]]

\* One account at most was ever made without a code, and only when there was no
\* other, however many pages still believe they are the first
\* (register.post.ts:62, login.vue:19).
OneBootstrap ==
    \A e, f \in Emails :
        /\ users[e] # None /\ users[f] # None
        /\ users[e].origin = "first" /\ users[f].origin \in {"first", "before"}
        => e = f

\* Whoever made an account later could read the mail of its address
\* (email-code.ts:17, register.post.ts:70).
OwnMailbox ==
    \A e \in Emails : users[e] # None /\ users[e].origin = "code" =>
        users[e].by = Owner[e]

\* No code is guessed at more often than MAX_ATTEMPTS times, across requests,
\* expiry and new codes for the same page (email-code.ts:33-36).
GuessesBounded == \A c \in 1 .. MaxCodes : guesses[c] <= MaxAttempts

\* A page that shows an account acts as that account or as nobody: logging out
\* without an answer leaves the old cookie behind, and the next login has to
\* replace it (useAuth.ts:118-123).
ShownIsCookie ==
    \A p \in Pages : tab[p].user # None /\ cookie[p] # None =>
        cookie[p] = tab[p].user
===============================================================================
