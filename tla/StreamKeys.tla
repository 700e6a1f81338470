------------------------------- MODULE StreamKeys -------------------------------
(***************************************************************************)
(* The roster of an event and the stream keys of its students              *)
(* (services/roster.ts, services/stream-keys.ts and their endpoints), the  *)
(* publish token of an event (services/events.ts), and what the on_publish *)
(* hook makes of both (services/access-control.ts).                        *)
(*                                                                         *)
(* Issuing a key checks the stream name, awaits the hash of a new token    *)
(* and then stores it; the hook reads the keys of a name, awaits one       *)
(* verification after the other and then decides.  Everything between two  *)
(* awaits is one action.  SQLite enforces the foreign keys (database/db.ts *)
(* turns them on): a key of a removed enrollment loses it, an event takes  *)
(* its enrollments and keys along.                                         *)
(*                                                                         *)
(* A token is written as the call that made it and whom it made it for, so *)
(* that no two calls make the same one.  Names, emails and seats of        *)
(* students, previews and last-use times are left out, and so are publish  *)
(* tokens an administrator makes up; publish keys are in PublishGate.      *)
(***************************************************************************)
EXTENDS Naturals, FiniteSets

CONSTANTS
    Events,
    Students,
    Bases,        \* what streamNameFor can make of a student number
    BaseOf,       \* streamNameFor: it drops characters, so two may agree
    Calls,        \* generation requests, each made once
    Hooks,        \* on_publish requests, each made once
    MaxTerms,     \* bound: enrollments of one student in one event, in a row
    MaxSuffix,    \* bound: suffixes tried for a base name
    Shared,       \* the holder of an event's publish token
    None

ASSUME StreamKeysAssumption ==
    /\ BaseOf \in [Students -> Bases]
    /\ Shared \notin Students
    /\ MaxTerms \in Nat /\ MaxSuffix \in Nat
    /\ None \notin Events \cup Students \cup Bases
    /\ None \notin Calls \X (Students \cup {Shared})

VARIABLES
    events,    \* the events that exist
    admits,    \* those whose window is open and that are not archived
    etoken,    \* events.publish_token_hash
    seats,     \* event_enrollments
    terms,     \* how often a student has been enrolled in an event
    keys,      \* stream_keys, by event and name
    call,      \* the frame of each generation request
    hook       \* the frame of each on_publish request

eventVars == <<events, admits, etoken>>
rosterVars == <<seats, terms>>
vars == <<eventVars, rosterVars, keys, call, hook>>

-------------------------------------------------------------------------------
Tokens == Calls \X (Students \cup {Shared})

Seats == [event : Events, student : Students, term : 1 .. MaxTerms]

StreamNames == Bases \X (1 .. MaxSuffix)

\* A key.  seat is None when the enrollment has been removed (on delete set null).
KeyRows == [token : Tokens, seat : Seats \cup {None}, revoked : BOOLEAN]

\* "between": the loop of generateKeysForUnkeyed awaits the key it has made.
\* left: the students it has not come to; bulk: whether it is that loop.
CallStates == {"new", "hashing", "between", "rotating", "over"}

Frame(st, e, seat, name, left, bulk) ==
    [st |-> st, event |-> e, seat |-> seat, name |-> name, left |-> left,
     bulk |-> bulk]

Over == Frame("over", None, None, None, {}, FALSE)

\* rows: the unrevoked keys of the name, as read at the start.  open: the
\* events with the token that were open when they were read.
HookStates == {"new", "verifying", "shared", "allowed", "refused"}

HookFrame(st, token, rows, open) ==
    [st |-> st, token |-> token, rows |-> rows, open |-> open]

Init ==
    /\ events = Events
    /\ admits \in SUBSET Events
    /\ etoken = [e \in Events |-> None]
    /\ seats = {}
    /\ terms = [x \in Events \X Students |-> 0]
    /\ keys = [k \in Events \X StreamNames |-> None]
    /\ call = [c \in Calls |-> Frame("new", None, None, None, {}, FALSE)]
    /\ hook = [h \in Hooks |-> HookFrame("new", None, {}, {})]

-------------------------------------------------------------------------------
(* The roster *)

Enrolled(e) == {x.student : x \in {y \in seats : y.event = e}}

\* The row an enrollment of s in e made now would have
NewSeat(e, s) == [event |-> e, student |-> s, term |-> terms[<<e, s>>] + 1]

\* The enrollment of s in e, made now if there is none
SeatOf(e, s) ==
    IF s \in Enrolled(e)
    THEN CHOOSE x \in seats : x.event = e /\ x.student = s
    ELSE NewSeat(e, s)

\* find or create the enrollments of S in e
Enroll(e, S) ==
    LET fresh == S \ Enrolled(e)
    IN  /\ \A s \in fresh : terms[<<e, s>>] < MaxTerms
        /\ seats' = seats \cup {NewSeat(e, s) : s \in fresh}
        /\ terms' = [x \in DOMAIN terms |->
                        IF x[1] = e /\ x[2] \in fresh THEN terms[x] + 1
                                                      ELSE terms[x]]

\* A pasted list is imported: students and enrollments are found or created.
ImportRoster(e, S) ==
    /\ e \in events
    /\ Enroll(e, S)
    /\ UNCHANGED <<eventVars, keys, call, hook>>

\* (Mutant: the enrollment goes and its keys are left as they are.)
OrphanKeys(x) ==
    [k \in DOMAIN keys |->
        IF keys[k] # None /\ keys[k].seat = x
        THEN [keys[k] EXCEPT !.seat = None] ELSE keys[k]]

\* The keys after enrollment x: revoked by the service, and x set to null by
\* the foreign key.
WithoutSeat(x) ==
    [k \in DOMAIN keys |->
        IF keys[k] # None /\ keys[k].seat = x
        THEN [keys[k] EXCEPT !.seat = None, !.revoked = TRUE] ELSE keys[k]]

RemoveEnrollment(x) ==
    /\ keys' = WithoutSeat(x)
    /\ seats' = seats \ {x}
    /\ UNCHANGED <<eventVars, terms, call, hook>>

-------------------------------------------------------------------------------
(* Issuing keys *)

Live(k) == keys[k] # None /\ ~keys[k].revoked

\* Whose keys a bulk generation leaves alone
Keyed(e) ==
    {keys[<<e, n>>].seat.student :
        n \in {m \in StreamNames : Live(<<e, m>>) /\ keys[<<e, m>>].seat # None}}

\* A name is free for an enrollment if nobody or the enrollment itself has it.
Fits(e, x, base, i) ==
    keys[<<e, <<base, i>>>>] # None => keys[<<e, <<base, i>>>>].seat = x

\* ensureUniqueStreamName: the first that fits of base, base-2, base-3, ...
UniqueName(e, x, base, i) ==
    Fits(e, x, base, i) /\ \A j \in 1 .. (i - 1) : ~Fits(e, x, base, j)

\* generateKeyForEvent up to the await of hashToken
Begin(c, e, s, base, left, bulk) ==
    LET x == SeatOf(e, s)
    IN  /\ Enroll(e, {s})
        /\ \E i \in 1 .. MaxSuffix :
              /\ UniqueName(e, x, base, i)
              /\ call' = [call EXCEPT ![c] = Frame("hashing", e, x, <<base, i>>, left, bulk)]
        /\ UNCHANGED <<eventVars, keys, hook>>

\* One key, under the student's own name or an explicit one
Generate(c, e, s, base) ==
    /\ call[c].st = "new"
    /\ e \in events
    /\ Begin(c, e, s, base, {}, FALSE)

\* Keys for everybody who has none: the roster and the keys are read once.
GenerateBulk(c, e) ==
    /\ call[c].st = "new"
    /\ e \in events
    /\ call' = [call EXCEPT ![c] =
           Frame("between", e, None, None, Enrolled(e) \ Keyed(e), TRUE)]
    /\ UNCHANGED <<eventVars, rosterVars, keys, hook>>

\* The loop goes on to some student: a student whose enrollment has been
\* removed meanwhile is enrolled again.  It ends when there is none left, or
\* with an error when the event has been deleted.
NextStudent(c) ==
    /\ call[c].st = "between"
    /\ \/ \E s \in call[c].left :
             /\ call[c].event \in events
             /\ Begin(c, call[c].event, s, BaseOf[s], call[c].left \ {s}, TRUE)
       \/ /\ call[c].left = {} \/ call[c].event \notin events
          /\ call' = [call EXCEPT ![c] = Over]
          /\ UNCHANGED <<eventVars, rosterVars, keys, hook>>

TokenOf(c) == <<c, call[c].seat.student>>

\* (Mutant: a reissue leaves the key with the enrollment it had.)
KeptSeat(c) ==
    LET old == keys[<<call[c].event, call[c].name>>]
    IN  [token |-> TokenOf(c),
         seat |-> IF old = None THEN call[c].seat ELSE old.seat,
         revoked |-> FALSE]

\* insert and rotate leave the same row
Issued(c) == [token |-> TokenOf(c), seat |-> call[c].seat, revoked |-> FALSE]

\* After the hash: whoever has the name by now is overwritten.  The foreign key
\* refuses an enrollment that is gone, and the request fails.
Store(c) ==
    /\ call[c].st = "hashing"
    /\ \/ /\ call[c].seat \in seats
          /\ keys' = [keys EXCEPT ![<<call[c].event, call[c].name>>] = Issued(c)]
          /\ call' = [call EXCEPT ![c] =
                 IF call[c].bulk
                 THEN Frame("between", call[c].event, None, None, call[c].left, TRUE)
                 ELSE Over]
       \/ /\ call[c].seat \notin seats
          /\ call' = [call EXCEPT ![c] = Over]
          /\ UNCHANGED keys
    /\ UNCHANGED <<eventVars, rosterVars, hook>>

RevokeKey(k) ==
    /\ Live(k)
    /\ keys' = [keys EXCEPT ![k].revoked = TRUE]
    /\ UNCHANGED <<eventVars, rosterVars, call, hook>>

-------------------------------------------------------------------------------
(* Events *)

\* rotatePublishToken, up to the await of hashToken and after it; the update of
\* an event that has been deleted changes nothing
RotateToken(c, e) ==
    /\ call[c].st = "new"
    /\ e \in events
    /\ call' = [call EXCEPT ![c] = Frame("rotating", e, None, None, {}, FALSE)]
    /\ UNCHANGED <<eventVars, rosterVars, keys, hook>>

StoreToken(c) ==
    /\ call[c].st = "rotating"
    /\ etoken' = IF call[c].event \in events
                 THEN [etoken EXCEPT ![call[c].event] = <<c, Shared>>]
                 ELSE etoken
    /\ call' = [call EXCEPT ![c] = Over]
    /\ UNCHANGED <<events, admits, rosterVars, keys, hook>>

ClearToken(e) ==
    /\ e \in events
    /\ etoken' = [etoken EXCEPT ![e] = None]
    /\ UNCHANGED <<events, admits, rosterVars, keys, call, hook>>

\* The window opens or closes, or the event is archived or brought back.
SetWindow(e) ==
    /\ e \in events
    /\ admits' = IF e \in admits THEN admits \ {e} ELSE admits \cup {e}
    /\ UNCHANGED <<events, etoken, rosterVars, keys, call, hook>>

\* The event goes with its enrollments and keys (on delete cascade).
DeleteEvent(e) ==
    /\ e \in events
    /\ events' = events \ {e}
    /\ admits' = admits \ {e}
    /\ etoken' = [etoken EXCEPT ![e] = None]
    /\ seats' = {x \in seats : x.event # e}
    /\ keys' = [k \in DOMAIN keys |-> IF k[1] = e THEN None ELSE keys[k]]
    /\ UNCHANGED <<terms, call, hook>>

-------------------------------------------------------------------------------
(* The on_publish hook: authorizePublish *)

\* (Mutant: revoked keys are not skipped.)
ReadAllKeys(n) == {<<e, keys[<<e, n>>].token>> : e \in {f \in Events : keys[<<f, n>>] # None}}

\* The keys under a name that are not revoked: event and token
ReadKeys(n) == {<<e, keys[<<e, n>>].token>> : e \in {f \in Events : Live(<<f, n>>)}}

\* The keys of the name are read; their tokens are verified one by one.
Arrive(h, n, t) ==
    /\ hook[h].st = "new"
    /\ hook' = [hook EXCEPT ![h] = HookFrame("verifying", t, ReadKeys(n), {})]
    /\ UNCHANGED <<eventVars, rosterVars, keys, call>>

Answer(h, yes) ==
    HookFrame(IF yes THEN "allowed" ELSE "refused", hook[h].token, {}, {})

\* The event of the key that verified, as it is now, decides ...
Verified(h) ==
    /\ hook[h].st = "verifying"
    /\ \E e \in Events :
          /\ <<e, hook[h].token>> \in hook[h].rows
          /\ hook' = [hook EXCEPT ![h] = Answer(h, e \in admits)]
    /\ UNCHANGED <<eventVars, rosterVars, keys, call>>

\* ... or none did, and the events whose publish token may match are read.
NoneVerified(h) ==
    /\ hook[h].st = "verifying"
    /\ \A e \in Events : <<e, hook[h].token>> \notin hook[h].rows
    /\ LET found == {e \in events : etoken[e] = hook[h].token}
       IN  hook' = [hook EXCEPT ![h] =
               IF found = {} THEN Answer(h, FALSE)
               ELSE HookFrame("shared", hook[h].token, {}, found \cap admits)]
    /\ UNCHANGED <<eventVars, rosterVars, keys, call>>

\* That token verified: the event as it was read decides.
SharedVerified(h) ==
    /\ hook[h].st = "shared"
    /\ hook' = [hook EXCEPT ![h] = Answer(h, hook[h].open # {})]
    /\ UNCHANGED <<eventVars, rosterVars, keys, call>>

-------------------------------------------------------------------------------
Next ==
    \/ \E e \in Events :
          \/ \E S \in SUBSET Students : ImportRoster(e, S)
          \/ ClearToken(e) \/ SetWindow(e) \/ DeleteEvent(e)
    \/ \E x \in seats : RemoveEnrollment(x)
    \/ \E k \in Events \X StreamNames : RevokeKey(k)
    \/ \E c \in Calls :
          \/ \E e \in Events :
                \/ GenerateBulk(c, e) \/ RotateToken(c, e)
                \/ \E s \in Students, b \in Bases : Generate(c, e, s, b)
          \/ NextStudent(c) \/ Store(c) \/ StoreToken(c)
    \/ \E h \in Hooks :
          \/ \E n \in StreamNames, t \in Tokens : Arrive(h, n, t)
          \/ Verified(h) \/ NoneVerified(h) \/ SharedVerified(h)

Spec == Init /\ [][Next]_vars

-------------------------------------------------------------------------------
(* Properties *)

\* The type invariant
TypeOK ==
    /\ events \subseteq Events
    /\ admits \subseteq Events
    /\ etoken \in [Events -> Tokens \cup {None}]
    /\ seats \subseteq Seats
    /\ terms \in [Events \X Students -> 0 .. MaxTerms]
    /\ keys \in [Events \X StreamNames -> KeyRows \cup {None}]
    /\ call \in [Calls -> [st : CallStates, event : Events \cup {None},
                           seat : Seats \cup {None},
                           name : StreamNames \cup {None},
                           left : SUBSET Students, bulk : BOOLEAN]]
    /\ hook \in [Hooks -> [st : HookStates, token : Tokens \cup {None},
                           rows : SUBSET (Events \X Tokens), open : SUBSET Events]]

\* A key that works belongs to somebody who is on the roster of its event,
\* although it is stored an await after the enrollment was looked up
\* (roster.ts:107, stream-keys.ts:112).
SeatedKeys ==
    \A e \in Events, n \in StreamNames : Live(<<e, n>>) =>
        keys[<<e, n>>].seat \in seats /\ keys[<<e, n>>].seat.event = e

\* The token of a key was made for the student the key is bound to, whoever
\* had the name before (stream-keys.ts:104-112).
OwnToken ==
    \A k \in Events \X StreamNames : Live(k) =>
        keys[k].token[2] = keys[k].seat.student

\* Nothing can make use of token t any more: no key or event has it, no call is
\* going to store it, no hook has read it and not decided.
Dead(t) ==
    /\ \A k \in Events \X StreamNames : Live(k) => keys[k].token # t
    /\ \A e \in Events : etoken[e] # t
    /\ call[t[1]].st = "over"
    /\ \A h \in Hooks : hook[h].token = t =>
          /\ hook[h].st = "verifying" => \A e \in Events : <<e, t>> \notin hook[h].rows
          /\ hook[h].st # "shared"

\* A token that was revoked, replaced, cleared or lost with its student stays
\* dead, through reissues and renewed enrollments, and it puts nobody on the
\* air (stream-keys.ts:6-8, access-control.ts:80).
DeadStaysDead ==
    [][\A t \in Tokens : Dead(t) =>
          /\ Dead(t)'
          /\ \A h \in Hooks :
                hook[h].token = t /\ hook[h].st # "allowed" => hook'[h].st # "allowed"]_vars
===============================================================================
