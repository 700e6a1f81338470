--------------------------- MODULE StreamKeysProofs ---------------------------
(***************************************************************************)
(* Proofs about StreamKeys, for any events, students and numbers of        *)
(* requests: working keys belong to enrolled students and were made for    *)
(* them, and a token that nothing can make use of any more stays dead.     *)
(***************************************************************************)
EXTENDS StreamKeys, TLAPS

\* A call past its await knows its event; one that hashes a key has an
\* enrollment of that event and a name for it.
CallsKnow ==
    \A c \in Calls :
        /\ call[c].st \in {"hashing", "between", "rotating"} => call[c].event \in Events
        /\ call[c].st = "hashing" => /\ call[c].seat \in Seats
                                     /\ call[c].seat.event = call[c].event
                                     /\ call[c].name \in StreamNames

KeysInv == TypeOK /\ CallsKnow /\ SeatedKeys /\ OwnToken

USE StreamKeysAssumption

\* At first there are no keys and nobody is enrolled.
LEMMA InitHolds == Init => KeysInv
<1> SUFFICES ASSUME Init PROVE KeysInv
    OBVIOUS
<1>1. TypeOK
      BY DEF Init, TypeOK, Frame, HookFrame, CallStates, HookStates
<1>2. CallsKnow /\ SeatedKeys /\ OwnToken
      BY DEF Init, CallsKnow, SeatedKeys, OwnToken, Live, Frame
<1>3. QED
      BY <1>1, <1>2 DEF KeysInv

-------------------------------------------------------------------------------
(* Enrolling *)

\* Enrolling adds rows of its event and takes none away.
LEMMA EnrollAdds ==
    ASSUME KeysInv, NEW e \in Events, NEW S \in SUBSET Students, Enroll(e, S)
    PROVE  /\ seats \subseteq seats' /\ seats' \subseteq Seats
           /\ terms' \in [Events \X Students -> 0 .. MaxTerms]
<1>1. seats \subseteq Seats /\ terms \in [Events \X Students -> 0 .. MaxTerms]
      BY DEF KeysInv, TypeOK
<1> DEFINE fresh == S \ Enrolled(e)
<1>2. \A s \in fresh : terms[<<e, s>>] \in 0 .. MaxTerms /\ terms[<<e, s>>] < MaxTerms
      BY <1>1 DEF Enroll
<1>3. \A s \in fresh : NewSeat(e, s) \in Seats
  <2> SUFFICES ASSUME NEW s \in fresh PROVE NewSeat(e, s) \in Seats
      OBVIOUS
  <2>1. terms[<<e, s>>] + 1 \in 1 .. MaxTerms
        BY <1>2
  <2> QED
      BY <2>1 DEF NewSeat, Seats
<1>4. seats' = seats \cup {NewSeat(e, s) : s \in fresh}
      BY DEF Enroll
<1>5. terms' \in [Events \X Students -> 0 .. MaxTerms]
  <2>1. ASSUME NEW x \in Events \X Students
        PROVE  (IF x[1] = e /\ x[2] \in fresh THEN terms[x] + 1 ELSE terms[x]) \in 0 .. MaxTerms
    <3>1. CASE x[1] = e /\ x[2] \in fresh
      <4>1. terms[x] \in 0 .. MaxTerms /\ terms[x] < MaxTerms
            BY <3>1, <2>1, <1>2
      <4>2. terms[x] + 1 \in 0 .. MaxTerms
            BY <4>1
      <4> QED
          BY <4>2, <3>1
    <3>2. CASE ~(x[1] = e /\ x[2] \in fresh)
          BY <3>2, <2>1, <1>1
    <3> QED
        BY <3>1, <3>2
  <2>2. terms' = [x \in Events \X Students |->
                     IF x[1] = e /\ x[2] \in fresh THEN terms[x] + 1 ELSE terms[x]]
        BY <1>1 DEF Enroll
  <2> QED
      BY <2>1, <2>2
<1>6. QED
      BY <1>1, <1>3, <1>4, <1>5

\* The enrollment a key is made for is the student's in the event.
LEMMA SeatFound ==
    ASSUME KeysInv, NEW e \in Events, NEW s \in Students, Enroll(e, {s})
    PROVE  SeatOf(e, s) \in Seats /\ SeatOf(e, s).event = e
<1>1. CASE s \in Enrolled(e)
  <2>1. \E x \in seats : x.event = e /\ x.student = s
        BY <1>1 DEF Enrolled
  <2> DEFINE x0 == CHOOSE x \in seats : x.event = e /\ x.student = s
  <2>2. x0 \in seats /\ x0.event = e
        BY <2>1
  <2> HIDE DEF x0
  <2>3. x0 \in Seats
        BY <2>2 DEF KeysInv, TypeOK
  <2>4. SeatOf(e, s) = x0
        BY <1>1 DEF SeatOf, x0
  <2> QED
      BY <2>2, <2>3, <2>4
<1>2. CASE s \notin Enrolled(e)
  <2>1. terms[<<e, s>>] \in 0 .. MaxTerms /\ terms[<<e, s>>] < MaxTerms
        BY <1>2 DEF Enroll, KeysInv, TypeOK
  <2>2. NewSeat(e, s) \in Seats /\ NewSeat(e, s).event = e
        BY <2>1 DEF NewSeat, Seats
  <2> QED
      BY <1>2, <2>2 DEF SeatOf
<1>3. QED
      BY <1>1, <1>2

-------------------------------------------------------------------------------
(* Steps that leave the keys as they are.                                  *)

\* Whatever else happens, keys stay with their students while no enrollment goes.
LEMMA KeysStay ==
    ASSUME KeysInv, TypeOK', CallsKnow', UNCHANGED keys, seats \subseteq seats'
    PROVE  KeysInv'
  BY DEF KeysInv, SeatedKeys, OwnToken, Live

\* A call that hashes one key, in a loop or not
LEMMA BeginKeeps ==
    ASSUME KeysInv, NEW c \in Calls, NEW e \in Events, NEW s \in Students, NEW b \in Bases,
           NEW left \in SUBSET Students, NEW bulk \in BOOLEAN,
           Begin(c, e, s, b, left, bulk)
    PROVE  KeysInv'
<1>1. Enroll(e, {s}) /\ UNCHANGED <<events, admits, etoken, keys, hook>>
      BY DEF Begin, eventVars
<1>2. SeatOf(e, s) \in Seats /\ SeatOf(e, s).event = e
      BY <1>1, SeatFound
<1>3. PICK i \in 1 .. MaxSuffix :
          call' = [call EXCEPT ![c] = Frame("hashing", e, SeatOf(e, s), <<b, i>>, left, bulk)]
      BY DEF Begin
<1> DEFINE fr == Frame("hashing", e, SeatOf(e, s), <<b, i>>, left, bulk)
<1>4. <<b, i>> \in StreamNames
      BY DEF StreamNames
<1>5. /\ fr \in [st : CallStates, event : Events \cup {None}, seat : Seats \cup {None},
                 name : StreamNames \cup {None}, left : SUBSET Students, bulk : BOOLEAN]
      /\ fr.event = e /\ fr.seat = SeatOf(e, s) /\ fr.name = <<b, i>>
      BY <1>2, <1>4 DEF Frame, CallStates
<1> HIDE DEF fr
<1>6. call' = [call EXCEPT ![c] = fr]
      BY <1>3 DEF fr
<1>7. TypeOK'
      BY <1>1, <1>5, <1>6, EnrollAdds DEF KeysInv, TypeOK
<1>8. CallsKnow'
      BY <1>2, <1>4, <1>5, <1>6 DEF KeysInv, TypeOK, CallsKnow
<1>9. QED
      BY <1>1, <1>7, <1>8, EnrollAdds, KeysStay

\* A call that begins otherwise, goes on to nobody or is over has no key to store.
LEMMA FrameKeeps ==
    ASSUME KeysInv, NEW c \in Calls, NEW st \in {"between", "rotating", "over"},
           NEW e \in Events \cup {None}, NEW left \in SUBSET Students, NEW bulk \in BOOLEAN,
           st # "over" => e \in Events,
           call' = [call EXCEPT ![c] = Frame(st, e, None, None, left, bulk)]
    PROVE  /\ call' \in [Calls -> [st : CallStates, event : Events \cup {None},
                                   seat : Seats \cup {None},
                                   name : StreamNames \cup {None},
                                   left : SUBSET Students, bulk : BOOLEAN]]
           /\ CallsKnow'
<1> DEFINE fr == Frame(st, e, None, None, left, bulk)
<1>1. /\ fr \in [st : CallStates, event : Events \cup {None}, seat : Seats \cup {None},
                 name : StreamNames \cup {None}, left : SUBSET Students, bulk : BOOLEAN]
      /\ fr.st = st /\ fr.event = e
      BY DEF Frame, CallStates
<1> HIDE DEF fr
<1>2. call' = [call EXCEPT ![c] = fr]
      BY DEF fr
<1>3. QED
      BY <1>1, <1>2 DEF KeysInv, TypeOK, CallsKnow

\* A call starts, or goes on past an await.
LEMMA CallingKeeps ==
    ASSUME KeysInv, NEW c \in Calls,
           \/ \E e \in Events : \/ GenerateBulk(c, e) \/ RotateToken(c, e)
                              \/ \E s \in Students, b \in Bases : Generate(c, e, s, b)
           \/ NextStudent(c) \/ StoreToken(c)
    PROVE  KeysInv'
<1>1. call[c].left \subseteq Students
      BY DEF KeysInv, TypeOK
<1>2. ASSUME NEW e \in Events, NEW s \in Students, NEW b \in Bases, Generate(c, e, s, b)
      PROVE  KeysInv'
      BY <1>2, BeginKeeps DEF Generate
<1>3. ASSUME NEW e \in Events, GenerateBulk(c, e) \/ RotateToken(c, e) PROVE KeysInv'
  <2>1. PICK st \in {"between", "rotating"}, left \in SUBSET Students, bulk \in BOOLEAN :
            call' = [call EXCEPT ![c] = Frame(st, e, None, None, left, bulk)]
    <3>1. Enrolled(e) \subseteq Students
          BY DEF Enrolled, KeysInv, TypeOK, Seats
    <3> QED
        BY <1>3, <3>1 DEF GenerateBulk, RotateToken
  <2>2. UNCHANGED <<events, admits, etoken, seats, terms, keys, hook>>
        BY <1>3 DEF GenerateBulk, RotateToken, eventVars, rosterVars
  <2>3. TypeOK' /\ CallsKnow'
        BY <2>1, <2>2, FrameKeeps DEF KeysInv, TypeOK
  <2> QED
      BY <2>2, <2>3, KeysStay
<1>4. CASE NextStudent(c)
  <2>1. call[c].event \in Events
        BY <1>4 DEF NextStudent, KeysInv, CallsKnow
  <2>2. ASSUME NEW s \in call[c].left,
               Begin(c, call[c].event, s, BaseOf[s], call[c].left \ {s}, TRUE)
        PROVE  KeysInv'
        BY <1>1, <2>1, <2>2, BeginKeeps
  <2>3. CASE call' = [call EXCEPT ![c] = Over] /\ UNCHANGED <<eventVars, rosterVars, keys, hook>>
    <3>1. TypeOK' /\ CallsKnow'
          BY <2>3, FrameKeeps DEF Over, KeysInv, TypeOK, eventVars, rosterVars
    <3> QED
        BY <2>3, <3>1, KeysStay DEF rosterVars
  <2> QED
      BY <1>4, <2>2, <2>3 DEF NextStudent
<1>5. CASE StoreToken(c)
  <2>1. etoken' \in [Events -> Tokens \cup {None}]
        BY <1>5 DEF StoreToken, KeysInv, TypeOK, Tokens
  <2>2. TypeOK' /\ CallsKnow'
        BY <1>5, <2>1, FrameKeeps DEF StoreToken, Over, KeysInv, TypeOK, rosterVars
  <2> QED
      BY <1>5, <2>2, KeysStay DEF StoreToken, rosterVars
<1>6. QED
      BY <1>2, <1>3, <1>4, <1>5

\* Imports, windows and publish tokens
LEMMA SettingKeeps ==
    ASSUME KeysInv, NEW e \in Events,
           (\E S \in SUBSET Students : ImportRoster(e, S)) \/ ClearToken(e) \/ SetWindow(e)
    PROVE  KeysInv'
<1>1. ASSUME NEW S \in SUBSET Students, ImportRoster(e, S) PROVE KeysInv'
  <2>1. TypeOK' /\ CallsKnow'
        BY <1>1, EnrollAdds DEF ImportRoster, KeysInv, TypeOK, CallsKnow, eventVars
  <2> QED
      BY <1>1, <2>1, EnrollAdds, KeysStay DEF ImportRoster
<1>2. CASE ClearToken(e) \/ SetWindow(e)
  <2>1. TypeOK' /\ CallsKnow'
        BY <1>2 DEF ClearToken, SetWindow, KeysInv, TypeOK, CallsKnow, rosterVars
  <2> QED
      BY <1>2, <2>1, KeysStay DEF ClearToken, SetWindow, rosterVars
<1>3. QED
      BY <1>1, <1>2

\* The keys that are read carry tokens.
LEMMA HooksKeep ==
    ASSUME KeysInv, NEW h \in Hooks,
           \/ \E n \in StreamNames, t \in Tokens : Arrive(h, n, t)
           \/ Verified(h) \/ NoneVerified(h) \/ SharedVerified(h)
    PROVE  KeysInv'
<1> DEFINE Frames == [st : HookStates, token : Tokens \cup {None},
                      rows : SUBSET (Events \X Tokens), open : SUBSET Events]
<1>1. UNCHANGED <<events, admits, etoken, seats, terms, keys, call>>
      BY DEF Arrive, Verified, NoneVerified, SharedVerified, eventVars, rosterVars
<1>2. hook[h].token \in Tokens \cup {None} /\ events \subseteq Events
      BY DEF KeysInv, TypeOK
<1>3. \E fr \in Frames : hook' = [hook EXCEPT ![h] = fr]
  <2>1. ASSUME NEW yes \in BOOLEAN PROVE Answer(h, yes) \in Frames
        BY <1>2 DEF Answer, HookFrame, HookStates
  <2>2. ASSUME NEW n \in StreamNames, NEW t \in Tokens, Arrive(h, n, t)
        PROVE  \E fr \in Frames : hook' = [hook EXCEPT ![h] = fr]
    <3>1. ReadKeys(n) \subseteq Events \X Tokens
      <4>1. \A e \in Events : Live(<<e, n>>) => keys[<<e, n>>].token \in Tokens
            BY DEF Live, KeysInv, TypeOK, KeyRows
      <4>2. ASSUME NEW r \in ReadKeys(n) PROVE r \in Events \X Tokens
        <5>1. PICK e \in Events : Live(<<e, n>>) /\ r = <<e, keys[<<e, n>>].token>>
              BY DEF ReadKeys
        <5> QED
            BY <5>1, <4>1
      <4> QED
          BY <4>2
    <3>2. HookFrame("verifying", t, ReadKeys(n), {}) \in Frames
          BY <3>1 DEF HookFrame, HookStates
    <3> QED
        BY <2>2, <3>2 DEF Arrive
  <2>3. CASE Verified(h) \/ SharedVerified(h)
    <3>1. \E v \in {"allowed", "refused"} :
              hook' = [hook EXCEPT ![h] = HookFrame(v, hook[h].token, {}, {})]
          BY <2>3 DEF Verified, SharedVerified, Answer
    <3>2. \A v \in {"allowed", "refused"} : HookFrame(v, hook[h].token, {}, {}) \in Frames
          BY <1>2 DEF HookFrame, HookStates
    <3> QED
        BY <3>1, <3>2
  <2>4. CASE NoneVerified(h)
    <3> DEFINE found == {e \in events : etoken[e] = hook[h].token}
    <3>1. HookFrame("shared", hook[h].token, {}, found \cap admits) \in Frames
          BY <1>2 DEF HookFrame, HookStates
    <3> QED
        BY <2>1, <2>4, <3>1 DEF NoneVerified
  <2> QED
      BY <2>2, <2>3, <2>4
<1>4. TypeOK'
      BY <1>1, <1>3 DEF KeysInv, TypeOK
<1>5. CallsKnow'
      BY <1>1 DEF KeysInv, CallsKnow
<1>6. QED
      BY <1>1, <1>4, <1>5, KeysStay

-------------------------------------------------------------------------------
(* Steps that write keys.                                                  *)

\* A key is stored for an enrollment that is still there, under the name and
\* with the token made for it.
LEMMA StoreKeeps ==
    ASSUME KeysInv, NEW c \in Calls, Store(c)
    PROVE  KeysInv'
<1> DEFINE k == <<call[c].event, call[c].name>>
           x == call[c].seat
<1>1. /\ k \in Events \X StreamNames /\ x \in Seats /\ x.event = call[c].event
      /\ call[c].left \subseteq Students
      BY DEF Store, KeysInv, TypeOK, CallsKnow
<1>2. UNCHANGED <<events, admits, etoken, seats, terms, hook>>
      BY DEF Store, eventVars, rosterVars
<1>3. /\ call' \in [Calls -> [st : CallStates, event : Events \cup {None},
                              seat : Seats \cup {None},
                              name : StreamNames \cup {None},
                              left : SUBSET Students, bulk : BOOLEAN]]
      /\ CallsKnow'
      BY <1>1, FrameKeeps DEF Store, Over
<1>4. CASE x \in seats
  <2>1. keys' = [keys EXCEPT ![k] = Issued(c)]
        BY <1>4 DEF Store
  <2>2. /\ Issued(c) \in KeyRows
        /\ Issued(c).seat = x /\ Issued(c).token[2] = x.student
        BY <1>1 DEF Issued, TokenOf, KeyRows, Tokens, Seats
  <2>3. TypeOK'
        BY <1>1, <1>2, <1>3, <2>1, <2>2 DEF KeysInv, TypeOK
  <2>4. SeatedKeys' /\ OwnToken'
    <3>1. ASSUME NEW e \in Events, NEW n \in StreamNames, Live(<<e, n>>)'
          PROVE  /\ keys'[<<e, n>>].seat \in seats' /\ keys'[<<e, n>>].seat.event = e
                 /\ keys'[<<e, n>>].token[2] = keys'[<<e, n>>].seat.student
      <4>1. CASE <<e, n>> = k
            BY <4>1, <1>1, <1>2, <1>4, <2>1, <2>2 DEF KeysInv, TypeOK
      <4>2. CASE <<e, n>> # k
            BY <4>2, <3>1, <1>2, <2>1 DEF KeysInv, TypeOK, SeatedKeys, OwnToken, Live
      <4> QED
          BY <4>1, <4>2
    <3> QED
        BY <3>1 DEF SeatedKeys, OwnToken
  <2> QED
      BY <1>3, <2>3, <2>4 DEF KeysInv
<1>5. CASE x \notin seats
  <2>1. UNCHANGED keys
        BY <1>5 DEF Store
  <2>2. TypeOK'
        BY <1>2, <1>3, <2>1 DEF KeysInv, TypeOK
  <2> QED
      BY <1>2, <1>3, <2>1, <2>2, KeysStay
<1>6. QED
      BY <1>4, <1>5

\* A key that still works after keys were taken away is as it was.
LEMMA FewerKeep ==
    ASSUME KeysInv,
           keys' \in [Events \X StreamNames -> KeyRows \cup {None}],
           events' \subseteq Events, admits' \subseteq Events,
           etoken' \in [Events -> Tokens \cup {None}],
           seats' \subseteq seats, UNCHANGED <<terms, call, hook>>,
           \A e \in Events, n \in StreamNames : Live(<<e, n>>)' =>
               /\ Live(<<e, n>>) /\ keys'[<<e, n>>] = keys[<<e, n>>]
               /\ keys[<<e, n>>].seat \in seats'
    PROVE  KeysInv'
<1>1. TypeOK' /\ CallsKnow'
      BY DEF KeysInv, TypeOK, CallsKnow
<1>2. SeatedKeys'
      BY DEF KeysInv, SeatedKeys
<1>3. OwnToken'
      BY DEF KeysInv, OwnToken
<1>4. QED
      BY <1>1, <1>2, <1>3 DEF KeysInv

\* Revoking, and what an enrollment or an event takes along
LEMMA TakingKeeps ==
    ASSUME KeysInv,
           \/ \E k \in Events \X StreamNames : RevokeKey(k)
           \/ \E x \in seats : RemoveEnrollment(x)
           \/ \E e \in Events : DeleteEvent(e)
    PROVE  KeysInv'
<1>1. /\ keys \in [Events \X StreamNames -> KeyRows \cup {None}]
      /\ events \subseteq Events /\ admits \subseteq Events
      /\ etoken \in [Events -> Tokens \cup {None}]
      BY DEF KeysInv, TypeOK
<1>2. ASSUME NEW k \in Events \X StreamNames, RevokeKey(k) PROVE KeysInv'
  <2>1. keys[k] \in KeyRows
        BY <1>1, <1>2 DEF RevokeKey, Live
  <2>2. /\ [keys[k] EXCEPT !.revoked = TRUE] \in KeyRows
        /\ [keys[k] EXCEPT !.revoked = TRUE].revoked
        BY <2>1 DEF KeyRows
  <2>3. keys' = [keys EXCEPT ![k] = [keys[k] EXCEPT !.revoked = TRUE]]
        BY <1>2 DEF RevokeKey
  <2>4. keys' \in [Events \X StreamNames -> KeyRows \cup {None}]
        BY <1>1, <2>2, <2>3
  <2>5. \A j \in Events \X StreamNames : Live(j)' => Live(j) /\ keys'[j] = keys[j]
        BY <1>1, <2>2, <2>3 DEF Live
  <2> QED
      BY <1>1, <1>2, <2>4, <2>5, FewerKeep
         DEF RevokeKey, KeysInv, SeatedKeys, eventVars, rosterVars
<1>3. ASSUME NEW x \in seats, RemoveEnrollment(x) PROVE KeysInv'
  <2>1. \A j \in Events \X StreamNames :
            keys'[j] = IF keys[j] # None /\ keys[j].seat = x
                       THEN [keys[j] EXCEPT !.seat = None, !.revoked = TRUE] ELSE keys[j]
        BY <1>1, <1>3 DEF RemoveEnrollment, WithoutSeat
  <2>2. \A r \in KeyRows : /\ [r EXCEPT !.seat = None, !.revoked = TRUE] \in KeyRows
                           /\ [r EXCEPT !.seat = None, !.revoked = TRUE].revoked
        BY DEF KeyRows
  <2>3. keys' \in [Events \X StreamNames -> KeyRows \cup {None}]
    <3>1. \A j \in Events \X StreamNames : keys'[j] \in KeyRows \cup {None}
      <4> SUFFICES ASSUME NEW j \in Events \X StreamNames
                   PROVE  keys'[j] \in KeyRows \cup {None}
          OBVIOUS
      <4>1. CASE keys[j] # None /\ keys[j].seat = x
        <5>1. keys[j] \in KeyRows
              BY <4>1, <1>1
        <5> QED
            BY <4>1, <5>1, <2>1, <2>2
      <4>2. CASE ~(keys[j] # None /\ keys[j].seat = x)
            BY <4>2, <2>1, <1>1
      <4> QED
          BY <4>1, <4>2
    <3>2. keys' = [j \in Events \X StreamNames |-> keys'[j]]
          BY <1>1, <1>3 DEF RemoveEnrollment, WithoutSeat
    <3> QED
        BY <3>1, <3>2
  <2>4. \A j \in Events \X StreamNames :
            Live(j)' => Live(j) /\ keys'[j] = keys[j] /\ keys[j].seat # x
    <3> SUFFICES ASSUME NEW j \in Events \X StreamNames, Live(j)'
                 PROVE  Live(j) /\ keys'[j] = keys[j] /\ keys[j].seat # x
        OBVIOUS
    <3>1. ~(keys[j] # None /\ keys[j].seat = x)
      <4> SUFFICES ASSUME keys[j] # None, keys[j].seat = x PROVE FALSE
          OBVIOUS
      <4>1. keys[j] \in KeyRows /\ keys'[j] = [keys[j] EXCEPT !.seat = None, !.revoked = TRUE]
            BY <1>1, <2>1
      <4> QED
          BY <4>1, <2>2 DEF Live
    <3>2. keys'[j] = keys[j]
          BY <2>1, <3>1
    <3> QED
        BY <3>1, <3>2 DEF Live
  <2> QED
      BY <1>1, <1>3, <2>3, <2>4, FewerKeep
         DEF RemoveEnrollment, KeysInv, SeatedKeys, eventVars
<1>4. ASSUME NEW e \in Events, DeleteEvent(e) PROVE KeysInv'
  <2>1. keys' = [j \in Events \X StreamNames |-> IF j[1] = e THEN None ELSE keys[j]]
        BY <1>1, <1>4 DEF DeleteEvent
  <2>2. keys' \in [Events \X StreamNames -> KeyRows \cup {None}]
        BY <1>1, <2>1
  <2>3. \A f \in Events, n \in StreamNames :
            Live(<<f, n>>)' => f # e /\ Live(<<f, n>>) /\ keys'[<<f, n>>] = keys[<<f, n>>]
        BY <2>1 DEF Live
  <2>4. \A f \in Events, n \in StreamNames : Live(<<f, n>>)' => keys[<<f, n>>].seat \in seats'
        BY <2>3, <1>4 DEF DeleteEvent, KeysInv, SeatedKeys
  <2>5. /\ events' \subseteq Events /\ admits' \subseteq Events /\ seats' \subseteq seats
        /\ etoken' \in [Events -> Tokens \cup {None}]
        /\ UNCHANGED <<terms, call, hook>>
        BY <1>1, <1>4 DEF DeleteEvent
  <2> QED
      BY <2>2, <2>3, <2>4, <2>5, FewerKeep
<1>5. QED
      BY <1>2, <1>3, <1>4

\* Every step of StreamKeys keeps its invariant.
LEMMA NextKeeps == KeysInv /\ [Next]_vars => KeysInv'
<1> SUFFICES ASSUME KeysInv, [Next]_vars PROVE KeysInv'
    OBVIOUS
<1>1. CASE UNCHANGED vars
      BY <1>1 DEF vars, eventVars, rosterVars, KeysInv, TypeOK, CallsKnow, SeatedKeys,
                  OwnToken, Live
<1>2. CASE Next
      BY <1>2, CallingKeeps, SettingKeeps, HooksKeep, StoreKeeps, TakingKeeps DEF Next
<1>3. QED
      BY <1>1, <1>2

-------------------------------------------------------------------------------
(* Theorems *)

\* The invariant: the foreign keys, and whose the keys are.
THEOREM KeysSafe == Spec => []KeysInv
<1>1. QED
      BY InitHolds, NextKeeps, PTL DEF Spec

\* SeatedKeys for all instances: a key that works belongs to somebody who is on
\* the roster of its event, although it is stored an await after the lookup.
THEOREM SeatedHolds == Spec => []SeatedKeys
<1>1. KeysInv => SeatedKeys
      BY DEF KeysInv
<1>2. QED
      BY <1>1, KeysSafe, PTL

\* OwnToken for all instances: the token of a key was made for the student the
\* key is bound to, whoever had the name before.
THEOREM OwnTokenHolds == Spec => []OwnToken
<1>1. KeysInv => OwnToken
      BY DEF KeysInv
<1>2. QED
      BY <1>1, KeysSafe, PTL

\* A call that is over stays over, so what it made is all it will make.
LEMMA OverStays ==
    ASSUME KeysInv, Next, NEW c \in Calls, call[c].st = "over"
    PROVE  call'[c].st = "over"
<1>1. \/ UNCHANGED call
      \/ \E d \in Calls : \E fr : call[d].st # "over" /\ call' = [call EXCEPT ![d] = fr]
  <2>1. ASSUME NEW d \in Calls,
               \/ \E e \in Events : \/ GenerateBulk(d, e) \/ RotateToken(d, e)
                                  \/ \E s \in Students, b \in Bases : Generate(d, e, s, b)
               \/ NextStudent(d) \/ Store(d) \/ StoreToken(d)
        PROVE  \E fr : call[d].st # "over" /\ call' = [call EXCEPT ![d] = fr]
    <3>1. call[d].st # "over"
          BY <2>1 DEF GenerateBulk, RotateToken, Generate, NextStudent, Store, StoreToken
    <3>2. \E fr : call' = [call EXCEPT ![d] = fr]
          BY <2>1 DEF GenerateBulk, RotateToken, Generate, NextStudent, Store,
                      StoreToken, Begin
    <3> QED
        BY <3>1, <3>2
  <2>2. ASSUME ~(\E d \in Calls :
                    \/ \E e \in Events : \/ GenerateBulk(d, e) \/ RotateToken(d, e)
                                       \/ \E s \in Students, b \in Bases : Generate(d, e, s, b)
                    \/ NextStudent(d) \/ Store(d) \/ StoreToken(d))
        PROVE  UNCHANGED call
        BY <2>2 DEF Next, ImportRoster, ClearToken, SetWindow, DeleteEvent,
                    RemoveEnrollment,
           RevokeKey, Arrive, Verified, NoneVerified, SharedVerified
  <2> QED
      BY <2>1, <2>2
<1>2. QED
      BY <1>1 DEF KeysInv, TypeOK

\* A key that works has the token it had, or one that a call has just stored.
LEMMA TokensStay ==
    ASSUME KeysInv, Next, NEW k \in Events \X StreamNames, Live(k)'
    PROVE  \/ Live(k) /\ keys'[k].token = keys[k].token
           \/ \E c \in Calls : call[c].st = "hashing" /\ keys'[k].token[1] = c
<1>1. keys \in [Events \X StreamNames -> KeyRows \cup {None}]
      BY DEF KeysInv, TypeOK
<1>2. ASSUME NEW c \in Calls, Store(c)
      PROVE  \/ Live(k) /\ keys'[k].token = keys[k].token
             \/ call[c].st = "hashing" /\ keys'[k].token[1] = c
  <2>1. CASE UNCHANGED keys
        BY <2>1 DEF Live
  <2>2. CASE ~UNCHANGED keys
    <3>1. keys' = [keys EXCEPT ![<<call[c].event, call[c].name>>] = Issued(c)]
          BY <1>2, <2>2 DEF Store
    <3>2. Issued(c).token[1] = c /\ call[c].st = "hashing"
          BY <1>2 DEF Store, Issued, TokenOf
    <3>3. CASE k = <<call[c].event, call[c].name>>
          BY <3>1, <3>2, <3>3, <1>1
    <3>4. CASE k # <<call[c].event, call[c].name>>
          BY <3>1, <3>4, <1>1 DEF Live
    <3> QED
        BY <3>3, <3>4
  <2> QED
      BY <2>1, <2>2
<1>3. ASSUME NEW j \in Events \X StreamNames, RevokeKey(j)
      PROVE  Live(k) /\ keys'[k].token = keys[k].token
  <2>1. keys[j] \in KeyRows
        BY <1>1, <1>3 DEF RevokeKey, Live
  <2>2. [keys[j] EXCEPT !.revoked = TRUE].revoked
        BY <2>1 DEF KeyRows
  <2>3. keys' = [keys EXCEPT ![j] = [keys[j] EXCEPT !.revoked = TRUE]]
        BY <1>3 DEF RevokeKey
  <2> QED
      BY <1>1, <2>2, <2>3 DEF Live
<1>4. ASSUME NEW x \in seats, RemoveEnrollment(x)
      PROVE  Live(k) /\ keys'[k].token = keys[k].token
  <2>1. keys'[k] = IF keys[k] # None /\ keys[k].seat = x
                   THEN [keys[k] EXCEPT !.seat = None, !.revoked = TRUE] ELSE keys[k]
        BY <1>1, <1>4 DEF RemoveEnrollment, WithoutSeat
  <2>2. \A r \in KeyRows : [r EXCEPT !.seat = None, !.revoked = TRUE].revoked
        BY DEF KeyRows
  <2> QED
      BY <1>1, <2>1, <2>2 DEF Live
<1>5. ASSUME NEW e \in Events, DeleteEvent(e)
      PROVE  Live(k) /\ keys'[k].token = keys[k].token
      BY <1>1, <1>5 DEF DeleteEvent, Live
<1>6. CASE UNCHANGED keys
      BY <1>6 DEF Live
<1>7. \/ UNCHANGED keys
      \/ \E c \in Calls : Store(c)
      \/ \E j \in Events \X StreamNames : RevokeKey(j)
      \/ \E x \in seats : RemoveEnrollment(x)
      \/ \E e \in Events : DeleteEvent(e)
      BY DEF Next, ImportRoster, ClearToken, SetWindow, GenerateBulk, RotateToken,
             Generate,
         NextStudent, Begin, StoreToken, Arrive, Verified, NoneVerified, SharedVerified
<1>8. QED
      BY <1>2, <1>3, <1>4, <1>5, <1>6, <1>7

\* The same of the token of an event.
LEMMA EventTokensStay ==
    ASSUME KeysInv, Next, NEW e \in Events, etoken'[e] # None
    PROVE  \/ etoken'[e] = etoken[e]
           \/ \E c \in Calls : call[c].st = "rotating" /\ etoken'[e] = <<c, Shared>>
<1>1. etoken \in [Events -> Tokens \cup {None}]
      BY DEF KeysInv, TypeOK
<1>2. ASSUME NEW c \in Calls, StoreToken(c)
      PROVE  \/ etoken'[e] = etoken[e]
             \/ call[c].st = "rotating" /\ etoken'[e] = <<c, Shared>>
      BY <1>1, <1>2 DEF StoreToken
<1>3. ASSUME NEW f \in Events, ClearToken(f) \/ DeleteEvent(f)
      PROVE  etoken'[e] = etoken[e]
      BY <1>1, <1>3 DEF ClearToken, DeleteEvent
<1>4. \/ UNCHANGED etoken
      \/ \E c \in Calls : StoreToken(c)
      \/ \E f \in Events : ClearToken(f) \/ DeleteEvent(f)
      BY DEF Next, ImportRoster, SetWindow, GenerateBulk, RotateToken, Generate,
             NextStudent,
         Begin, Store, RevokeKey, RemoveEnrollment, Arrive, Verified, NoneVerified,
         SharedVerified, eventVars
<1>5. QED
      BY <1>2, <1>3, <1>4

\* A hook that comes with a token nothing can make use of reads no key of it,
\* finds no event for it and lets nobody on the air.
LEMMA HooksDeny ==
    ASSUME KeysInv, Next, NEW t \in Tokens, Dead(t), NEW h \in Hooks
    PROVE  /\ hook'[h].token = t =>
                 /\ hook'[h].st = "verifying" => \A e \in Events : <<e, t>> \notin hook'[h].rows
                 /\ hook'[h].st # "shared"
           /\ hook[h].token = t /\ hook[h].st # "allowed" => hook'[h].st # "allowed"
<1>1. hook[h].token = t =>
          /\ hook[h].st = "verifying" => \A e \in Events : <<e, t>> \notin hook[h].rows
          /\ hook[h].st # "shared"
      BY DEF Dead
<1>2. CASE hook'[h] = hook[h]
      BY <1>1, <1>2
<1>3. ASSUME NEW n \in StreamNames, NEW u \in Tokens, Arrive(h, n, u)
      PROVE  /\ \A e \in Events : <<e, t>> \notin hook'[h].rows
             /\ hook'[h].st = "verifying"
  <2>1. hook'[h] = HookFrame("verifying", u, ReadKeys(n), {})
        BY <1>3 DEF Arrive, KeysInv, TypeOK
  <2>2. ASSUME NEW e \in Events PROVE <<e, t>> \notin ReadKeys(n)
        BY DEF ReadKeys, Dead
  <2> QED
      BY <2>1, <2>2 DEF HookFrame
<1>4. CASE hook[h].st = "verifying" /\ hook[h].token = t
           /\ (Verified(h) \/ NoneVerified(h))
  <2>1. ~Verified(h)
        BY <1>1, <1>4 DEF Verified
  <2>2. {e \in events : etoken[e] = t} = {}
        BY DEF Dead, KeysInv, TypeOK
  <2>3. hook' = [hook EXCEPT ![h] = Answer(h, FALSE)]
        BY <1>4, <2>1, <2>2 DEF NoneVerified
  <2>4. hook'[h].st = "refused"
        BY <2>3 DEF Answer, HookFrame, KeysInv, TypeOK
  <2> QED
      BY <2>4
<1>5. CASE Verified(h) \/ NoneVerified(h) \/ SharedVerified(h)
  <2>1. hook'[h].token = hook[h].token
    <3>1. \E st, rs, es : hook' = [hook EXCEPT ![h] = HookFrame(st, hook[h].token, rs, es)]
          BY <1>5 DEF Verified, NoneVerified, SharedVerified, Answer
    <3> QED
        BY <3>1 DEF HookFrame, KeysInv, TypeOK
  <2>2. CASE hook[h].token = t
    <3>1. ~SharedVerified(h)
          BY <2>2, <1>1 DEF SharedVerified
    <3> QED
        BY <2>2, <3>1, <1>4, <1>5 DEF Verified, NoneVerified
  <2> QED
      BY <2>1, <2>2
<1>6. \/ hook'[h] = hook[h]
      \/ \E n \in StreamNames, u \in Tokens : Arrive(h, n, u)
      \/ Verified(h) \/ NoneVerified(h) \/ SharedVerified(h)
  <2>1. \/ UNCHANGED hook
        \/ \E g \in Hooks : \/ \E n \in StreamNames, u \in Tokens : Arrive(g, n, u)
                           \/ Verified(g) \/ NoneVerified(g) \/ SharedVerified(g)
        BY DEF Next, ImportRoster, ClearToken, SetWindow, DeleteEvent, RemoveEnrollment,
               RevokeKey,
           GenerateBulk, RotateToken, Generate, NextStudent, Begin, Store, StoreToken
  <2>2. ASSUME NEW g \in Hooks, g # h,
               \/ \E n \in StreamNames, u \in Tokens : Arrive(g, n, u)
               \/ Verified(g) \/ NoneVerified(g) \/ SharedVerified(g)
        PROVE  hook'[h] = hook[h]
    <3>1. \E fr : hook' = [hook EXCEPT ![g] = fr]
          BY <2>2 DEF Arrive, Verified, NoneVerified, SharedVerified
    <3> QED
        BY <3>1, <2>2 DEF KeysInv, TypeOK
  <2> QED
      BY <2>1, <2>2
<1>7. QED
      BY <1>2, <1>3, <1>5, <1>6

\* DeadStaysDead for all instances: a token that was revoked, replaced, cleared
\* or lost with its student works for nobody any more.
THEOREM DeadHolds == Spec => DeadStaysDead
<1> DEFINE Denied(t) ==
        Dead(t) => /\ Dead(t)'
                   /\ \A h \in Hooks : hook[h].token = t /\ hook[h].st # "allowed" =>
                                         hook'[h].st # "allowed"
<1>1. ASSUME KeysInv, Next, NEW t \in Tokens, Dead(t)
      PROVE  /\ Dead(t)'
             /\ \A h \in Hooks : hook[h].token = t /\ hook[h].st # "allowed" =>
                                   hook'[h].st # "allowed"
  <2>1. t[1] \in Calls /\ call[t[1]].st = "over"
        BY <1>1 DEF Tokens, Dead
  <2>2. call'[t[1]].st = "over"
        BY <1>1, <2>1, OverStays
  <2>3. \A k \in Events \X StreamNames : Live(k)' => keys'[k].token # t
        BY <1>1, <2>1, TokensStay DEF Dead
  <2>4. \A e \in Events : etoken'[e] # t
    <3> SUFFICES ASSUME NEW e \in Events, etoken'[e] = t PROVE FALSE
        OBVIOUS
    <3>1. etoken'[e] # None
          BY <1>1 DEF Tokens
    <3>2. etoken[e] # t
          BY <1>1 DEF Dead
    <3>3. PICK c \in Calls : call[c].st = "rotating" /\ etoken'[e] = <<c, Shared>>
          BY <1>1, <3>1, <3>2, EventTokensStay
    <3>4. t[1] = c
          BY <3>3
    <3> QED
        BY <2>1, <3>3, <3>4
  <2>5. \A h \in Hooks :
            /\ hook'[h].token = t =>
                  /\ hook'[h].st = "verifying" => \A e \in Events : <<e, t>> \notin hook'[h].rows
                  /\ hook'[h].st # "shared"
            /\ hook[h].token = t /\ hook[h].st # "allowed" => hook'[h].st # "allowed"
        BY <1>1, HooksDeny
  <2>6. Dead(t)'
        BY <2>2, <2>3, <2>4, <2>5 DEF Dead
  <2> QED
      BY <2>5, <2>6
<1>2. KeysInv /\ [Next]_vars => [\A t \in Tokens : Denied(t)]_vars
      BY <1>1
<1>3. QED
      BY <1>2, KeysSafe, PTL DEF Spec, DeadStaysDead
===============================================================================
