------------------------- MODULE StreamLifecycleProofs -------------------------
(***************************************************************************)
(* Proofs about StreamLifecycle for any finite set of connections, any     *)
(* stream names, any number of overlapping sweeps and restarts, any        *)
(* recorder cap and any page size: LifecycleInv is inductive, and with it  *)
(* the table is a registry of sessions, recorders are stopped once, and a  *)
(* session ended by its hook stays silent.                                 *)
(***************************************************************************)
EXTENDS StreamLifecycle, FiniteSetTheorems, TLAPS

\* The initial state satisfies the invariant.
LEMMA InitInv == Init => LifecycleInv
<1>. SUFFICES ASSUME Init PROVE LifecycleInv
  OBVIOUS
<1>1. TypeOK
  BY BoundsAssumption, ClientsAssumption
     DEF Init, TypeOK, SrsStates, Rows, NoRow, Statuses, MonStates, RecStates,
         SweepFrames, IdleFrame
<1>2. OpenRows = {} /\ Recorded = {}
  BY DEF Init, OpenRows, Recorded, NoRow
<1>3. OneOpenRow /\ RecordingHasSession
  BY <1>2 DEF OneOpenRow, RecordingHasSession
<1>4. ActiveIsCurrent
  BY DEF Init, ActiveIsCurrent
<1>5. RecordersTracked
  BY <1>2 DEF Init, RecordersTracked
<1>6. RowsNumbered
  BY DEF Init, RowsNumbered, NoRow, IdleFrame
<1>. QED
  BY <1>1, <1>3, <1>4, <1>5, <1>6 DEF LifecycleInv

\* A step that leaves the table and the two maps alone keeps the invariant, as
\* long as no connection goes back to before its hook.
LEMMA BystanderStep ==
    ASSUME LifecycleInv, TypeOK',
           UNCHANGED <<rows, active, handles, rec>>,
           \A c \in Clients : srs'[c] \in {"new", "asking", "dropped"} =>
                                 srs[c] \in {"new", "asking", "dropped"},
           \A c \in Clients : alive'[c] => alive[c],
           \A w \in Sweeps : sweep'[w].open \subseteq sweep[w].open \cup OpenRows
    PROVE  LifecycleInv'
<1>1. UNCHANGED <<OpenRows, Recorded>>
  BY DEF OpenRows, Recorded
<1>2. OneOpenRow' /\ ActiveIsCurrent' /\ RecordersTracked' /\ RecordingHasSession'
  BY <1>1 DEF LifecycleInv, OneOpenRow, ActiveIsCurrent, RecordersTracked,
              RecordingHasSession
<1>3. RowsNumbered'
  BY DEF LifecycleInv, RowsNumbered, OpenRows
<1>. QED
  BY <1>2, <1>3 DEF LifecycleInv

LEMMA SrsKeepsInv ==
    ASSUME LifecycleInv, NEW c \in Clients, SrsStep(c)
    PROVE  LifecycleInv'
<1>1. /\ UNCHANGED <<rows, nextId, active, alive, mon, measured, handles, flagged,
                     rec, credit, sweep, panel, restarts>>
      /\ srs \in [Clients -> SrsStates] /\ TypeOK
  BY DEF SrsStep, Connect, GoLive, Leave, Drop, hookVars, monVars, recVars,
         LifecycleInv, TypeOK
<1>2. PICK st \in SrsStates :
          /\ srs' = [srs EXCEPT ![c] = st]
          /\ st \in {"new", "asking", "dropped"} =>
                 srs[c] \in {"new", "asking", "dropped"}
  BY <1>1 DEF SrsStep, Connect, GoLive, Leave, Drop, SrsStates
<1>3. TypeOK'
  BY <1>1, <1>2 DEF TypeOK
<1>. QED
  BY <1>1, <1>2, <1>3, BystanderStep

\* stopRecording takes the handle of its name out of the map, and no recording
\* that is already being stopped is touched.
LEMMA StopRecordingEffect ==
    ASSUME TypeOK, RecordersTracked, NEW s \in Streams, NEW d \in Clients,
           StopRecording(s, d)
    PROVE  /\ handles' \in [Streams -> Clients \cup {NoClient}]
           /\ flagged' \in [Clients -> BOOLEAN]
           /\ rec' \in [Clients -> RecStates]
           /\ credit' \in [Clients -> Clients \cup {NoClient}]
           /\ handles'[s] = NoClient
           /\ \A t \in Streams : t # s => handles'[t] = handles[t]
           /\ RecordersTracked'
           /\ \A c \in Clients :
                  rec[c] = "quitting" => credit'[c] = credit[c]
<1>1. /\ handles \in [Streams -> Clients \cup {NoClient}]
      /\ flagged \in [Clients -> BOOLEAN]
      /\ rec \in [Clients -> RecStates]
      /\ credit \in [Clients -> Clients \cup {NoClient}]
  BY DEF TypeOK
<1>2. CASE handles[s] = NoClient
  <2>1. UNCHANGED <<handles, flagged, rec, credit>>
    BY <1>2 DEF StopRecording, recVars
  <2>2. RecordersTracked'
    BY <2>1 DEF RecordersTracked, Recorded
  <2>. QED
    BY <1>1, <1>2, <2>1, <2>2
<1>3. CASE handles[s] # NoClient
  <2>. DEFINE h == handles[s]
  <2>1. /\ handles' = [handles EXCEPT ![s] = NoClient]
        /\ rec' = [rec EXCEPT ![h] = "quitting"]
        /\ credit' = [credit EXCEPT ![h] = d]
        /\ flagged' = flagged
    BY <1>3 DEF StopRecording, TakeHandle
  <2>2. h \in Clients /\ rec[h] = "recording" /\ StreamOf[h] = s
    BY <1>1, <1>3 DEF RecordersTracked, Recorded
  <2>3. RecordersTracked'
    <3>1. ASSUME NEW t \in Streams, handles'[t] # NoClient
          PROVE  rec'[handles'[t]] = "recording" /\ StreamOf[handles'[t]] = t
      <4>1. t # s /\ handles'[t] = handles[t]
        BY <1>1, <2>1, <3>1
      <4>2. handles[t] \in Clients /\ rec[handles[t]] = "recording"
              /\ StreamOf[handles[t]] = t
        BY <1>1, <3>1, <4>1 DEF RecordersTracked, Recorded
      <4>3. handles[t] # h
        BY <2>2, <4>1, <4>2
      <4>. QED
        BY <1>1, <2>1, <4>1, <4>2, <4>3
    <3>2. ASSUME NEW c \in Clients, rec'[c] = "recording"
          PROVE  handles'[StreamOf[c]] = c
      <4>1. c # h /\ rec[c] = "recording"
        BY <1>1, <2>1, <2>2, <3>2
      <4>2. handles[StreamOf[c]] = c
        BY <4>1 DEF RecordersTracked
      <4>3. StreamOf[c] # s /\ StreamOf[c] \in Streams
        BY <4>1, <4>2, ClientsAssumption
      <4>. QED
        BY <1>1, <2>1, <4>2, <4>3
    <3>. QED
      BY <3>1, <3>2 DEF RecordersTracked, Recorded
  <2>. QED
    BY <1>1, <2>1, <2>2, <2>3, ClientsAssumption DEF RecStates
<1>. QED
  BY <1>2, <1>3

\* Closing the row of d, one of the name s, together with the recorder of s,
\* keeps what the invariant says of the table and the maps.
LEMMA ClosingKeeps ==
    ASSUME LifecycleInv, NEW s \in Streams, NEW d \in Clients, StreamOf[d] = s,
           NEW st \in Statuses,
           rows' = [rows EXCEPT ![d].open = FALSE, ![d].status = st],
           active' \in [Streams -> Clients \cup {NoClient}],
           \A t \in Streams : active'[t] \in {active[t], NoClient},
           StopRecording(s, d),
           rows[d].id # 0,
           \A c \in Clients : srs'[c] \in {"new", "asking", "dropped"} =>
                                 srs[c] \in {"new", "asking", "dropped"},
           \A c \in Clients : alive'[c] => alive[c],
           \A w \in Sweeps : sweep'[w].open \subseteq sweep[w].open
    PROVE  /\ rows' \in [Clients -> Rows]
           /\ OpenRows' = OpenRows \ {d}
           /\ OneOpenRow' /\ ActiveIsCurrent' /\ RecordersTracked'
           /\ RecordingHasSession' /\ RowsNumbered'
<1>1. TypeOK /\ rows \in [Clients -> Rows]
  BY DEF LifecycleInv, TypeOK
<1>2. /\ rows' \in [Clients -> Rows]
      /\ \A c \in Clients : c # d => rows'[c] = rows[c]
      /\ ~rows'[d].open /\ rows'[d].id = rows[d].id
  BY <1>1 DEF Rows
<1>3. OpenRows' = OpenRows \ {d}
  BY <1>2 DEF OpenRows
<1>4. OneOpenRow'
  BY <1>3 DEF LifecycleInv, OneOpenRow
<1>5. ActiveIsCurrent'
  BY <1>3 DEF LifecycleInv, ActiveIsCurrent
<1>6. /\ RecordersTracked'
      /\ handles'[s] = NoClient
      /\ \A t \in Streams : t # s => handles'[t] = handles[t]
  BY <1>1, StopRecordingEffect DEF LifecycleInv
<1>7. RecordingHasSession'
  <2>. SUFFICES ASSUME NEW t \in Streams, handles'[t] # NoClient
                PROVE  \E c \in OpenRows' : StreamOf[c] = t
    BY DEF RecordingHasSession, Recorded
  <2>1. t # s /\ handles[t] # NoClient
    BY <1>6
  <2>2. PICK c \in OpenRows : StreamOf[c] = t
    BY <2>1 DEF LifecycleInv, RecordingHasSession, Recorded
  <2>. QED
    BY <1>3, <2>1, <2>2
<1>8. RowsNumbered'
  <2>1. \A c \in Clients : rows'[c].id = rows[c].id
    BY <1>2
  <2>2. \A t \in Streams : active[t] # NoClient => active[t] \in Clients
    BY <1>1 DEF TypeOK
  <2>3. \A w \in Sweeps : sweep[w].open \subseteq Clients
    BY <1>1 DEF TypeOK, SweepFrames
  <2>4. ASSUME NEW c \in Clients, srs'[c] \in {"new", "asking", "dropped"}
        PROVE  rows'[c] = NoRow
    <3>1. rows[c] = NoRow
      BY <2>4 DEF LifecycleInv, RowsNumbered
    <3>2. c # d
      BY <3>1 DEF NoRow
    <3>. QED
      BY <1>2, <3>1, <3>2
  <2>5. \A c \in Clients : rows'[c].open \/ alive'[c] => rows'[c].id # 0
    BY <1>2 DEF LifecycleInv, RowsNumbered
  <2>6. \A t \in Streams : active'[t] # NoClient => rows'[active'[t]].id # 0
    BY <2>1, <2>2 DEF LifecycleInv, RowsNumbered
  <2>7. \A w \in Sweeps : \A c \in sweep'[w].open : rows'[c].id # 0
    BY <2>1, <2>3 DEF LifecycleInv, RowsNumbered
  <2>. QED
    BY <2>4, <2>5, <2>6, <2>7 DEF RowsNumbered
<1>. QED
  BY <1>2, <1>3, <1>4, <1>5, <1>6, <1>7, <1>8

\* The end of a stopRecording touches a recording nobody holds any more.
LEMMA FinishStopKeepsInv ==
    ASSUME LifecycleInv, NEW c \in Clients, FinishStop(c)
    PROVE  LifecycleInv'
<1>1. /\ UNCHANGED <<srs, rows, nextId, active, alive, mon, measured, handles,
                     flagged, credit, sweep, panel, restarts>>
      /\ rec[c] = "quitting" /\ rec \in [Clients -> RecStates] /\ TypeOK
  BY DEF FinishStop, hookVars, monVars, LifecycleInv, TypeOK
<1>2. PICK st \in {"archived", "discarded"} : rec' = [rec EXCEPT ![c] = st]
  BY DEF FinishStop
<1>3. TypeOK'
  BY <1>1, <1>2 DEF TypeOK, RecStates
<1>4. UNCHANGED <<OpenRows, Recorded>>
  BY <1>1 DEF OpenRows, Recorded
<1>5. \A d \in Clients : (rec'[d] = "recording") <=> (rec[d] = "recording")
  BY <1>1, <1>2
<1>6. RecordersTracked'
  <2>1. \A s \in Recorded : handles[s] \in Clients
    BY <1>1 DEF TypeOK, Recorded
  <2>. QED
    BY <1>1, <1>4, <1>5, <2>1 DEF LifecycleInv, RecordersTracked
<1>7. OneOpenRow' /\ ActiveIsCurrent' /\ RecordingHasSession' /\ RowsNumbered'
  BY <1>1, <1>4 DEF LifecycleInv, OneOpenRow, ActiveIsCurrent,
                    RecordingHasSession, RowsNumbered
<1>. QED
  BY <1>3, <1>6, <1>7 DEF LifecycleInv

\* handlePublish of an authorised publisher
LEMMA PublishKeepsInv ==
    ASSUME LifecycleInv, NEW c \in Clients, Publish(c)
    PROVE  LifecycleInv'
<1>. DEFINE s == StreamOf[c]
            row == [id |-> nextId, open |-> TRUE, status |-> "allowed",
                    compliant |-> FALSE]
<1>1. /\ TypeOK /\ s \in Streams /\ c # NoClient
      /\ nextId' = nextId + 1 /\ active' = [active EXCEPT ![s] = c]
      /\ alive' = [alive EXCEPT ![c] = TRUE] /\ panel' = panel \cup {c}
      /\ mon' = [mon EXCEPT ![c] = "sleeping"]
      /\ UNCHANGED <<measured, sweep, restarts>>
  BY ClientsAssumption DEF Publish, Register, LifecycleInv
<1>2. /\ rows' \in [Clients -> Rows]
      /\ rows'[c] = row
      /\ \A d \in Clients : d # c =>
             /\ rows'[d].open <=> rows[d].open /\ StreamOf[d] # s
             /\ rows'[d].id = rows[d].id
             /\ ~rows[d].open => rows'[d] = rows[d]
  <2>1. rows' = [d \in Clients |->
                    IF d = c THEN row
                    ELSE IF Supersedes(c, d)
                    THEN [rows[d] EXCEPT !.open = FALSE,
                                    !.status = FinalStatus(rows[d].compliant)]
                    ELSE rows[d]]
    BY DEF Publish
  <2>2. row \in Rows
    BY <1>1 DEF TypeOK, Rows, Statuses
  <2>3. ASSUME NEW d \in Clients, d # c
        PROVE  /\ rows'[d] \in Rows
               /\ rows'[d].open <=> rows[d].open /\ StreamOf[d] # s
               /\ rows'[d].id = rows[d].id
               /\ ~rows[d].open => rows'[d] = rows[d]
    <3>1. rows[d] \in Rows
      BY <1>1 DEF TypeOK
    <3>2. CASE Supersedes(c, d)
      <4>1. rows'[d] = [rows[d] EXCEPT !.open = FALSE,
                                   !.status = FinalStatus(rows[d].compliant)]
        BY <2>1, <2>3, <3>2
      <4>2. FinalStatus(rows[d].compliant) \in Statuses
        BY DEF FinalStatus, Statuses
      <4>. QED
        BY <3>1, <3>2, <4>1, <4>2 DEF Rows, Supersedes
    <3>3. CASE ~Supersedes(c, d)
      <4>1. rows'[d] = rows[d]
        BY <2>1, <2>3, <3>3
      <4>. QED
        BY <3>1, <3>3, <4>1 DEF Rows, Supersedes
    <3>. QED
      BY <3>2, <3>3
  <2>. QED
    BY <2>1, <2>2, <2>3
<1>3. OpenRows' = {d \in OpenRows : StreamOf[d] # s} \cup {c}
  BY <1>2 DEF OpenRows
<1>4. OneOpenRow'
  BY <1>3 DEF LifecycleInv, OneOpenRow
<1>5. ActiveIsCurrent'
  <2>. SUFFICES ASSUME NEW t \in Streams, active'[t] # NoClient
                PROVE  /\ StreamOf[active'[t]] = t
                       /\ \A d \in OpenRows' : StreamOf[d] = t => d = active'[t]
    BY DEF ActiveIsCurrent
  <2>1. CASE t = s
    BY <1>1, <1>3, <2>1 DEF TypeOK
  <2>2. CASE t # s
    <3>1. active'[t] = active[t]
      BY <1>1, <2>2 DEF TypeOK
    <3>. QED
      BY <1>3, <2>2, <3>1 DEF LifecycleInv, ActiveIsCurrent
  <2>. QED
    BY <2>1, <2>2
<1>6. /\ RecordersTracked'
      /\ \A t \in Streams : handles'[t] # NoClient => t = s \/ handles[t] # NoClient
      /\ handles' \in [Streams -> Clients \cup {NoClient}]
      /\ rec' \in [Clients -> RecStates]
      /\ UNCHANGED <<flagged, credit>>
  <2>1. /\ handles \in [Streams -> Clients \cup {NoClient}]
        /\ rec \in [Clients -> RecStates] /\ RecordersTracked
    BY <1>1 DEF TypeOK, LifecycleInv
  <2>2. CASE MayRecord(s)
    <3>1. /\ handles' = [handles EXCEPT ![s] = c]
          /\ rec' = [rec EXCEPT ![c] = "recording"]
          /\ UNCHANGED <<flagged, credit>> /\ handles[s] = NoClient
      BY <2>2 DEF Publish, StartRecording, MayRecord
    <3>2. ASSUME NEW t \in Streams, handles'[t] # NoClient
          PROVE  rec'[handles'[t]] = "recording" /\ StreamOf[handles'[t]] = t
      <4>1. CASE t = s
        BY <2>1, <3>1, <4>1
      <4>2. CASE t # s
        BY <2>1, <3>1, <3>2, <4>2 DEF RecordersTracked, Recorded
      <4>. QED
        BY <4>1, <4>2
    <3>3. ASSUME NEW d \in Clients, rec'[d] = "recording"
          PROVE  handles'[StreamOf[d]] = d
      <4>1. CASE d = c
        BY <1>1, <2>1, <3>1, <4>1
      <4>2. CASE d # c
        <5>1. handles[StreamOf[d]] = d
          BY <2>1, <3>1, <3>3, <4>2 DEF RecordersTracked
        <5>2. StreamOf[d] # s /\ StreamOf[d] \in Streams
          BY <3>1, <5>1, ClientsAssumption
        <5>. QED
          BY <2>1, <3>1, <5>1, <5>2
      <4>. QED
        BY <4>1, <4>2
    <3>4. RecordersTracked'
      BY <3>2, <3>3 DEF RecordersTracked, Recorded
    <3>. QED
      BY <1>1, <2>1, <3>1, <3>4 DEF RecStates
  <2>3. CASE ~MayRecord(s)
    <3>1. UNCHANGED <<handles, flagged, rec, credit>>
      BY <2>3 DEF Publish, StartRecording, recVars
    <3>2. RecordersTracked'
      BY <2>1, <3>1 DEF RecordersTracked, Recorded
    <3>. QED
      BY <2>1, <3>1, <3>2
  <2>. QED
    BY <2>2, <2>3
<1>7. RecordingHasSession'
  <2>. SUFFICES ASSUME NEW t \in Streams, handles'[t] # NoClient
                PROVE  \E d \in OpenRows' : StreamOf[d] = t
    BY DEF RecordingHasSession, Recorded
  <2>1. CASE t = s
    BY <1>3, <2>1
  <2>2. CASE t # s
    <3>1. PICK d \in OpenRows : StreamOf[d] = t
      BY <1>6, <2>2 DEF LifecycleInv, RecordingHasSession, Recorded
    <3>. QED
      BY <1>3, <2>2, <3>1
  <2>. QED
    BY <2>1, <2>2
<1>8. /\ srs' \in [Clients -> SrsStates]
      /\ srs'[c] \in {"allowed", "gone"}
      /\ \A d \in Clients : d # c => srs'[d] = srs[d]
  BY <1>1 DEF Publish, Answered, TypeOK, SrsStates
<1>9. RowsNumbered'
  <2>1. nextId # 0
    BY <1>1 DEF TypeOK
  <2>2. ASSUME NEW d \in Clients, d # c
        PROVE  /\ srs'[d] \in {"new", "asking", "dropped"} => rows'[d] = NoRow
               /\ rows'[d].open \/ alive'[d] => rows'[d].id # 0
    <3>1. alive'[d] = alive[d]
      BY <1>1, <2>2 DEF TypeOK
    <3>. QED
      BY <1>2, <1>8, <2>2, <3>1 DEF LifecycleInv, RowsNumbered, NoRow
  <2>3. \A d \in Clients : rows[d].id # 0 => rows'[d].id # 0
    BY <1>2, <2>1
  <2>4. \A t \in Streams : active'[t] # NoClient =>
            \/ active'[t] = c
            \/ /\ active[t] # NoClient /\ active[t] \in Clients
               /\ active'[t] = active[t]
    BY <1>1 DEF TypeOK
  <2>5. \A t \in Streams : active'[t] # NoClient => rows'[active'[t]].id # 0
    BY <1>2, <2>1, <2>3, <2>4 DEF LifecycleInv, RowsNumbered
  <2>6. \A w \in Sweeps : \A d \in sweep'[w].open : rows'[d].id # 0
    <3>1. \A w \in Sweeps : sweep[w].open \subseteq Clients
      BY <1>1 DEF TypeOK, SweepFrames
    <3>. QED
      BY <1>1, <2>3, <3>1 DEF LifecycleInv, RowsNumbered
  <2>7. \A d \in Clients :
            /\ srs'[d] \in {"new", "asking", "dropped"} => rows'[d] = NoRow
            /\ rows'[d].open \/ alive'[d] => rows'[d].id # 0
    BY <1>2, <1>8, <2>1, <2>2
  <2>. QED
    BY <2>5, <2>6, <2>7 DEF RowsNumbered
<1>10. TypeOK'
  <2>1. /\ nextId' \in Nat \ {0}
        /\ active' \in [Streams -> Clients \cup {NoClient}]
        /\ alive' \in [Clients -> BOOLEAN]
        /\ mon' \in [Clients -> MonStates]
        /\ panel' \subseteq Clients
    BY <1>1 DEF TypeOK, MonStates
  <2>2. /\ measured' \in [Clients -> BOOLEAN]
        /\ flagged' \in [Clients -> BOOLEAN]
        /\ credit' \in [Clients -> Clients \cup {NoClient}]
        /\ sweep' \in [Sweeps -> SweepFrames]
        /\ restarts' \in Nat
    BY <1>1, <1>6 DEF TypeOK
  <2>. QED
    BY <1>2, <1>6, <1>8, <2>1, <2>2 DEF TypeOK
<1>. QED
  BY <1>4, <1>5, <1>6, <1>7, <1>9, <1>10 DEF LifecycleInv

\* handlePublish of a refused publisher
LEMMA RejectKeepsInv ==
    ASSUME LifecycleInv, NEW c \in Clients, Reject(c)
    PROVE  LifecycleInv'
<1>. DEFINE row == [id |-> nextId, open |-> FALSE, status |-> "rejected",
                    compliant |-> FALSE]
<1>1. /\ TypeOK /\ nextId' = nextId + 1 /\ rows' = [rows EXCEPT ![c] = row]
      /\ UNCHANGED <<active, alive, mon, measured, handles, flagged, rec, credit,
                     sweep, panel, restarts>>
      /\ srs[c] \in {"asking", "dropped"}
  BY DEF Reject, monVars, recVars, LifecycleInv
<1>2. /\ srs' \in [Clients -> SrsStates] /\ srs'[c] = "gone"
      /\ \A d \in Clients : d # c => srs'[d] = srs[d]
  BY <1>1 DEF Reject, Answered, TypeOK, SrsStates
<1>3. row \in Rows
  BY <1>1 DEF TypeOK, Rows, Statuses
<1>4. ~rows[c].open
  BY <1>1 DEF LifecycleInv, RowsNumbered, NoRow
<1>5. UNCHANGED <<OpenRows, Recorded>>
  BY <1>1, <1>4 DEF TypeOK, OpenRows, Recorded
<1>6. TypeOK'
  <2>1. nextId' \in Nat \ {0} /\ rows' \in [Clients -> Rows]
    BY <1>1, <1>3 DEF TypeOK
  <2>. QED
    BY <1>1, <1>2, <2>1 DEF TypeOK
<1>7. OneOpenRow' /\ ActiveIsCurrent' /\ RecordersTracked' /\ RecordingHasSession'
  BY <1>1, <1>5 DEF LifecycleInv, OneOpenRow, ActiveIsCurrent, RecordersTracked,
                    RecordingHasSession
<1>8. RowsNumbered'
  <2>1. nextId # 0 /\ rows \in [Clients -> Rows]
    BY <1>1 DEF TypeOK
  <2>2. /\ rows'[c] = row /\ row.id # 0
        /\ \A d \in Clients : d # c => rows'[d] = rows[d]
    BY <1>1, <2>1
  <2>3. /\ \A w \in Sweeps : sweep[w].open \subseteq Clients
        /\ \A t \in Streams : active[t] # NoClient => active[t] \in Clients
    BY <1>1 DEF TypeOK, SweepFrames
  <2>. QED
    BY <1>1, <1>2, <2>2, <2>3 DEF LifecycleInv, RowsNumbered
<1>. QED
  BY <1>6, <1>7, <1>8 DEF LifecycleInv

\* handleUnpublish: whatever session `active` gives for the name is closed, with
\* the recorder of the name.
LEMMA UnpublishKeepsInv ==
    ASSUME LifecycleInv, NEW c \in Clients, Unpublish(c)
    PROVE  LifecycleInv'
<1>. DEFINE s == StreamOf[c]
            d == active[s]
<1>1. /\ TypeOK /\ RecordersTracked /\ s \in Streams
      /\ srs' = [srs EXCEPT ![c] = "gone"]
      /\ UNCHANGED <<nextId, mon, measured, sweep, restarts>>
  BY ClientsAssumption DEF Unpublish, monVars, LifecycleInv
<1>2. \A e \in Clients : srs'[e] \in {"new", "asking", "dropped"} =>
                            srs[e] \in {"new", "asking", "dropped"}
  BY <1>1 DEF TypeOK
<1>3. CASE d = NoClient
  <2>1. UNCHANGED <<rows, active, alive, panel, handles, flagged, rec, credit>>
    BY <1>3 DEF Unpublish, recVars
  <2>2. TypeOK'
    BY <1>1, <2>1 DEF TypeOK, SrsStates
  <2>. QED
    BY <1>1, <1>2, <2>1, <2>2, BystanderStep
<1>4. CASE d # NoClient
  <2>1. d \in Clients /\ StreamOf[d] = s
    BY <1>1, <1>4 DEF TypeOK, LifecycleInv, ActiveIsCurrent
  <2>2. /\ alive' = [alive EXCEPT ![d] = FALSE]
        /\ active' = [active EXCEPT ![s] = NoClient]
        /\ rows' = [rows EXCEPT ![d].open = FALSE,
                                ![d].status = FinalStatus(rows[d].compliant)]
        /\ panel' = panel \ {d}
        /\ StopRecording(s, d)
    BY <1>4 DEF Unpublish
  <2>3. FinalStatus(rows[d].compliant) \in Statuses
    BY DEF FinalStatus, Statuses
  <2>4. /\ active' \in [Streams -> Clients \cup {NoClient}]
        /\ \A t \in Streams : active'[t] \in {active[t], NoClient}
    BY <1>1, <2>2 DEF TypeOK
  <2>5. rows[d].id # 0
    BY <1>1, <1>4 DEF LifecycleInv, RowsNumbered
  <2>9. \A e \in Clients : alive'[e] => alive[e]
    BY <1>1, <2>2 DEF TypeOK
  <2>6. /\ rows' \in [Clients -> Rows] /\ OneOpenRow' /\ ActiveIsCurrent'
        /\ RecordersTracked' /\ RecordingHasSession' /\ RowsNumbered'
    <3>. HIDE DEF d, s
    <3>. QED
      BY <1>1, <1>2, <2>1, <2>2, <2>3, <2>4, <2>5, <2>9, ClosingKeeps
  <2>7. /\ handles' \in [Streams -> Clients \cup {NoClient}]
        /\ flagged' \in [Clients -> BOOLEAN] /\ rec' \in [Clients -> RecStates]
        /\ credit' \in [Clients -> Clients \cup {NoClient}]
    <3>. HIDE DEF d, s
    <3>. QED
      BY <1>1, <2>1, <2>2, StopRecordingEffect
  <2>8. TypeOK'
    BY <1>1, <2>2, <2>4, <2>6, <2>7 DEF TypeOK, SrsStates
  <2>. QED
    BY <2>6, <2>8 DEF LifecycleInv
<1>. QED
  BY <1>3, <1>4

\* The monitor's own steps do not touch the table or the maps, but for Judge.
LEMMA MonitorKeepsInv ==
    ASSUME LifecycleInv, NEW c \in Clients,
           MonitorWakes(c) \/ ProbeSees(c) \/ ProbeFails(c)
    PROVE  LifecycleInv'
<1>1. /\ UNCHANGED <<srs, rows, nextId, active, alive, measured, handles, flagged,
                     rec, credit, sweep, panel, restarts>>
      /\ mon \in [Clients -> MonStates] /\ TypeOK
  BY DEF MonitorWakes, ProbeSees, ProbeFails, hookVars, recVars, LifecycleInv,
         TypeOK
<1>2. mon' \in [Clients -> MonStates]
  BY <1>1 DEF MonitorWakes, ProbeSees, ProbeFails, MonStates
<1>3. TypeOK'
  BY <1>1, <1>2 DEF TypeOK
<1>. QED
  BY <1>1, <1>3, BystanderStep

\* updateStatus writes a row whether or not it has ended, and never reopens it;
\* markCompliant flags a recording of the name and leaves the map alone.
LEMMA JudgeKeepsInv ==
    ASSUME LifecycleInv, NEW c \in Clients, NEW within \in BOOLEAN,
           Judge(c, within)
    PROVE  LifecycleInv'
<1>1. /\ UNCHANGED <<srs, nextId, active, alive, sweep, restarts>>
      /\ TypeOK /\ rows \in [Clients -> Rows]
      /\ mon' = [mon EXCEPT ![c] = IF alive[c] THEN "sleeping" ELSE "off"]
  BY DEF Judge, LifecycleInv, TypeOK
<1>2. /\ panel' \subseteq Clients
      /\ UNCHANGED <<handles, rec, credit>>
      /\ measured' \in [Clients -> BOOLEAN]
  BY <1>1 DEF Judge, TypeOK, MarkCompliant, recVars
<1>3. flagged' \in [Clients -> BOOLEAN]
  BY <1>1 DEF Judge, TypeOK, MarkCompliant, recVars
<1>4. /\ rows' \in [Clients -> Rows]
      /\ \A d \in Clients : /\ rows'[d].open = rows[d].open
                            /\ rows'[d].id = rows[d].id
                            /\ d # c => rows'[d] = rows[d]
  <2>1. CASE UNCHANGED rows
    BY <1>1, <2>1
  <2>2. CASE \E st \in Statuses, ok \in BOOLEAN : PersistStatus(c, st, ok)
    <3>1. PICK st \in Statuses, ok \in BOOLEAN :
              rows' = [rows EXCEPT ![c].status = st, ![c].compliant = ok]
      BY <2>2 DEF PersistStatus
    <3>. QED
      BY <1>1, <3>1 DEF Rows
  <2>3. UNCHANGED rows \/ PersistStatus(c, "violating", rows[c].compliant)
          \/ PersistStatus(c, "compliant", TRUE)
    BY DEF Judge
  <2>4. "violating" \in Statuses /\ "compliant" \in Statuses
          /\ rows[c].compliant \in BOOLEAN
    BY <1>1 DEF Statuses, Rows
  <2>. QED
    BY <2>1, <2>2, <2>3, <2>4
<1>5. UNCHANGED <<OpenRows, Recorded>>
  BY <1>2, <1>4 DEF OpenRows, Recorded
<1>6. TypeOK'
  <2>1. mon' \in [Clients -> MonStates]
    BY <1>1 DEF TypeOK, MonStates
  <2>. QED
    BY <1>1, <1>2, <1>3, <1>4, <2>1 DEF TypeOK
<1>7. OneOpenRow' /\ ActiveIsCurrent' /\ RecordersTracked' /\ RecordingHasSession'
  BY <1>1, <1>2, <1>5 DEF LifecycleInv, OneOpenRow, ActiveIsCurrent,
                          RecordersTracked, RecordingHasSession
<1>8. RowsNumbered'
  <2>1. \A d \in Clients : rows'[d] = rows[d] \/ (d = c /\ alive[c])
    BY <1>4 DEF Judge, Interrupted
  <2>2. \A d \in Clients :
            /\ srs[d] \in {"new", "asking", "dropped"} => rows'[d] = NoRow
            /\ rows'[d].open \/ alive[d] => rows'[d].id # 0
    BY <1>4, <2>1 DEF LifecycleInv, RowsNumbered, NoRow
  <2>3. /\ \A w \in Sweeps : sweep[w].open \subseteq Clients
        /\ \A t \in Streams : active[t] # NoClient => active[t] \in Clients
    BY <1>1 DEF TypeOK, SweepFrames
  <2>. QED
    BY <1>1, <1>4, <2>2, <2>3 DEF LifecycleInv, RowsNumbered
<1>. QED
  BY <1>6, <1>7, <1>8 DEF LifecycleInv

\* A sweep that starts, is answered or gives up changes its own frame only, and
\* the rows in that frame are open ones.
LEMMA AskingKeepsInv ==
    ASSUME LifecycleInv, NEW w \in Sweeps,
           SweepStarts(w) \/ SrsLists(w) \/ SweepSkips(w)
    PROVE  LifecycleInv'
<1>1. /\ UNCHANGED <<srs, rows, nextId, active, alive, mon, measured, handles,
                     flagged, rec, credit, panel, restarts>>
      /\ sweep \in [Sweeps -> SweepFrames] /\ TypeOK
  BY DEF SweepStarts, SrsLists, SweepSkips, hookVars, monVars, recVars,
         LifecycleInv, TypeOK
<1>2. IdleFrame \in SweepFrames
  BY DEF IdleFrame, SweepFrames
<1>3. PICK f \in SweepFrames :
          /\ sweep' = [sweep EXCEPT ![w] = f]
          /\ f.open \subseteq sweep[w].open \cup OpenRows
  <2>1. CASE SweepStarts(w)
    <3>. DEFINE f == [IdleFrame EXCEPT !.phase = "asked", !.open = OpenRows,
                          !.compliant = {c \in OpenRows : rows[c].compliant}]
    <3>1. sweep' = [sweep EXCEPT ![w] = f]
      BY <2>1 DEF SweepStarts
    <3>2. f \in SweepFrames /\ f.open = OpenRows
      BY DEF IdleFrame, SweepFrames, OpenRows
    <3>. QED
      BY <3>1, <3>2
  <2>2. CASE SrsLists(w)
    <3>1. PICK names \in SUBSET LiveNames :
              sweep' = [sweep EXCEPT ![w].phase = "listed", ![w].names = names,
                                     ![w].wasLive = LiveClients]
      BY <2>2 DEF SrsLists
    <3>. DEFINE f == [sweep[w] EXCEPT !.phase = "listed", !.names = names,
                                      !.wasLive = LiveClients]
    <3>2. names \subseteq Streams /\ LiveClients \subseteq Clients
      BY <3>1, ClientsAssumption DEF LiveNames, LiveClients
    <3>3. f \in SweepFrames /\ f.open = sweep[w].open
      BY <1>1, <3>2 DEF SweepFrames
    <3>. QED
      BY <1>1, <3>1, <3>3
  <2>3. CASE SweepSkips(w)
    BY <1>2, <2>3 DEF SweepSkips, IdleFrame
  <2>. QED
    BY <2>1, <2>2, <2>3
<1>4. TypeOK'
  BY <1>1, <1>3 DEF TypeOK
<1>5. \A v \in Sweeps : sweep'[v].open \subseteq sweep[v].open \cup OpenRows
  BY <1>1, <1>3
<1>. QED
  BY <1>1, <1>4, <1>5, BystanderStep

\* One iteration of the sweep's loop, or the end of the loop
LEMMA CloseOneKeepsInv ==
    ASSUME LifecycleInv, NEW w \in Sweeps, NEW todo \in SUBSET sweep[w].open,
           CloseOne(w, sweep[w], todo),
           UNCHANGED <<srs, nextId, active, alive, mon, measured, restarts>>,
           panel' \subseteq panel
    PROVE  LifecycleInv'
<1>1. /\ TypeOK /\ RecordersTracked /\ sweep \in [Sweeps -> SweepFrames]
      /\ sweep[w] \in SweepFrames /\ todo \subseteq Clients
  BY DEF LifecycleInv, TypeOK, SweepFrames
<1>2. CASE todo = {}
  <2>1. /\ sweep' = [sweep EXCEPT ![w] = IdleFrame]
        /\ UNCHANGED <<rows, handles, flagged, rec, credit>>
    BY <1>2 DEF CloseOne, recVars
  <2>2. IdleFrame \in SweepFrames /\ IdleFrame.open = {}
    BY DEF IdleFrame, SweepFrames
  <2>3. TypeOK'
    BY <1>1, <2>1, <2>2 DEF TypeOK
  <2>4. \A v \in Sweeps : sweep'[v].open \subseteq sweep[v].open \cup OpenRows
    BY <1>1, <2>1, <2>2
  <2>. QED
    BY <2>1, <2>3, <2>4, BystanderStep
<1>3. CASE todo # {}
  <2>1. PICK c \in todo :
            /\ rows' = [rows EXCEPT ![c].open = FALSE,
                           ![c].status = FinalStatus(c \in sweep[w].compliant)]
            /\ SweepStops(StreamOf[c], c)
            /\ sweep' = [sweep EXCEPT ![w] =
                   [sweep[w] EXCEPT !.phase = "closing", !.open = todo \ {c},
                       !.names = {}, !.at = c, !.wait = handles[StreamOf[c]]]]
    BY <1>3 DEF CloseOne
  <2>2. /\ c \in Clients /\ StreamOf[c] \in Streams
        /\ StopRecording(StreamOf[c], c) /\ rows[c].id # 0
        /\ FinalStatus(c \in sweep[w].compliant) \in Statuses
    BY <1>1, <2>1, ClientsAssumption
       DEF SweepStops, LifecycleInv, RowsNumbered, FinalStatus, Statuses
  <2>3. /\ sweep' \in [Sweeps -> SweepFrames]
        /\ \A v \in Sweeps : sweep'[v].open \subseteq sweep[v].open
    <3>. DEFINE f == [sweep[w] EXCEPT !.phase = "closing", !.open = todo \ {c},
                          !.names = {}, !.at = c, !.wait = handles[StreamOf[c]]]
    <3>1. handles[StreamOf[c]] \in Clients \cup {NoClient}
      BY <1>1, <2>2 DEF TypeOK
    <3>2. f \in SweepFrames /\ f.open \subseteq sweep[w].open
      BY <1>1, <2>2, <3>1 DEF SweepFrames
    <3>3. sweep' = [sweep EXCEPT ![w] = f]
      BY <2>1
    <3>. HIDE DEF f
    <3>. QED
      BY <1>1, <3>2, <3>3
  <2>4. /\ active' \in [Streams -> Clients \cup {NoClient}]
        /\ \A t \in Streams : active'[t] \in {active[t], NoClient}
    BY <1>1 DEF TypeOK
  <2>5. /\ rows' \in [Clients -> Rows] /\ OneOpenRow' /\ ActiveIsCurrent'
        /\ RecordersTracked' /\ RecordingHasSession' /\ RowsNumbered'
    BY <2>1, <2>2, <2>3, <2>4, ClosingKeeps
  <2>6. /\ handles' \in [Streams -> Clients \cup {NoClient}]
        /\ flagged' \in [Clients -> BOOLEAN] /\ rec' \in [Clients -> RecStates]
        /\ credit' \in [Clients -> Clients \cup {NoClient}]
    BY <1>1, <2>2, StopRecordingEffect
  <2>7. TypeOK'
    BY <1>1, <2>3, <2>5, <2>6 DEF TypeOK
  <2>. QED
    BY <2>5, <2>7 DEF LifecycleInv
<1>. QED
  BY <1>2, <1>3

LEMMA SweepKeepsInv ==
    ASSUME LifecycleInv, NEW w \in Sweeps, SweepStep(w)
    PROVE  LifecycleInv'
<1>1. CASE SweepJudges(w)
  <2>1. /\ CloseOne(w, sweep[w], Stale(sweep[w]))
        /\ UNCHANGED <<srs, nextId, active, alive, mon, measured, restarts>>
        /\ panel' \subseteq panel /\ Stale(sweep[w]) \in SUBSET sweep[w].open
    BY <1>1 DEF SweepJudges, monVars, Stale
  <2>. QED
    BY <2>1, CloseOneKeepsInv
<1>2. CASE SweepContinues(w)
  <2>1. /\ CloseOne(w, sweep[w], sweep[w].open)
        /\ UNCHANGED <<srs, nextId, active, alive, mon, measured, restarts>>
        /\ panel' \subseteq panel /\ sweep[w].open \in SUBSET sweep[w].open
    BY <1>2 DEF SweepContinues, monVars
  <2>. QED
    BY <2>1, CloseOneKeepsInv
<1>. QED
  BY <1>1, <1>2, AskingKeepsInv DEF SweepStep

\* A restart of the app empties the maps and the frames; the rows stay.
LEMMA RestartKeepsInv ==
    ASSUME LifecycleInv, AppRestart
    PROVE  LifecycleInv'
<1>1. /\ TypeOK
      /\ UNCHANGED <<rows, nextId, flagged, credit, panel>>
      /\ active' = [s \in Streams |-> NoClient]
      /\ handles' = [s \in Streams |-> NoClient]
      /\ alive' = [c \in Clients |-> FALSE]
      /\ sweep' = [w \in Sweeps |-> IdleFrame]
  BY DEF AppRestart, LifecycleInv
<1>2. /\ srs' \in [Clients -> SrsStates]
      /\ \A c \in Clients : srs'[c] \in {"new", "asking", "dropped"} =>
                               srs[c] \in {"new", "asking", "dropped"}
  BY <1>1 DEF AppRestart, TypeOK, SrsStates
<1>3. /\ rec' \in [Clients -> RecStates]
      /\ \A c \in Clients : rec'[c] # "recording"
  BY <1>1 DEF AppRestart, TypeOK, RecStates
<1>4. TypeOK'
  <2>1. IdleFrame \in SweepFrames
    BY DEF IdleFrame, SweepFrames
  <2>2. /\ mon' \in [Clients -> MonStates] /\ measured' \in [Clients -> BOOLEAN]
        /\ restarts' \in Nat
    BY <1>1 DEF AppRestart, TypeOK, MonStates
  <2>. QED
    BY <1>1, <1>2, <1>3, <2>1, <2>2 DEF TypeOK
<1>5. OpenRows' = OpenRows /\ Recorded' = {}
  BY <1>1 DEF OpenRows, Recorded
<1>6. OneOpenRow' /\ ActiveIsCurrent' /\ RecordersTracked' /\ RecordingHasSession'
  BY <1>1, <1>3, <1>5 DEF LifecycleInv, OneOpenRow, ActiveIsCurrent,
                          RecordersTracked, RecordingHasSession
<1>7. RowsNumbered'
  BY <1>1, <1>2 DEF LifecycleInv, RowsNumbered, IdleFrame
<1>. QED
  BY <1>4, <1>6, <1>7 DEF LifecycleInv

\* Every step keeps the invariant.
LEMMA NextKeepsInv ==
    LifecycleInv /\ [Next]_vars => LifecycleInv'
<1>. SUFFICES ASSUME LifecycleInv, [Next]_vars
              PROVE  LifecycleInv'
  OBVIOUS
<1>1. CASE \E c \in Clients :
               SrsStep(c) \/ HookStep(c) \/ MonitorStep(c) \/ FinishStop(c)
  <2>1. PICK c \in Clients :
            SrsStep(c) \/ HookStep(c) \/ MonitorStep(c) \/ FinishStop(c)
    BY <1>1
  <2>2. CASE HookStep(c)
    BY <2>2, PublishKeepsInv, RejectKeepsInv, UnpublishKeepsInv DEF HookStep
  <2>3. CASE MonitorStep(c)
    BY <2>3, MonitorKeepsInv, JudgeKeepsInv DEF MonitorStep
  <2>. QED
    BY <2>1, <2>2, <2>3, SrsKeepsInv, FinishStopKeepsInv
<1>2. CASE \E w \in Sweeps : SweepStep(w)
  BY <1>2, SweepKeepsInv
<1>3. CASE AppRestart
  BY <1>3, RestartKeepsInv
<1>4. CASE UNCHANGED vars
  <2>1. UNCHANGED <<srs, rows, nextId, active, alive, mon, measured, handles,
                    flagged, rec, credit, sweep, panel, restarts>>
    BY <1>4 DEF vars, hookVars, monVars, recVars
  <2>2. TypeOK'
    BY <2>1 DEF LifecycleInv, TypeOK
  <2>. QED
    BY <2>1, <2>2, BystanderStep
<1>. QED
  BY <1>1, <1>2, <1>3, <1>4 DEF Next

\* The session table, the map of sessions and the map of recorders stay
\* consistent under any interleaving of hooks, monitors, sweeps and restarts.
THEOREM LifecycleSafe == Spec => []LifecycleInv
  BY InitInv, NextKeepsInv, PTL DEF Spec

\* A stream name never has two open sessions (handlePublish, the supersession).
THEOREM OneSessionPerName == Spec => []OneOpenRow
<1>1. LifecycleInv => OneOpenRow
  BY DEF LifecycleInv
<1>. QED
  BY <1>1, LifecycleSafe, PTL

\* on_unpublish, which finds the session by stream name, never passes over the
\* session that is open under that name for one that is not.
THEOREM UnpublishFindsCurrent == Spec => []ActiveIsCurrent
<1>1. LifecycleInv => ActiveIsCurrent
  BY DEF LifecycleInv
<1>. QED
  BY <1>1, LifecycleSafe, PTL

\* No ffmpeg that runs has been lost from the recorder's map.
THEOREM NoLostRecorder == Spec => []RecordersTracked
<1>1. LifecycleInv => RecordersTracked
  BY DEF LifecycleInv
<1>. QED
  BY <1>1, LifecycleSafe, PTL

\* No recording goes on after the last session of its name.
THEOREM NoOrphanRecording == Spec => []RecordingHasSession
<1>1. LifecycleInv => RecordingHasSession
  BY DEF LifecycleInv
<1>. QED
  BY <1>1, LifecycleSafe, PTL

-------------------------------------------------------------------------------
(***************************************************************************)
(* What no step may do, proved from the invariant: the table of sessions   *)
(* implements SessionRegistry; a recording is stopped once; a session that *)
(* has ended stays silent; and, when every name fits on one page of the    *)
(* answer SRS gives, a sweep spares what SRS listed.                       *)
(***************************************************************************)

\* The session of a name is the one open row of that name, if there is one.
LEMMA SessionOfName ==
    ASSUME NEW O \in SUBSET Clients,
           \A c, d \in O : StreamOf[c] = StreamOf[d] => c = d
    PROVE  /\ \A c \in O : SessionsIn(O)[StreamOf[c]] = c
           /\ \A s \in Streams : SessionsIn(O)[s] # NoClient =>
                  SessionsIn(O)[s] \in O /\ StreamOf[SessionsIn(O)[s]] = s
<1>1. \A c \in O : c # NoClient /\ StreamOf[c] \in Streams
  BY ClientsAssumption
<1>2. ASSUME NEW c \in O
      PROVE  SessionsIn(O)[StreamOf[c]] = c
  <2>1. SessionsIn(O)[StreamOf[c]] = CHOOSE d \in O : StreamOf[d] = StreamOf[c]
    BY <1>1 DEF SessionsIn
  <2>2. \E d \in O : StreamOf[d] = StreamOf[c]
    BY <1>2
  <2>. QED
    BY <2>1, <2>2
<1>3. ASSUME NEW s \in Streams, SessionsIn(O)[s] # NoClient
      PROVE  SessionsIn(O)[s] \in O /\ StreamOf[SessionsIn(O)[s]] = s
  <2>1. PICK c \in O : StreamOf[c] = s
    BY <1>3 DEF SessionsIn
  <2>. QED
    BY <1>2, <2>1
<1>. QED
  BY <1>2, <1>3

LEMMA RegistryInit == Init => Registry!Init
<1>. SUFFICES ASSUME Init PROVE Registry!Init
  OBVIOUS
<1>1. OpenRows = {} /\ EndedSessions = {}
  BY DEF Init, OpenRows, EndedSessions, NoRow
<1>2. CurrentSession = [s \in Streams |-> NoClient]
  BY <1>1 DEF CurrentSession, SessionsIn
<1>. QED
  BY <1>1, <1>2 DEF Registry!Init

\* A step that opens, closes and creates no row is a stutter of the registry.
LEMMA RegistryStutter ==
    ASSUME \A c \in Clients : /\ rows'[c].open = rows[c].open
                              /\ rows'[c].id = rows[c].id
    PROVE  UNCHANGED Registry!vars
<1>1. UNCHANGED <<OpenRows, EndedSessions>>
  BY DEF OpenRows, EndedSessions
<1>. QED
  BY <1>1 DEF Registry!vars, CurrentSession

\* Closing a row ends the current session of its name, or changes nothing.
LEMMA RegistryEnd ==
    ASSUME LifecycleInv, NEW d \in Clients, NEW st \in Statuses, rows[d].id # 0,
           rows' = [rows EXCEPT ![d].open = FALSE, ![d].status = st]
    PROVE  [Registry!Next]_Registry!vars
<1>. DEFINE s == StreamOf[d]
<1>1. /\ rows \in [Clients -> Rows] /\ s \in Streams /\ d # NoClient
      /\ OpenRows \in SUBSET Clients
      /\ \A c, e \in OpenRows : StreamOf[c] = StreamOf[e] => c = e
  BY ClientsAssumption DEF LifecycleInv, TypeOK, OneOpenRow, OpenRows
<1>2. /\ \A c \in Clients : rows'[c].id = rows[c].id
      /\ \A c \in Clients : c # d => rows'[c].open = rows[c].open
      /\ rows'[d].open = FALSE /\ rows[d].open \in BOOLEAN
  BY <1>1 DEF Rows
<1>3. CASE ~rows[d].open
  <2>1. \A c \in Clients : /\ rows'[c].open = rows[c].open
                           /\ rows'[c].id = rows[c].id
    BY <1>2, <1>3
  <2>. QED
    BY <2>1, RegistryStutter
<1>4. CASE rows[d].open
  <2>1. OpenRows' = OpenRows \ {d} /\ d \in OpenRows
    BY <1>2, <1>4 DEF OpenRows
  <2>2. EndedSessions' = EndedSessions \cup {d}
    BY <1>2 DEF EndedSessions
  <2>3. CurrentSession[s] = d
    BY <1>1, <2>1, SessionOfName DEF CurrentSession
  <2>4. CurrentSession' = [CurrentSession EXCEPT ![s] = NoClient]
    <3>1. ASSUME NEW t \in Streams
          PROVE  CurrentSession'[t] =
                     IF t = s THEN NoClient ELSE CurrentSession[t]
      <4>1. CASE t = s
        BY <1>1, <2>1, <4>1 DEF CurrentSession, SessionsIn
      <4>2. CASE t # s
        <5>1. \A c \in Clients : StreamOf[c] = t =>
                                   (c \in OpenRows' <=> c \in OpenRows)
          BY <2>1, <4>2
        <5>2. CASE \E c \in OpenRows : StreamOf[c] = t
          <6>1. PICK c \in OpenRows : StreamOf[c] = t
            BY <5>2
          <6>2. /\ c \in OpenRows' /\ OpenRows' \in SUBSET Clients
                /\ \A a, b \in OpenRows' : StreamOf[a] = StreamOf[b] => a = b
            BY <1>1, <2>1, <4>2, <6>1
          <6>. QED
            BY <1>1, <4>2, <6>1, <6>2, SessionOfName DEF CurrentSession
        <5>3. CASE ~\E c \in OpenRows : StreamOf[c] = t
          BY <2>1, <4>2, <5>3 DEF CurrentSession, SessionsIn
        <5>. QED
          BY <5>2, <5>3
      <4>. QED
        BY <4>1, <4>2
    <3>. QED
      BY <1>1, <3>1 DEF CurrentSession, SessionsIn
  <2>5. Registry!End(s)
    BY <1>1, <2>2, <2>3, <2>4 DEF Registry!End
  <2>. QED
    BY <1>1, <2>5 DEF Registry!Next
<1>. QED
  BY <1>3, <1>4

\* handlePublish of an authorised publisher starts a session that replaces the
\* current one of its name.
LEMMA RegistryStart ==
    ASSUME LifecycleInv, NEW c \in Clients, Publish(c)
    PROVE  Registry!Start(c)
<1>. DEFINE s == StreamOf[c]
<1>1. /\ rows \in [Clients -> Rows] /\ nextId \in Nat \ {0}
      /\ s \in Streams /\ c # NoClient
      /\ OpenRows \in SUBSET Clients
      /\ \A d, e \in OpenRows : StreamOf[d] = StreamOf[e] => d = e
      /\ rows[c].id = 0 /\ ~rows[c].open
  <2>1. srs[c] \in {"new", "asking", "dropped"}
    BY DEF Publish
  <2>2. rows[c].id = 0 /\ ~rows[c].open
    BY <2>1 DEF LifecycleInv, RowsNumbered, NoRow
  <2>. QED
    BY <2>2, ClientsAssumption DEF LifecycleInv, TypeOK, OneOpenRow, OpenRows
<1>2. /\ rows'[c].open = TRUE /\ rows'[c].id = nextId
      /\ \A d \in Clients : d # c =>
             /\ rows'[d].id = rows[d].id
             /\ rows'[d].open <=> rows[d].open /\ StreamOf[d] # s
  <2>1. rows' = [d \in Clients |->
                    IF d = c
                    THEN [id |-> nextId, open |-> TRUE, status |-> "allowed",
                          compliant |-> FALSE]
                    ELSE IF Supersedes(c, d)
                    THEN [rows[d] EXCEPT !.open = FALSE,
                                    !.status = FinalStatus(rows[d].compliant)]
                    ELSE rows[d]]
    BY DEF Publish
  <2>2. ASSUME NEW d \in Clients, d # c
        PROVE  /\ rows'[d].id = rows[d].id
               /\ rows'[d].open <=> rows[d].open /\ StreamOf[d] # s
    <3>1. rows[d] \in Rows
      BY <1>1
    <3>2. CASE Supersedes(c, d)
      BY <2>1, <2>2, <3>1, <3>2 DEF Rows, Supersedes
    <3>3. CASE ~Supersedes(c, d)
      BY <2>1, <2>2, <3>1, <3>3 DEF Supersedes
    <3>. QED
      BY <3>2, <3>3
  <2>. QED
    BY <2>1, <2>2
<1>3. OpenRows' = {d \in OpenRows : StreamOf[d] # s} \cup {c}
  BY <1>1, <1>2 DEF OpenRows
<1>4. Registry!Fresh(c)
  <2>1. c \notin EndedSessions
    BY <1>1 DEF EndedSessions
  <2>2. \A t \in Streams : CurrentSession[t] # c
    BY <1>1, SessionOfName DEF CurrentSession, OpenRows
  <2>. QED
    BY <2>1, <2>2 DEF Registry!Fresh
<1>5. /\ OpenRows' \in SUBSET Clients
      /\ \A a, b \in OpenRows' : StreamOf[a] = StreamOf[b] => a = b
  BY <1>1, <1>3
<1>6. CurrentSession' = [CurrentSession EXCEPT ![s] = c]
  <2>1. ASSUME NEW t \in Streams
        PROVE  CurrentSession'[t] = IF t = s THEN c ELSE CurrentSession[t]
    <3>1. CASE t = s
      BY <1>3, <1>5, <3>1, SessionOfName DEF CurrentSession
    <3>2. CASE t # s /\ \E d \in OpenRows : StreamOf[d] = t
      <4>1. PICK d \in OpenRows : StreamOf[d] = t
        BY <3>2
      <4>2. d \in OpenRows'
        BY <1>3, <3>2, <4>1
      <4>. QED
        BY <1>1, <1>5, <3>2, <4>1, <4>2, SessionOfName DEF CurrentSession
    <3>3. CASE t # s /\ ~\E d \in OpenRows : StreamOf[d] = t
      BY <1>3, <3>3 DEF CurrentSession, SessionsIn
    <3>. QED
      BY <3>1, <3>2, <3>3
  <2>. QED
    BY <1>1, <2>1 DEF CurrentSession, SessionsIn
<1>7. EndedSessions' = EndedSessions \cup ({CurrentSession[s]} \ {NoClient})
  <2>1. ASSUME NEW d \in Clients
        PROVE  d \in EndedSessions' <=>
                   d \in EndedSessions \/ d = CurrentSession[s]
    <3>1. CASE d = c
      <4>1. c \notin EndedSessions' /\ c \notin EndedSessions
        BY <1>1, <1>2 DEF EndedSessions
      <4>. QED
        BY <1>1, <1>4, <3>1, <4>1 DEF Registry!Fresh
    <3>2. CASE d # c /\ d \in OpenRows
      <4>1. rows[d].id # 0 /\ rows[d].open
        BY <3>2 DEF LifecycleInv, RowsNumbered, OpenRows
      <4>2. d \in EndedSessions' <=> StreamOf[d] = s
        BY <1>2, <3>2, <4>1 DEF EndedSessions
      <4>3. d = CurrentSession[s] <=> StreamOf[d] = s
        BY <1>1, <3>2, SessionOfName, ClientsAssumption DEF CurrentSession
      <4>4. d \notin EndedSessions
        BY <4>1 DEF EndedSessions
      <4>. QED
        BY <4>2, <4>3, <4>4
    <3>3. CASE d # c /\ d \notin OpenRows
      <4>1. ~rows[d].open
        BY <3>3 DEF OpenRows
      <4>2. d \in EndedSessions' <=> d \in EndedSessions
        BY <1>2, <3>3, <4>1 DEF EndedSessions
      <4>3. d # CurrentSession[s]
        BY <1>1, <3>3, SessionOfName, ClientsAssumption DEF CurrentSession
      <4>. QED
        BY <4>2, <4>3
    <3>. QED
      BY <3>1, <3>2, <3>3
  <2>2. EndedSessions \subseteq Clients /\ EndedSessions' \subseteq Clients
    BY DEF EndedSessions
  <2>3. CurrentSession[s] \in Clients \cup {NoClient}
    BY <1>1, SessionOfName DEF CurrentSession
  <2>4. NoClient \notin Clients
    BY ClientsAssumption
  <2>. QED
    BY <2>1, <2>2, <2>3, <2>4
<1>. QED
  BY <1>4, <1>6, <1>7 DEF Registry!Start

\* handlePublish of a refused publisher puts an ended session on record.
LEMMA RegistryRefuse ==
    ASSUME LifecycleInv, NEW c \in Clients, Reject(c)
    PROVE  Registry!Refuse(c)
<1>1. /\ rows \in [Clients -> Rows] /\ nextId \in Nat \ {0} /\ c # NoClient
      /\ OpenRows \in SUBSET Clients
      /\ \A d, e \in OpenRows : StreamOf[d] = StreamOf[e] => d = e
      /\ rows[c].id = 0 /\ ~rows[c].open
  BY ClientsAssumption DEF LifecycleInv, TypeOK, OneOpenRow, OpenRows,
                           RowsNumbered, Reject, NoRow
<1>2. /\ ~rows'[c].open /\ rows'[c].id = nextId
      /\ \A d \in Clients : d # c => rows'[d] = rows[d]
  BY <1>1 DEF Reject
<1>3. OpenRows' = OpenRows
  BY <1>1, <1>2 DEF OpenRows
<1>4. EndedSessions' = EndedSessions \cup {c}
  BY <1>1, <1>2 DEF EndedSessions
<1>5. Registry!Fresh(c)
  <2>1. c \notin EndedSessions /\ c \notin OpenRows
    BY <1>1 DEF EndedSessions, OpenRows
  <2>2. \A t \in Streams : CurrentSession[t] # c
    BY <1>1, <2>1, SessionOfName DEF CurrentSession
  <2>. QED
    BY <2>1, <2>2 DEF Registry!Fresh
<1>. QED
  BY <1>3, <1>4, <1>5 DEF Registry!Refuse, CurrentSession

\* markEnded of the row of c
RowClosed(c, st) ==
    rows' = [rows EXCEPT ![c].open = FALSE, ![c].status = st]

\* An iteration of the sweep's loop closes one row of `todo`, or nothing.
LEMMA CloseOneEffect ==
    ASSUME LifecycleInv, NEW w \in Sweeps, NEW todo \in SUBSET sweep[w].open,
           CloseOne(w, sweep[w], todo)
    PROVE  \/ UNCHANGED <<rows, handles, flagged, rec, credit>>
           \/ \E c \in todo, st \in Statuses :
                 /\ c \in Clients /\ StreamOf[c] \in Streams /\ rows[c].id # 0
                 /\ RowClosed(c, st) /\ StopRecording(StreamOf[c], c)
<1>1. todo \subseteq Clients
  BY DEF LifecycleInv, TypeOK, SweepFrames
<1>2. CASE todo = {}
  BY <1>2 DEF CloseOne, recVars
<1>3. CASE todo # {}
  <2>1. PICK c \in todo :
            /\ rows' = [rows EXCEPT ![c].open = FALSE,
                           ![c].status = FinalStatus(c \in sweep[w].compliant)]
            /\ SweepStops(StreamOf[c], c)
    BY <1>3 DEF CloseOne
  <2>2. /\ c \in Clients /\ StreamOf[c] \in Streams /\ rows[c].id # 0
        /\ StopRecording(StreamOf[c], c)
        /\ FinalStatus(c \in sweep[w].compliant) \in Statuses
    BY <1>1, <2>1, ClientsAssumption
       DEF SweepStops, LifecycleInv, RowsNumbered, FinalStatus, Statuses
  <2>. QED
    BY <2>1, <2>2 DEF RowClosed
<1>. QED
  BY <1>2, <1>3

LEMMA JudgeRows ==
    ASSUME LifecycleInv, NEW c \in Clients, NEW within \in BOOLEAN,
           Judge(c, within)
    PROVE  \A d \in Clients : /\ rows'[d].open = rows[d].open
                              /\ rows'[d].id = rows[d].id
                              /\ d # c \/ ~alive[c] => rows'[d] = rows[d]
<1>1. rows \in [Clients -> Rows]
  BY DEF LifecycleInv, TypeOK
<1>2. CASE UNCHANGED rows
  BY <1>2
<1>3. CASE alive[c] /\ \E st, ok : PersistStatus(c, st, ok)
  BY <1>1, <1>3 DEF PersistStatus, Rows
<1>. QED
  BY <1>2, <1>3 DEF Judge, Interrupted

\* Every step is a step of the registry or a stutter.
LEMMA RegistryStep ==
    LifecycleInv /\ [Next]_vars => [Registry!Next]_Registry!vars
<1>. SUFFICES ASSUME LifecycleInv, [Next]_vars
              PROVE  [Registry!Next]_Registry!vars
  OBVIOUS
<1>1. CASE UNCHANGED rows
  BY <1>1, RegistryStutter
<1>2. ASSUME NEW c \in Clients, HookStep(c)
      PROVE  [Registry!Next]_Registry!vars
  <2>1. CASE Publish(c)
    BY <2>1, RegistryStart DEF Registry!Next
  <2>2. CASE Reject(c)
    BY <2>2, RegistryRefuse DEF Registry!Next
  <2>3. CASE Unpublish(c) /\ ~UNCHANGED rows
    <3>. DEFINE d == active[StreamOf[c]]
    <3>1. /\ d # NoClient
          /\ rows' = [rows EXCEPT ![d].open = FALSE,
                                  ![d].status = FinalStatus(rows[d].compliant)]
      BY <2>3 DEF Unpublish
    <3>2. d \in Clients /\ rows[d].id # 0
      BY <3>1, ClientsAssumption DEF LifecycleInv, TypeOK, RowsNumbered
    <3>3. FinalStatus(rows[d].compliant) \in Statuses
      BY DEF FinalStatus, Statuses
    <3>. HIDE DEF d
    <3>. QED
      BY <3>1, <3>2, <3>3, RegistryEnd
  <2>. QED
    BY <1>1, <1>2, <2>1, <2>2, <2>3 DEF HookStep
<1>3. ASSUME NEW c \in Clients, NEW within \in BOOLEAN, Judge(c, within)
      PROVE  [Registry!Next]_Registry!vars
  BY <1>3, JudgeRows, RegistryStutter
<1>4. ASSUME NEW w \in Sweeps, SweepStep(w)
      PROVE  [Registry!Next]_Registry!vars
  <2>1. ASSUME NEW todo \in SUBSET sweep[w].open, CloseOne(w, sweep[w], todo)
        PROVE  [Registry!Next]_Registry!vars
    <3>1. CASE UNCHANGED rows
      BY <1>1, <3>1
    <3>2. CASE ~UNCHANGED rows
      <4>1. PICK c \in todo, st \in Statuses :
                c \in Clients /\ rows[c].id # 0 /\ RowClosed(c, st)
        BY <2>1, <3>2, CloseOneEffect
      <4>. QED
        BY <4>1, RegistryEnd DEF RowClosed
    <3>. QED
      BY <3>1, <3>2
  <2>2. CASE SweepJudges(w)
    BY <2>1, <2>2 DEF SweepJudges, Stale
  <2>3. CASE SweepContinues(w)
    BY <2>1, <2>3 DEF SweepContinues
  <2>. QED
    BY <1>1, <1>4, <2>2, <2>3
       DEF SweepStep, SweepStarts, SrsLists, SweepSkips, hookVars
<1>5. CASE UNCHANGED vars
  BY <1>1, <1>5 DEF vars, hookVars
<1>6. CASE AppRestart
  BY <1>1, <1>6 DEF AppRestart
<1>7. ASSUME NEW c \in Clients,
             \/ SrsStep(c) \/ FinishStop(c)
             \/ MonitorWakes(c) \/ ProbeSees(c) \/ ProbeFails(c)
      PROVE  UNCHANGED rows
  BY <1>7 DEF SrsStep, Connect, GoLive, Leave, Drop, FinishStop, MonitorWakes,
              ProbeSees, ProbeFails, hookVars
<1>. QED
  BY <1>1, <1>2, <1>3, <1>4, <1>5, <1>6, <1>7 DEF Next, MonitorStep

\* The publish_sessions table is a registry of sessions: the open row of a name
\* is its current session, a newer one replaces it, and nothing that monitors,
\* sweeps, late hooks or restarts write reopens a session that has ended.
THEOREM TableIsRegistry == Spec => ImplementsRegistry
<1>. USE RegistryInit, RegistryStep, LifecycleSafe
<1>. QED
  BY PTL DEF Spec, ImplementsRegistry, Registry!Spec

\* A recording that is being stopped keeps the session it is attributed to.
LEMMA CreditKept ==
    ASSUME LifecycleInv, [Next]_vars, NEW c \in Clients, rec[c] = "quitting"
    PROVE  credit'[c] = credit[c]
<1>1. TypeOK /\ RecordersTracked
  BY DEF LifecycleInv
<1>2. ASSUME NEW d \in Clients, HookStep(d)
      PROVE  credit'[c] = credit[c]
  <2>1. CASE UNCHANGED credit
    BY <2>1
  <2>2. CASE Unpublish(d) /\ ~UNCHANGED credit
    <3>. DEFINE e == active[StreamOf[d]]
    <3>1. e # NoClient /\ StopRecording(StreamOf[d], e)
      BY <2>2 DEF Unpublish, recVars
    <3>2. e \in Clients /\ StreamOf[d] \in Streams
      BY <1>1, <3>1, ClientsAssumption DEF TypeOK
    <3>. HIDE DEF e
    <3>. QED
      BY <1>1, <3>1, <3>2, StopRecordingEffect
  <2>. QED
    BY <1>2, <2>1, <2>2 DEF HookStep, Publish, Reject, StartRecording, recVars
<1>3. ASSUME NEW w \in Sweeps, NEW todo \in SUBSET sweep[w].open,
             CloseOne(w, sweep[w], todo)
      PROVE  credit'[c] = credit[c]
  <2>1. CASE UNCHANGED credit
    BY <2>1
  <2>2. CASE ~UNCHANGED credit
    <3>1. PICK d \in todo : /\ d \in Clients /\ StreamOf[d] \in Streams
                            /\ StopRecording(StreamOf[d], d)
      BY <1>3, <2>2, CloseOneEffect
    <3>. QED
      BY <1>1, <3>1, StopRecordingEffect
  <2>. QED
    BY <2>1, <2>2
<1>4. ASSUME NEW w \in Sweeps, SweepStep(w)
      PROVE  credit'[c] = credit[c]
  BY <1>3, <1>4 DEF SweepStep, SweepStarts, SrsLists, SweepSkips, SweepJudges,
                    SweepContinues, Stale, recVars
<1>5. ASSUME NEW d \in Clients, SrsStep(d) \/ MonitorStep(d) \/ FinishStop(d)
      PROVE  UNCHANGED credit
  BY <1>5 DEF SrsStep, Connect, GoLive, Leave, Drop, FinishStop, MonitorStep,
              MonitorWakes, ProbeSees, ProbeFails, Judge, MarkCompliant, recVars
<1>6. CASE AppRestart \/ UNCHANGED vars
  BY <1>6 DEF AppRestart, vars, recVars
<1>. QED
  BY <1>2, <1>4, <1>5, <1>6 DEF Next

\* Two ends of a session (a hook and a sweep, or two sweeps) never both stop one
\* recording: stopRecording takes the handle before its await.
THEOREM StopsOnce == Spec => StoppedOnce
<1>. DEFINE Kept == \A c \in Clients :
                       rec[c] = "quitting" /\ rec'[c] = "quitting"
                           => credit'[c] = credit[c]
<1>1. LifecycleInv /\ [Next]_vars => Kept
  BY CreditKept
<1>2. Kept => [Kept]_vars
  OBVIOUS
<1>. QED
  BY <1>1, <1>2, LifecycleSafe, PTL DEF Spec, StoppedOnce

\* Nothing puts an ended session on the panel or marks it compliant.
LEMMA EndedIsSilent ==
    ASSUME LifecycleInv, [Next]_vars, NEW c \in Clients,
           rows[c].id # 0, ~alive[c]
    PROVE  /\ c \in panel' => c \in panel
           /\ rows'[c].compliant = rows[c].compliant
<1>. DEFINE Silent == /\ c \in panel' => c \in panel
                      /\ rows'[c].compliant = rows[c].compliant
<1>1. rows \in [Clients -> Rows] /\ rows[c] \in Rows
  BY DEF LifecycleInv, TypeOK
<1>2. ASSUME NEW d \in Clients, NEW st,
             rows' = [rows EXCEPT ![d].open = FALSE, ![d].status = st]
      PROVE  rows'[c].compliant = rows[c].compliant
  BY <1>1, <1>2 DEF Rows
<1>3. ASSUME NEW d \in Clients, Publish(d) \/ Reject(d)
      PROVE  Silent
  <2>1. srs[d] \in {"new", "asking", "dropped"}
    BY <1>3 DEF Publish, Reject
  <2>2. c # d
    BY <2>1 DEF LifecycleInv, RowsNumbered, NoRow
  <2>3. CASE Publish(d)
    <3>1. /\ panel' = panel \cup {d}
          /\ \/ rows'[c] = rows[c]
             \/ rows'[c] = [rows[c] EXCEPT !.open = FALSE,
                               !.status = FinalStatus(rows[c].compliant)]
      BY <2>2, <2>3 DEF Publish
    <3>. QED
      BY <1>1, <2>2, <3>1 DEF Rows
  <2>4. CASE Reject(d)
    BY <1>1, <2>2, <2>4 DEF Reject
  <2>. QED
    BY <1>3, <2>3, <2>4
<1>4. ASSUME NEW d \in Clients, Unpublish(d)
      PROVE  Silent
  <2>1. panel' \subseteq panel
    BY <1>4 DEF Unpublish
  <2>2. CASE UNCHANGED rows
    BY <2>1, <2>2
  <2>3. CASE ~UNCHANGED rows
    <3>. DEFINE e == active[StreamOf[d]]
    <3>1. /\ e # NoClient
          /\ rows' = [rows EXCEPT ![e].open = FALSE,
                                  ![e].status = FinalStatus(rows[e].compliant)]
      BY <1>4, <2>3 DEF Unpublish
    <3>2. e \in Clients
      BY <3>1, ClientsAssumption DEF LifecycleInv, TypeOK
    <3>. HIDE DEF e
    <3>. QED
      BY <1>2, <2>1, <3>1, <3>2
  <2>. QED
    BY <2>2, <2>3
<1>5. ASSUME NEW d \in Clients, NEW within \in BOOLEAN, Judge(d, within)
      PROVE  Silent
  <2>1. d # c \/ ~alive[d] => rows'[c] = rows[c]
    BY <1>5, JudgeRows
  <2>2. panel' = panel \/ (alive[d] /\ panel' = panel \cup {d})
    BY <1>5 DEF Judge, Interrupted
  <2>. QED
    BY <2>1, <2>2
<1>6. ASSUME NEW w \in Sweeps, SweepStep(w)
      PROVE  Silent
  <2>1. panel' \subseteq panel
    BY <1>6 DEF SweepStep, SweepStarts, SrsLists, SweepSkips, SweepJudges,
                SweepContinues
  <2>2. ASSUME NEW todo \in SUBSET sweep[w].open, CloseOne(w, sweep[w], todo)
        PROVE  rows'[c].compliant = rows[c].compliant
    <3>1. CASE UNCHANGED rows
      BY <3>1
    <3>2. CASE ~UNCHANGED rows
      <4>1. PICK d \in todo, st \in Statuses :
                d \in Clients /\ RowClosed(d, st)
        BY <2>2, <3>2, CloseOneEffect
      <4>. QED
        BY <1>2, <4>1 DEF RowClosed
    <3>. QED
      BY <3>1, <3>2
  <2>3. rows'[c].compliant = rows[c].compliant
    BY <1>6, <2>2 DEF SweepStep, SweepStarts, SrsLists, SweepSkips, SweepJudges,
                      SweepContinues, Stale, hookVars
  <2>. QED
    BY <2>1, <2>3
<1>7. ASSUME NEW d \in Clients,
             \/ SrsStep(d) \/ FinishStop(d)
             \/ MonitorWakes(d) \/ ProbeSees(d) \/ ProbeFails(d)
      PROVE  UNCHANGED <<rows, panel>>
  BY <1>7 DEF SrsStep, Connect, GoLive, Leave, Drop, FinishStop, MonitorWakes,
              ProbeSees, ProbeFails, hookVars
<1>8. CASE AppRestart \/ UNCHANGED vars
  BY <1>8 DEF AppRestart, vars, hookVars
<1>. QED
  BY <1>3, <1>4, <1>5, <1>6, <1>7, <1>8 DEF Next, HookStep, MonitorStep

\* A monitor that waits for a probe while its session ends says nothing of it
\* afterwards (the check of session.active after the await).
THEOREM EndedStaysSilent == Spec => SilentAfterUnpublish
<1>. DEFINE Silent == \A c \in Clients :
                         rows[c].id # 0 /\ ~alive[c] =>
                             /\ c \in panel' => c \in panel
                             /\ rows'[c].compliant = rows[c].compliant
<1>1. LifecycleInv /\ [Next]_vars => Silent
  BY EndedIsSilent
<1>2. Silent => [Silent]_vars
  OBVIOUS
<1>. QED
  BY <1>1, <1>2, LifecycleSafe, PTL DEF Spec, SilentAfterUnpublish

\* One answer of SRS has room for the names of all publishers.
PageHolds == Cardinality({StreamOf[c] : c \in Clients}) <= PageSize

\* With such a page the answer names every publisher that is live.
LEMMA AnswerIsComplete ==
    ASSUME PageHolds, NEW names \in SUBSET LiveNames,
           \/ names = LiveNames /\ Cardinality(LiveNames) <= PageSize
           \/ Cardinality(names) = PageSize
    PROVE  names = LiveNames
<1>. DEFINE All == {StreamOf[c] : c \in Clients}
<1>1. IsFiniteSet(All)
  <2>1. StreamOf \in Surjection(Clients, All)
    BY ClientsAssumption DEF Surjection
  <2>. QED
    BY <2>1, FS_Surjection, ClientsAssumption
<1>2. LiveNames \subseteq All
  BY DEF LiveNames, LiveClients
<1>3. /\ IsFiniteSet(LiveNames) /\ Cardinality(LiveNames) <= Cardinality(All)
      /\ Cardinality(LiveNames) \in Nat /\ Cardinality(All) \in Nat
  BY <1>1, <1>2, FS_Subset, FS_CardinalityType
<1>4. /\ Cardinality(names) <= Cardinality(LiveNames)
      /\ Cardinality(names) = Cardinality(LiveNames) => names = LiveNames
      /\ Cardinality(names) \in Nat
  BY <1>3, FS_Subset, FS_CardinalityType
<1>5. Cardinality(All) <= PageSize /\ PageSize \in Nat
  BY BoundsAssumption DEF PageHolds
<1>. QED
  BY <1>3, <1>4, <1>5

\* The frame a loop iteration leaves: w closes no row that `todo` lacks.
LEMMA CloseOneFrame ==
    ASSUME TypeOK, NEW w \in Sweeps, NEW todo \in SUBSET sweep[w].open,
           todo \cap sweep[w].wasLive = {}, CloseOne(w, sweep[w], todo)
    PROVE  /\ FrameInv(sweep'[w])
           /\ \A v \in Sweeps : v # w => sweep'[v] = sweep[v]
           /\ \A c \in sweep[w].wasLive :
                  ~(sweep'[w].phase = "closing" /\ sweep'[w].at = c)
<1>1. sweep \in [Sweeps -> SweepFrames] /\ sweep[w] \in SweepFrames
  BY DEF TypeOK
<1>2. CASE todo = {}
  <2>1. sweep' = [sweep EXCEPT ![w] = IdleFrame]
    BY <1>2 DEF CloseOne
  <2>. QED
    BY <1>1, <2>1 DEF FrameInv, IdleFrame
<1>3. CASE todo # {}
  <2>1. PICK c \in todo : sweep' = [sweep EXCEPT ![w] =
            [sweep[w] EXCEPT !.phase = "closing", !.open = todo \ {c},
                !.names = {}, !.at = c, !.wait = handles[StreamOf[c]]]]
    BY <1>3 DEF CloseOne
  <2>2. /\ sweep'[w].phase = "closing" /\ sweep'[w].open = todo \ {c}
        /\ sweep'[w].at = c /\ sweep'[w].wasLive = sweep[w].wasLive
        /\ \A v \in Sweeps : v # w => sweep'[v] = sweep[v]
    BY <1>1, <2>1 DEF SweepFrames
  <2>. QED
    BY <2>2 DEF FrameInv
<1>. QED
  BY <1>2, <1>3

\* No row of a publisher the answer listed is left among the stale ones.
LEMMA StaleWasNotLive ==
    ASSUME TypeOK, NEW w \in Sweeps, sweep[w].phase = "listed",
           FrameInv(sweep[w])
    PROVE  Stale(sweep[w]) \cap sweep[w].wasLive = {}
<1>. SUFFICES ASSUME NEW c \in sweep[w].open, c \in Stale(sweep[w]),
                     c \in sweep[w].wasLive
              PROVE  FALSE
  BY DEF Stale
<1>1. PICK d \in sweep[w].open : StreamOf[d] = StreamOf[c] /\ rows[d].id > rows[c].id
  BY DEF FrameInv, Stale
<1>2. d = c
  BY <1>1 DEF FrameInv
<1>3. rows[c].id \in Nat
  BY DEF TypeOK, SweepFrames, Rows
<1>. QED
  BY <1>1, <1>2, <1>3

LEMMA InitSnapshots == Init => SnapshotInv
  BY DEF Init, SnapshotInv, FrameInv, IdleFrame

LEMMA NextKeepsSnapshots ==
    ASSUME PageHolds, LifecycleInv, SnapshotInv, [Next]_vars
    PROVE  SnapshotInv'
<1>1. TypeOK /\ OneOpenRow /\ sweep \in [Sweeps -> SweepFrames]
  BY DEF LifecycleInv, TypeOK
<1>2. ASSUME NEW w \in Sweeps, FrameInv(sweep'[w]),
             \A v \in Sweeps : v # w => sweep'[v] = sweep[v]
      PROVE  SnapshotInv'
  BY <1>2 DEF SnapshotInv, FrameInv
<1>3. ASSUME NEW w \in Sweeps, SweepStep(w)
      PROVE  SnapshotInv'
  <2>1. CASE SweepStarts(w)
    <3>1. /\ sweep'[w].phase = "asked" /\ sweep'[w].open = OpenRows
          /\ \A v \in Sweeps : v # w => sweep'[v] = sweep[v]
      BY <1>1, <2>1 DEF SweepStarts, IdleFrame
    <3>2. FrameInv(sweep'[w])
      BY <1>1, <3>1 DEF FrameInv, OneOpenRow
    <3>. QED
      BY <1>2, <3>1, <3>2
  <2>2. CASE SrsLists(w)
    <3>1. PICK names \in SUBSET LiveNames :
              /\ \/ names = LiveNames /\ Cardinality(LiveNames) <= PageSize
                 \/ Cardinality(names) = PageSize
              /\ sweep' = [sweep EXCEPT ![w].phase = "listed",
                              ![w].names = names, ![w].wasLive = LiveClients]
      BY <2>2 DEF SrsLists
    <3>2. names = LiveNames
      BY <3>1, AnswerIsComplete
    <3>3. /\ sweep'[w].phase = "listed" /\ sweep'[w].open = sweep[w].open
          /\ sweep'[w].names = names /\ sweep'[w].wasLive = LiveClients
          /\ \A v \in Sweeps : v # w => sweep'[v] = sweep[v]
      BY <1>1, <3>1 DEF SweepFrames
    <3>4. sweep[w].phase = "asked" /\ FrameInv(sweep[w])
      BY <2>2 DEF SrsLists, SnapshotInv
    <3>5. FrameInv(sweep'[w])
      BY <3>2, <3>3, <3>4 DEF FrameInv, LiveNames
    <3>. QED
      BY <1>2, <3>3, <3>5
  <2>3. CASE SweepSkips(w)
    BY <1>1, <1>2, <2>3 DEF SweepSkips, FrameInv, IdleFrame
  <2>4. CASE SweepJudges(w)
    <3>1. /\ Stale(sweep[w]) \cap sweep[w].wasLive = {}
          /\ Stale(sweep[w]) \in SUBSET sweep[w].open
          /\ CloseOne(w, sweep[w], Stale(sweep[w]))
      BY <1>1, <2>4, StaleWasNotLive DEF SweepJudges, SnapshotInv, Stale
    <3>. QED
      BY <1>1, <1>2, <3>1, CloseOneFrame
  <2>5. CASE SweepContinues(w)
    <3>1. /\ sweep[w].open \cap sweep[w].wasLive = {}
          /\ CloseOne(w, sweep[w], sweep[w].open)
      BY <2>5 DEF SweepContinues, SnapshotInv, FrameInv
    <3>. QED
      BY <1>1, <1>2, <3>1, CloseOneFrame
  <2>. QED
    BY <1>3, <2>1, <2>2, <2>3, <2>4, <2>5 DEF SweepStep
<1>4. ASSUME UNCHANGED sweep
      PROVE  SnapshotInv'
  BY <1>4 DEF SnapshotInv, FrameInv
<1>5. CASE AppRestart
  BY <1>5 DEF AppRestart, SnapshotInv, FrameInv, IdleFrame
<1>. QED
  BY <1>3, <1>4, <1>5
     DEF Next, vars, SrsStep, Connect, GoLive, Leave, Drop, HookStep, Publish,
         Reject, Unpublish, MonitorStep, MonitorWakes, ProbeSees, ProbeFails,
         Judge, FinishStop

LEMMA ListedIsSpared ==
    ASSUME LifecycleInv, SnapshotInv, [Next]_vars, NEW w \in Sweeps,
           NEW c \in Clients, ClosesBySweep(w, c)
    PROVE  c \notin sweep[w].wasLive
<1>1. TypeOK /\ sweep \in [Sweeps -> SweepFrames] /\ FrameInv(sweep[w])
  BY DEF LifecycleInv, TypeOK, SnapshotInv
<1>2. sweep'[w] # sweep[w] /\ sweep'[w].phase = "closing" /\ sweep'[w].at = c
  BY DEF ClosesBySweep
<1>3. SweepStep(w)
  <2>1. ASSUME NEW v \in Sweeps, SweepStep(v), v # w
        PROVE  sweep'[w] = sweep[w]
    BY <1>1, <2>1 DEF SweepStep, SweepStarts, SrsLists, SweepSkips, SweepJudges,
                      SweepContinues, CloseOne
  <2>2. ~AppRestart
    BY <1>2 DEF AppRestart, IdleFrame
  <2>. QED
    BY <1>2, <2>1, <2>2
       DEF Next, vars, SrsStep, Connect, GoLive, Leave, Drop, HookStep, Publish,
           Reject, Unpublish, MonitorStep, MonitorWakes, ProbeSees, ProbeFails,
           Judge, FinishStop
<1>4. CASE SweepStarts(w) \/ SrsLists(w) \/ SweepSkips(w)
  <2>1. CASE SweepStarts(w)
    BY <1>1, <1>2, <2>1 DEF SweepStarts, IdleFrame
  <2>2. CASE SrsLists(w)
    <3>1. sweep'[w].phase = "listed"
      BY <1>1, <2>2 DEF SrsLists, SweepFrames
    <3>. QED
      BY <1>2, <3>1
  <2>3. CASE SweepSkips(w)
    BY <1>1, <1>2, <2>3 DEF SweepSkips, IdleFrame
  <2>. QED
    BY <1>4, <2>1, <2>2, <2>3
<1>5. CASE SweepJudges(w)
  <2>1. /\ Stale(sweep[w]) \cap sweep[w].wasLive = {}
        /\ Stale(sweep[w]) \in SUBSET sweep[w].open
        /\ CloseOne(w, sweep[w], Stale(sweep[w]))
    BY <1>1, <1>5, StaleWasNotLive DEF SweepJudges, Stale
  <2>. QED
    BY <1>1, <1>2, <2>1, CloseOneFrame
<1>6. CASE SweepContinues(w)
  <2>1. /\ sweep[w].open \cap sweep[w].wasLive = {}
        /\ CloseOne(w, sweep[w], sweep[w].open)
    BY <1>1, <1>6 DEF SweepContinues, FrameInv
  <2>. QED
    BY <1>1, <1>2, <2>1, CloseOneFrame
<1>. QED
  BY <1>3, <1>4, <1>5, <1>6 DEF SweepStep

\* Provided one page of the answer holds the name of every publisher, a sweep
\* never ends the session of a publisher that was live when SRS answered.  Run
\* SweepPage shows that the proviso is needed.
THEOREM SweepSpares ==
    ASSUME PageHolds
    PROVE  Spec => SweepSparesListed
<1>. DEFINE Spared == \A w \in Sweeps, c \in Clients :
                         ClosesBySweep(w, c) => c \notin sweep[w].wasLive
<1>1. LifecycleInv /\ SnapshotInv /\ [Next]_vars => SnapshotInv'
  BY NextKeepsSnapshots
<1>2. LifecycleInv /\ SnapshotInv /\ [Next]_vars => Spared
  BY ListedIsSpared
<1>3. Spared => [Spared]_vars
  OBVIOUS
<1>. QED
  BY <1>1, <1>2, <1>3, InitSnapshots, LifecycleSafe, PTL DEF Spec, SweepSparesListed
===============================================================================
