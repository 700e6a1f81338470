---------------------------- MODULE StreamLifecycle ----------------------------
(***************************************************************************)
(* The life of a stream in the app: the on_publish and on_unpublish hooks  *)
(* (server/services/stream-lifecycle.ts), the monitor each admitted        *)
(* session starts, the recorder (recorder.ts), the stale-session sweep     *)
(* (reconcile.ts), the publish_sessions rows they share, and the rows an   *)
(* open live panel shows (app/pages/dashboard/streams.vue).                *)
(*                                                                         *)
(* The app is one JavaScript event loop, so an action is the code between  *)
(* two awaits.  SRS is external: it announces a publisher, waits for the   *)
(* answer, carries at most one publisher per stream name                   *)
(* (stream-lifecycle.ts:114), and announces the end, unless the hook is    *)
(* lost or SRS restarts.  A client id is one RTMP publish connection, so   *)
(* it also names the session and the recording that connection gives rise  *)
(* to.  Whether a publisher is authorised is left open here, and a probe's *)
(* measurements are reduced to what checkLimits makes of them.             *)
(***************************************************************************)
EXTENDS Naturals, FiniteSets

CONSTANTS
    Clients,       \* SRS client ids
    Streams,       \* stream names
    StreamOf,      \* the name each client publishes under
    NoClient,
    Sweeps,        \* invocations of reconcileStaleSessions that may overlap
    MaxRecorders,  \* record.maxConcurrency
    PageSize,      \* how many names SRS lists in one answer (count=200)
    MaxRestarts    \* bound on restarts of the app

ASSUME ClientsAssumption ==
    /\ IsFiniteSet(Clients)
    /\ NoClient \notin Clients
    /\ StreamOf \in [Clients -> Streams]
ASSUME BoundsAssumption ==
    {MaxRecorders, PageSize, MaxRestarts} \subseteq Nat

VARIABLES
    srs,       \* where each connection stands with SRS
    rows,      \* publish_sessions
    nextId,    \* the next autoincrement id
    active,    \* the map `active`, keyed by stream name
    alive,     \* ActiveSession.active of each session
    mon,       \* where the monitor of each session is
    measured,  \* metrics.compliant in the monitor's frame
    handles,   \* the map `handles` of the recorder, keyed by stream name
    flagged,   \* Handle.compliant of each recording
    rec,       \* the ffmpeg process and file of each recording
    credit,    \* the session stopRecording attributed each recording to
    sweep,     \* the frame of each sweep
    panel,     \* the sessions an open live panel shows
    restarts

hookVars == <<rows, nextId, active, alive>>
monVars == <<mon, measured>>
recVars == <<handles, flagged, rec, credit>>
vars == <<srs, hookVars, monVars, recVars, sweep, panel, restarts>>

-------------------------------------------------------------------------------
\* "dropped": the connection died while its on_publish hook was under way.
\* "leaving": SRS has unpublished it and on_unpublish is under way.
SrsStates ==
    {"new", "asking", "dropped", "allowed", "live", "leaving", "gone"}

Statuses == {"none", "rejected", "allowed", "violating", "compliant", "ended"}

NoRow == [id |-> 0, open |-> FALSE, status |-> "none", compliant |-> FALSE]

Rows == [id : Nat, open : BOOLEAN, status : Statuses, compliant : BOOLEAN]

MonStates == {"off", "sleeping", "probing", "seen"}

RecStates ==
    {"none", "recording", "quitting", "archived", "discarded", "orphaned"}

SweepFrames ==
    [phase : {"idle", "asked", "listed", "closing"},
     open : SUBSET Clients,      \* the rows still to be looked at
     compliant : SUBSET Clients, \* those of them read as compliant
     names : SUBSET Streams,     \* what SRS listed
     wasLive : SUBSET Clients,   \* who was live then (history)
     at : Clients \cup {NoClient},     \* the row being closed
     wait : Clients \cup {NoClient}]   \* the recording it waits for

IdleFrame ==
    [phase |-> "idle", open |-> {}, compliant |-> {}, names |-> {},
     wasLive |-> {}, at |-> NoClient, wait |-> NoClient]

Of(s) == {c \in Clients : StreamOf[c] = s}

OpenRows == {c \in Clients : rows[c].open}

LiveClients == {c \in Clients : srs[c] = "live"}

LiveNames == {StreamOf[c] : c \in LiveClients}

Recorded == {s \in Streams : handles[s] # NoClient}

-------------------------------------------------------------------------------
Init ==
    /\ srs = [c \in Clients |-> "new"]
    /\ rows = [c \in Clients |-> NoRow]
    /\ nextId = 1
    /\ active = [s \in Streams |-> NoClient]
    /\ alive = [c \in Clients |-> FALSE]
    /\ mon = [c \in Clients |-> "off"]
    /\ measured = [c \in Clients |-> FALSE]
    /\ handles = [s \in Streams |-> NoClient]
    /\ flagged = [c \in Clients |-> FALSE]
    /\ rec = [c \in Clients |-> "none"]
    /\ credit = [c \in Clients |-> NoClient]
    /\ sweep = [w \in Sweeps |-> IdleFrame]
    /\ panel = {}
    /\ restarts = 0

-------------------------------------------------------------------------------
(* SRS *)

\* A publisher connects under a name nobody is publishing under, and SRS calls
\* on_publish.
Connect(c) ==
    /\ srs[c] = "new"
    /\ \A d \in Of(StreamOf[c]) : srs[d] \notin {"asking", "allowed", "live"}
    /\ srs' = [srs EXCEPT ![c] = "asking"]
    /\ UNCHANGED <<hookVars, monVars, recVars, sweep, panel, restarts>>

\* The "0" reaches SRS and the stream is up.
GoLive(c) ==
    /\ srs[c] = "allowed"
    /\ srs' = [srs EXCEPT ![c] = "live"]
    /\ UNCHANGED <<hookVars, monVars, recVars, sweep, panel, restarts>>

\* The publisher stops or is disconnected (killClient, a network failure); SRS
\* calls on_unpublish.
Leave(c) ==
    /\ srs[c] \in {"allowed", "live"}
    /\ srs' = [srs EXCEPT ![c] = "leaving"]
    /\ UNCHANGED <<hookVars, monVars, recVars, sweep, panel, restarts>>

\* The connection ends and no on_unpublish arrives: a lost hook, or SRS restarts.
Drop(c) ==
    /\ srs[c] \in {"asking", "allowed", "live"}
    /\ srs' = [srs EXCEPT ![c] =
                  IF srs[c] = "asking" THEN "dropped" ELSE "gone"]
    /\ UNCHANGED <<hookVars, monVars, recVars, sweep, panel, restarts>>

-------------------------------------------------------------------------------
(* The recorder *)

\* (Mutant: a handle left under the name is not looked for.)
MayRecordAgain(s) == Cardinality(Recorded) < MaxRecorders

\* startRecording records when the map has room and no entry for the name.
MayRecord(s) ==
    /\ Cardinality(Recorded) < MaxRecorders
    /\ handles[s] = NoClient

\* startRecording, called by the monitor of c before its first await
StartRecording(c) ==
    IF MayRecord(StreamOf[c])
    THEN /\ handles' = [handles EXCEPT ![StreamOf[c]] = c]
         /\ rec' = [rec EXCEPT ![c] = "recording"]
         /\ UNCHANGED <<flagged, credit>>
    ELSE UNCHANGED recVars

\* markCompliant, by stream name
MarkCompliant(s) ==
    /\ flagged' = IF handles[s] = NoClient THEN flagged
                  ELSE [flagged EXCEPT ![handles[s]] = TRUE]
    /\ UNCHANGED <<handles, rec, credit>>

\* (Mutant: the entry is deleted when ffmpeg has quit, not before.)
KeepHandle(s) == UNCHANGED handles

\* handles.delete, before the await
TakeHandle(s) == handles' = [handles EXCEPT ![s] = NoClient]

\* stopRecording of the name s for the session d, up to its await: the handle is
\* taken out of the map and ffmpeg is told to quit.
StopRecording(s, d) ==
    LET h == handles[s] IN
    IF h = NoClient
    THEN UNCHANGED recVars
    ELSE /\ TakeHandle(s)
         /\ rec' = [rec EXCEPT ![h] = "quitting"]
         /\ credit' = [credit EXCEPT ![h] = d]
         /\ UNCHANGED flagged

\* ffmpeg has exited or was killed after ten seconds: the rest of stopRecording
FinishStop(c) ==
    /\ rec[c] = "quitting"
    /\ rec' = [rec EXCEPT ![c] =
                  IF flagged[c] THEN "archived" ELSE "discarded"]
    /\ UNCHANGED <<srs, hookVars, monVars, handles, flagged, credit, sweep,
                   panel, restarts>>

-------------------------------------------------------------------------------
(* The hooks *)

\* The answer of the app reaches SRS, if the connection is still there.
Answered(c, allowed) ==
    srs' = [srs EXCEPT ![c] =
               IF srs[c] = "asking" /\ allowed THEN "allowed" ELSE "gone"]

\* The status a row is closed with
FinalStatus(compliant) == IF compliant THEN "compliant" ELSE "ended"

\* (Mutant: handlePublish closes no older row.)
SupersedesNothing(c, d) == FALSE

\* The rows handlePublish closes: the open ones of the name c publishes under
Supersedes(c, d) == StreamOf[d] = StreamOf[c] /\ rows[d].open

\* (Mutant: an entry under the name is left in place.)
RegisterIfAbsent(c) ==
    active' = IF active[StreamOf[c]] = NoClient
              THEN [active EXCEPT ![StreamOf[c]] = c] ELSE active

\* active.set
Register(c) == active' = [active EXCEPT ![StreamOf[c]] = c]

\* handlePublish of an authorised publisher, with monitorSession up to its
\* first sleep
Publish(c) ==
    /\ srs[c] \in {"asking", "dropped"}
    /\ rows' = [d \in Clients |->
           IF d = c
           THEN [id |-> nextId, open |-> TRUE, status |-> "allowed",
                 compliant |-> FALSE]
           ELSE IF Supersedes(c, d)
           THEN [rows[d] EXCEPT !.open = FALSE,
                                !.status = FinalStatus(rows[d].compliant)]
           ELSE rows[d]]
    /\ nextId' = nextId + 1
    /\ Register(c)
    /\ alive' = [alive EXCEPT ![c] = TRUE]
    /\ panel' = panel \cup {c}
    /\ StartRecording(c)
    /\ mon' = [mon EXCEPT ![c] = "sleeping"]
    /\ Answered(c, TRUE)
    /\ UNCHANGED <<measured, sweep, restarts>>

\* handlePublish of a publisher authorizePublish refuses: a row that is born
\* ended, and no event for the panel
Reject(c) ==
    /\ srs[c] \in {"asking", "dropped"}
    /\ rows' = [rows EXCEPT ![c] = [id |-> nextId, open |-> FALSE,
                                    status |-> "rejected", compliant |-> FALSE]]
    /\ nextId' = nextId + 1
    /\ Answered(c, FALSE)
    /\ UNCHANGED <<active, alive, monVars, recVars, sweep, panel, restarts>>

\* handleUnpublish: the session is found by the stream name alone
Unpublish(c) ==
    LET s == StreamOf[c]
        d == active[s] IN
    /\ srs[c] = "leaving"
    /\ srs' = [srs EXCEPT ![c] = "gone"]
    /\ IF d = NoClient
       THEN UNCHANGED <<rows, active, alive, panel, recVars>>
       ELSE /\ alive' = [alive EXCEPT ![d] = FALSE]
            /\ active' = [active EXCEPT ![s] = NoClient]
            /\ rows' = [rows EXCEPT
                   ![d].open = FALSE,
                   ![d].status = FinalStatus(rows[d].compliant)]
            /\ panel' = panel \ {d}
            /\ StopRecording(s, d)
    /\ UNCHANGED <<nextId, monVars, sweep, restarts>>

-------------------------------------------------------------------------------
(* monitorSession after its first sleep *)

\* A sleep ends and the loop condition is read; a live session asks for a probe.
MonitorWakes(c) ==
    /\ mon[c] = "sleeping"
    /\ mon' = [mon EXCEPT ![c] = IF alive[c] THEN "probing" ELSE "off"]
    /\ UNCHANGED <<srs, hookVars, measured, recVars, sweep, panel, restarts>>

\* ffprobe reads the stream that is live under the name.
ProbeSees(c) ==
    /\ mon[c] = "probing"
    /\ StreamOf[c] \in LiveNames
    /\ mon' = [mon EXCEPT ![c] = "seen"]
    /\ UNCHANGED <<srs, hookVars, measured, recVars, sweep, panel, restarts>>

\* probeStream gives up and returns null.
ProbeFails(c) ==
    /\ mon[c] = "probing"
    /\ mon' = [mon EXCEPT ![c] = IF alive[c] THEN "sleeping" ELSE "off"]
    /\ UNCHANGED <<srs, hookVars, measured, recVars, sweep, panel, restarts>>

\* (Mutant: the check after the probe is missing.)
NeverInterrupted(c) == FALSE

\* The session ended while its monitor waited for the probe.
Interrupted(c) == ~alive[c]

\* (Mutant: an ended_at that was not given is written as null.)
PersistStatusReopening(c, status, ok) ==
    rows' = [rows EXCEPT ![c].status = status, ![c].compliant = ok,
                         ![c].open = TRUE]

\* updateStatus: the row is written whether or not it has ended, and ended_at is
\* left as it is.
PersistStatus(c, status, ok) ==
    rows' = [rows EXCEPT ![c].status = status, ![c].compliant = ok]

\* probeStream returned a result, which is `within` the limits or not: the rest
\* of the loop body.
Judge(c, within) ==
    /\ mon[c] = "seen"
    /\ mon' = [mon EXCEPT ![c] = IF alive[c] THEN "sleeping" ELSE "off"]
    /\ IF Interrupted(c)
       THEN UNCHANGED <<rows, measured, recVars, panel>>
       ELSE /\ panel' = panel \cup {c}
            /\ \/ /\ ~within
                  /\ PersistStatus(c, "violating", rows[c].compliant)
                  /\ UNCHANGED <<measured, recVars>>
               \/ /\ within /\ ~measured[c]
                  /\ measured' = [measured EXCEPT ![c] = TRUE]
                  /\ PersistStatus(c, "compliant", TRUE)
                  /\ MarkCompliant(StreamOf[c])
               \/ /\ within /\ measured[c]
                  /\ UNCHANGED <<rows, measured, recVars>>
    /\ UNCHANGED <<srs, nextId, active, alive, sweep, restarts>>

-------------------------------------------------------------------------------
(* reconcileStaleSessions *)

\* The timer fires, some row is open, and the sweep asks SRS.
SweepStarts(w) ==
    /\ sweep[w].phase = "idle"
    /\ OpenRows # {}
    /\ sweep' = [sweep EXCEPT ![w] =
           [IdleFrame EXCEPT !.phase = "asked", !.open = OpenRows,
               !.compliant = {c \in OpenRows : rows[c].compliant}]]
    /\ UNCHANGED <<srs, hookVars, monVars, recVars, panel, restarts>>

\* SRS answers with at most PageSize of the names live at that moment.
SrsLists(w) ==
    /\ sweep[w].phase = "asked"
    /\ \E names \in SUBSET LiveNames :
           /\ \/ names = LiveNames /\ Cardinality(LiveNames) <= PageSize
              \/ Cardinality(names) = PageSize
           /\ sweep' = [sweep EXCEPT ![w].phase = "listed", ![w].names = names,
                                     ![w].wasLive = LiveClients]
    /\ UNCHANGED <<srs, hookVars, monVars, recVars, panel, restarts>>

\* (Mutant: no answer is taken for an empty one.)
SweepTakesNullForEmpty(w) ==
    /\ sweep[w].phase = "asked"
    /\ sweep' = [sweep EXCEPT ![w].phase = "listed",
                              ![w].wasLive = LiveClients]
    /\ UNCHANGED <<srs, hookVars, monVars, recVars, panel, restarts>>

\* listLiveStreamNames returns null: the sweep does nothing.
SweepSkips(w) ==
    /\ sweep[w].phase = "asked"
    /\ sweep' = [sweep EXCEPT ![w] = IdleFrame]
    /\ UNCHANGED <<srs, hookVars, monVars, recVars, panel, restarts>>

\* (Mutant: only older rows of a name are closed, not those of dead names.)
StaleOnlyOlder(f) ==
    {c \in f.open : \E d \in f.open : /\ StreamOf[d] = StreamOf[c]
                                      /\ rows[d].id > rows[c].id}

\* The rows of the snapshot the loop closes: all but the newest of a listed name
Stale(f) ==
    {c \in f.open : \/ StreamOf[c] \notin f.names
                    \/ \E d \in f.open : /\ StreamOf[d] = StreamOf[c]
                                         /\ rows[d].id > rows[c].id}

\* (Mutant: the sweep leaves the recorder alone.)
SweepStopsNothing(s, d) == UNCHANGED recVars

\* The sweep ends the recording of the name as a normal unpublish does.
SweepStops(s, d) == StopRecording(s, d)

\* One iteration of the loop up to the await of stopRecording: the frame f has
\* the rows `todo` left, and started_at, in seconds, does not order them.
CloseOne(w, f, todo) ==
    IF todo = {}
    THEN /\ sweep' = [sweep EXCEPT ![w] = IdleFrame]
         /\ UNCHANGED <<rows, recVars>>
    ELSE \E c \in todo :
         /\ rows' = [rows EXCEPT ![c].open = FALSE,
                                 ![c].status = FinalStatus(c \in f.compliant)]
         /\ SweepStops(StreamOf[c], c)
         /\ sweep' = [sweep EXCEPT ![w] =
                [f EXCEPT !.phase = "closing", !.open = todo \ {c}, !.names = {},
                          !.at = c, !.wait = handles[StreamOf[c]]]]

\* The answer is read; the first stale row is closed.
SweepJudges(w) ==
    /\ sweep[w].phase = "listed"
    /\ CloseOne(w, sweep[w], Stale(sweep[w]))
    /\ UNCHANGED <<srs, nextId, active, alive, monVars, panel, restarts>>

\* stopRecording has returned: session:stop goes out and the next stale row is
\* closed.
SweepContinues(w) ==
    /\ sweep[w].phase = "closing"
    /\ sweep[w].wait # NoClient => rec[sweep[w].wait] # "quitting"
    /\ panel' = panel \ {sweep[w].at}
    /\ CloseOne(w, sweep[w], sweep[w].open)
    /\ UNCHANGED <<srs, nextId, active, alive, monVars, restarts>>

-------------------------------------------------------------------------------
\* The app process is restarted: every map, frame and child process is lost, the
\* rows stay, the hooks under way fail (SRS refuses the publisher), and the open
\* panels reconnect with the rows they show.
AppRestart ==
    /\ restarts < MaxRestarts
    /\ restarts' = restarts + 1
    /\ srs' = [c \in Clients |->
                  IF srs[c] \in {"asking", "dropped", "leaving"} THEN "gone"
                  ELSE srs[c]]
    /\ active' = [s \in Streams |-> NoClient]
    /\ alive' = [c \in Clients |-> FALSE]
    /\ mon' = [c \in Clients |-> "off"]
    /\ measured' = [c \in Clients |-> FALSE]
    /\ handles' = [s \in Streams |-> NoClient]
    /\ rec' = [c \in Clients |->
                  IF rec[c] \in {"recording", "quitting"} THEN "orphaned"
                  ELSE rec[c]]
    /\ sweep' = [w \in Sweeps |-> IdleFrame]
    /\ UNCHANGED <<rows, nextId, flagged, credit, panel>>

SrsStep(c) == Connect(c) \/ GoLive(c) \/ Leave(c) \/ Drop(c)

HookStep(c) == Publish(c) \/ Reject(c) \/ Unpublish(c)

MonitorStep(c) ==
    \/ MonitorWakes(c) \/ ProbeSees(c) \/ ProbeFails(c)
    \/ \E within \in BOOLEAN : Judge(c, within)

SweepStep(w) ==
    \/ SweepStarts(w) \/ SrsLists(w) \/ SweepSkips(w)
    \/ SweepJudges(w) \/ SweepContinues(w)

Next ==
    \/ \E c \in Clients :
           SrsStep(c) \/ HookStep(c) \/ MonitorStep(c) \/ FinishStop(c)
    \/ \E w \in Sweeps : SweepStep(w)
    \/ AppRestart

\* The app's own steps are fair: a hook that arrived is handled, timers fire,
\* probes and quits are cut by timeouts, the sweep runs every 30 seconds; and
\* SRS answers some sweep again and again.  Publishers owe nothing.
Fairness ==
    /\ \A c \in Clients :
           /\ WF_vars(HookStep(c))
           /\ WF_vars(MonitorStep(c))
           /\ WF_vars(FinishStop(c))
    /\ \A w \in Sweeps : WF_vars(SweepStep(w)) /\ SF_vars(SrsLists(w))

Spec == Init /\ [][Next]_vars

FairSpec == Spec /\ Fairness

-------------------------------------------------------------------------------
TypeOK ==
    /\ srs \in [Clients -> SrsStates]
    /\ rows \in [Clients -> Rows]
    /\ nextId \in Nat \ {0}
    /\ active \in [Streams -> Clients \cup {NoClient}]
    /\ alive \in [Clients -> BOOLEAN]
    /\ mon \in [Clients -> MonStates]
    /\ measured \in [Clients -> BOOLEAN]
    /\ handles \in [Streams -> Clients \cup {NoClient}]
    /\ flagged \in [Clients -> BOOLEAN]
    /\ rec \in [Clients -> RecStates]
    /\ credit \in [Clients -> Clients \cup {NoClient}]
    /\ sweep \in [Sweeps -> SweepFrames]
    /\ panel \subseteq Clients
    /\ restarts \in Nat

\* A stream name has at most one open session, whatever hooks are lost or come
\* in the wrong order and whatever a restart leaves behind (the catalog and the
\* sweep both take an open row for the current session of its name).
OneOpenRow ==
    \A c, d \in OpenRows : StreamOf[c] = StreamOf[d] => c = d

\* The map `active` points at a session of that name, and no open session of the
\* name is another one: on_unpublish, which goes by the name, closes the row
\* that is open or none.
ActiveIsCurrent ==
    \A s \in Streams : active[s] # NoClient =>
        /\ StreamOf[active[s]] = s
        /\ \A c \in OpenRows : StreamOf[c] = s => c = active[s]

\* Every running recorder is in the map, under the name it records, and the map
\* holds nothing else: no ffmpeg is left running that nothing will stop.
RecordersTracked ==
    /\ \A s \in Recorded :
           rec[handles[s]] = "recording" /\ StreamOf[handles[s]] = s
    /\ \A c \in Clients :
           rec[c] = "recording" => handles[StreamOf[c]] = c

\* A recording runs only while some session of its name is open, whichever of
\* the three ways (hook, sweep, supersession) sessions end.
RecordingHasSession ==
    \A s \in Recorded : \E c \in OpenRows : StreamOf[c] = s

\* A connection has no row before its on_publish is handled, and the open rows,
\* the map `active`, the live sessions and the snapshots of the sweeps are all
\* about rows.  With the invariants above, inductive.
RowsNumbered ==
    /\ \A c \in Clients :
           /\ srs[c] \in {"new", "asking", "dropped"} => rows[c] = NoRow
           /\ rows[c].open \/ alive[c] => rows[c].id # 0
    /\ \A s \in Streams : active[s] # NoClient => rows[active[s]].id # 0
    /\ \A w \in Sweeps : \A c \in sweep[w].open : rows[c].id # 0

\* What the frame f of a sweep knows: its snapshot has one row per name; when
\* the page was long enough the answer names everyone who was live; and from
\* then on nobody who was live is among the rows to close.
FrameInv(f) ==
    /\ f.phase \in {"asked", "listed"} =>
           \A c, d \in f.open : StreamOf[c] = StreamOf[d] => c = d
    /\ f.phase = "listed" => \A c \in f.wasLive : StreamOf[c] \in f.names
    /\ f.phase = "closing" => f.open \cap f.wasLive = {}

SnapshotInv == \A w \in Sweeps : FrameInv(sweep[w])

LifecycleInv ==
    /\ TypeOK
    /\ OneOpenRow
    /\ ActiveIsCurrent
    /\ RecordersTracked
    /\ RecordingHasSession
    /\ RowsNumbered

\* The session that the set `open` of open rows gives for each name
SessionsIn(open) ==
    [s \in Streams |->
        IF \E c \in open : StreamOf[c] = s
        THEN CHOOSE c \in open : StreamOf[c] = s
        ELSE NoClient]

CurrentSession == SessionsIn(OpenRows)

EndedSessions == {c \in Clients : rows[c].id # 0 /\ ~rows[c].open}

\* The table is a registry of sessions: at most one is current for a name, each
\* starts once, and none that has ended comes back, although monitors, sweeps
\* and late hooks go on writing the rows of ended sessions.
Registry == INSTANCE SessionRegistry WITH
                Sessions <- Clients, Names <- Streams, NameOf <- StreamOf,
                NoSession <- NoClient,
                current <- CurrentSession, ended <- EndedSessions

ImplementsRegistry == Registry!Spec

\* A recording that is being stopped is not stopped a second time for another
\* session: a hook and a sweep never put one file on the record of two sessions.
StoppedOnce ==
    [][\A c \in Clients :
          rec[c] = "quitting" /\ rec'[c] = "quitting"
              => credit'[c] = credit[c]]_vars

\* Once on_unpublish has ended a session, its monitor, wherever it was waiting,
\* never brings it back on the panel nor marks it compliant.
SilentAfterUnpublish ==
    [][\A c \in Clients :
          rows[c].id # 0 /\ ~alive[c] =>
              /\ c \in panel' => c \in panel
              /\ rows'[c].compliant = rows[c].compliant]_vars

\* w closes the row of c in this step.
ClosesBySweep(w, c) ==
    sweep'[w].phase = "closing" /\ sweep'[w].at = c /\ sweep'[w] # sweep[w]

\* A sweep never ends the session of a publisher that was live when SRS
\* answered it, and does nothing when SRS did not answer ("an API outage must
\* never reap genuinely-live sessions", reconcile.ts:9-10).
SweepSparesListed ==
    [][\A w \in Sweeps, c \in Clients :
          ClosesBySweep(w, c) => c \notin sweep[w].wasLive]_vars

\* When publishers have gone, for whatever reason and however many hooks were
\* lost, their sessions are closed and their recordings finished for good.
EventuallyQuiet ==
    <>[](\A c \in Clients : srs[c] \in {"new", "gone"})
        => <>[](/\ OpenRows = {}
                /\ Recorded = {}
                /\ \A c \in Clients : rec[c] # "quitting")

-------------------------------------------------------------------------------
(* What the comments say and the code does not do; see the README. *)

\* "so the panel never shows two 'Publishing' rows for one person"
\* (stream-lifecycle.ts:115-116)
OnePanelRow ==
    \A c, d \in panel : StreamOf[c] = StreamOf[d] => c = d

\* "closes anything SRS no longer has, using the same end-of-life path as a
\* normal unpublish" (reconcile.ts:5-6): that path ends the monitor.
MonitorsEnd ==
    \A c \in Clients :
        (rows[c].id # 0 /\ ~rows[c].open) ~> (mon[c] = "off")

\* "closes anything SRS no longer has" (reconcile.ts:6): it closes nothing else.
SweepClosesOnlyGone ==
    [][\A w \in Sweeps, c \in Clients :
          ClosesBySweep(w, c) => srs[c] # "live"]_vars

\* "max concurrent ffmpeg recorder processes" (shared/config.ts:39)
RecordersWithinMax ==
    Cardinality({c \in Clients : rec[c] \in {"recording", "quitting"}})
        <= MaxRecorders

\* "archive (compliant) or discard (non-compliant) the temp recording"
\* (recorder.ts:96), of the session stopRecording is called for
ArchivedIsCompliant ==
    \A c \in Clients :
        rec[c] = "archived" => rows[credit[c]].compliant
===============================================================================
