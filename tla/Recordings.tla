------------------------------ MODULE Recordings ------------------------------
(***************************************************************************)
(* Recordings: what becomes of the temporary files ffmpeg writes           *)
(* (recorder.ts), the archive and its catalogue (services/recordings.ts),  *)
(* the hourly retention sweep (retention.ts) and the players that read the *)
(* archive (file.get.ts).                                                  *)
(*                                                                         *)
(* A take is what one ffmpeg recorded from one publish, and it also stands *)
(* for the temporary file and, when it was the first of its recording, for *)
(* the id of the row.  A tick of the clock is longer than a second (what   *)
(* tells two paths apart), an hour (what makes a temporary file stale) and *)
(* a day (what retention counts in); a stream is found compliant no sooner *)
(* than a tick after it started, as a probe takes longer than a second.    *)
(* Handlers are one step; a crash may cut one short.  Which sessions start *)
(* and stop a recorder is StreamLifecycle's matter: here any may.          *)
(***************************************************************************)
EXTENDS Integers, FiniteSets, Sequences, SequencesExt, FiniteSetsExt, Folds

CONSTANTS
    Takes,
    NameOf,      \* the stream a take is of
    SafeOf,      \* the name of a stream as it appears in a path
    FpsOf,       \* what the probe last measured; 0 when it could not tell
    Legacy,      \* takes the archive may have from before: one .mp4 each
    Events,
    Viewers,
    None,
    Retentions,  \* values of record.retentionDays; 0 keeps forever
    LegacySize,  \* bytes in such an .mp4
    MaxTime, MaxRestarts

ASSUME RecordingsAssumption ==
    /\ Legacy \subseteq Takes
    /\ Retentions \subseteq Nat
    /\ LegacySize \in Nat \ {0} /\ MaxTime \in Nat \ {0}
    /\ FpsOf \in [Takes -> Nat]
    /\ None \notin Takes \cup Events

VARIABLES
    now, retention,
    events,      \* those that exist
    handle,      \* recorder.ts: the take under way of a stream
    take,        \* what became of each take
    tmp,         \* takes that have a file under _tmp
    stale,       \* those of them nobody has written to for an hour
    archive,     \* the files: which take is at a path
    rows,        \* the recordings table
    player,
    restarts,
    asked,       \* rows an administrator deleted (history)
    cut          \* files that had no row yet when the app crashed (history)

config == <<retention, events>>
recorder == <<handle, take>>
files == <<tmp, stale, archive>>
history == <<asked, cut>>
vars == <<now, config, recorder, files, rows, player, restarts, history>>

-------------------------------------------------------------------------------
Names == {NameOf[t] : t \in Takes}
Times == 0..MaxTime

\* (Mutant: the path has the day a take started on, not the second.)
PathOfDay(t) == [name |-> SafeOf[NameOf[t]], at |-> take[t].at \div 2]

\* Where a take is archived; what is from before was not .mkv, and is of time 0.
PathOf(t) == [name |-> SafeOf[NameOf[t]], at |-> take[t].at]

Paths == [name : {SafeOf[n] : n \in Names}, at : Times]
IsMkv(p) == p.at > 0

\* A row of the catalogue; avg is the average fps, a fraction.
Rows == [event : Events \cup {None}, segs : Seq(Paths), at : Times, dur : Nat,
         avg : Nat \X (Nat \ {0})]

\* Without a row the catalogue has this.
NoRow == [event |-> None, segs |-> <<>>, at |-> 0, dur |-> 0, avg |-> <<0, 1>>]
Listed == {r \in Takes : rows[r].segs # <<>>}
ListedBy(p) == {r \in Listed : p \in ToSet(rows[r].segs)}

\* What a take is: to is the event of the session it is filed under.
TakeStates == [st : {"unused", "recording", "stopping", "done"}, at : Times, ok : BOOLEAN,
               event : Events \cup {None}, to : Events \cup {None}]

Unused == [st |-> "unused", at |-> 0, ok |-> FALSE, event |-> None, to |-> None]
\* A take of which no file is known by its time
Past(e, to) == [st |-> "done", at |-> 0, ok |-> FALSE, event |-> e, to |-> to]
Idle == [st |-> "idle", todo |-> <<>>, from |-> 0, to |-> 0]

\* One recording at most is from before, of an event that exists.
Init ==
    /\ now = 1 /\ retention \in Retentions
    /\ events = Events
    /\ handle = [n \in Names |-> None]
    /\ \E old \in {{}} \cup {{t} : t \in Legacy}, e \in Events :
        /\ take = [t \in Takes |->
                     IF t \in old THEN Past(e, e) ELSE Unused]
        /\ archive = [p \in Paths |->
                     IF \E t \in old : p = PathOf(t) THEN CHOOSE t \in old : p = PathOf(t) ELSE None]
        /\ rows = [t \in Takes |->
                     IF t \in old THEN [NoRow EXCEPT !.event = e, !.segs = <<PathOf(t)>>] ELSE NoRow]
    /\ tmp = {} /\ stale = {}
    /\ player = [v \in Viewers |-> Idle]
    /\ restarts = 0
    /\ asked = {} /\ cut = {}

-------------------------------------------------------------------------------
(* The recorder *)

\* One recorder a name: a second publish under it is not recorded.
StartRecording(t, e) ==
    LET n == NameOf[t] IN
    /\ take[t].st = "unused" /\ handle[n] = None
    /\ handle' = [handle EXCEPT ![n] = t]
    /\ take' = [take EXCEPT ![t].st = "recording", ![t].at = now, ![t].event = e]
    /\ tmp' = tmp \cup {t}
    /\ UNCHANGED <<now, config, stale, archive, rows, player, restarts, history>>

MarkCompliant(n) ==
    /\ handle[n] # None
    /\ now > take[handle[n]].at
    /\ take' = [take EXCEPT ![handle[n]].ok = TRUE]
    /\ UNCHANGED <<now, config, handle, files, rows, player, restarts, history>>

\* The event is that of the session that ends, which a late sweep may take to
\* be an earlier one of the name.
EndedSessions(n) == {t \in Takes : NameOf[t] = n /\ take[t].st # "unused"}

StopRecording(n, s) ==
    /\ handle[n] # None /\ s \in EndedSessions(n)
    /\ handle' = [handle EXCEPT ![n] = None]
    /\ take' = [take EXCEPT ![handle[n]].st = "stopping", ![handle[n]].to = take[s].event]
    /\ UNCHANGED <<now, config, files, rows, player, restarts, history>>

\* quitFfmpeg has returned: ten seconds later at most.
Quits(t) == take[t].st = "stopping"

\* All that is left of a take that is in no file but the temporary one.
Lost(t) == Past(take[t].event, None)

Discard(t) ==
    /\ Quits(t) /\ ~take[t].ok
    /\ take' = [take EXCEPT ![t] = Lost(t)]
    /\ tmp' = tmp \ {t}
    /\ UNCHANGED <<now, config, handle, stale, archive, rows, player, restarts, history>>

\* The take is lost with no row; its file stays until it is stale.
RenameFails(t) ==
    /\ Quits(t) /\ take[t].ok
    /\ take' = [take EXCEPT ![t] = Lost(t)]
    /\ UNCHANGED <<now, config, handle, files, rows, player, restarts, history>>

Renamed(t) ==
    /\ Quits(t) /\ take[t].ok /\ t \in tmp
    /\ tmp' = tmp \ {t}
    /\ archive' = [archive EXCEPT ![PathOf(t)] = t]

Filed(t) ==
    /\ take' = [take EXCEPT ![t].st = "done", ![t].ok = FALSE]
    /\ UNCHANGED <<now, config, handle, stale, player, restarts, history>>

\* RecordingsRepository.findMergeTarget: the latest of the event and the name
SameUser(t) ==
    {r \in Listed : take[t].to # None /\ rows[r].event = take[t].to /\ NameOf[r] = NameOf[t]}

MergeTarget(t) == CHOOSE r \in SameUser(t) : \A q \in SameUser(t) : rows[q].at <= rows[r].at

\* (Mutant: the weighted sum is divided by the duration so far.)
AvgOverPrev(row, fps, dur) ==
    IF row.avg[1] > 0 /\ fps > 0
    THEN <<row.avg[1] * row.dur + fps * dur * row.avg[2], row.avg[2] * Max({1, row.dur})>>
    ELSE IF fps > 0 THEN <<fps, 1>> ELSE row.avg

AvgFps(row, fps, dur) ==
    IF row.avg[1] > 0 /\ fps > 0
    THEN <<row.avg[1] * row.dur + fps * dur * row.avg[2], row.avg[2] * Max({1, row.dur + dur})>>
    ELSE IF fps > 0 THEN <<fps, 1>> ELSE row.avg

\* (Mutant: the new segment takes the place of the others.)
Replaced(row, t) ==
    [row EXCEPT !.segs = <<PathOf(t)>>, !.dur = @ + (now - take[t].at),
                !.avg = AvgFps(row, FpsOf[t], now - take[t].at)]

\* A publish again of the same user into the same event
Appended(row, t) ==
    [row EXCEPT !.segs = Append(@, PathOf(t)), !.dur = @ + (now - take[t].at),
                !.avg = AvgFps(row, FpsOf[t], now - take[t].at)]

FileAppended(t) ==
    /\ Renamed(t) /\ SameUser(t) # {}
    /\ rows' = [rows EXCEPT ![MergeTarget(t)] = Appended(@, t)]
    /\ Filed(t)

FileInserted(t) ==
    /\ Renamed(t) /\ SameUser(t) = {} /\ take[t].to \in events \cup {None}
    /\ rows' = [rows EXCEPT ![t] = [event |-> take[t].to, segs |-> <<PathOf(t)>>,
                  at |-> take[t].at, dur |-> now - take[t].at, avg |-> <<FpsOf[t], 1>>]]
    /\ Filed(t)

\* The event was deleted meanwhile: the row has nothing to refer to.
InsertRefused(t) ==
    /\ Renamed(t) /\ take[t].to \notin events \cup {None}
    /\ UNCHANGED rows
    /\ Filed(t)

-------------------------------------------------------------------------------
(* Removing *)

Without(gone) == [p \in Paths |-> IF p \in gone THEN None ELSE archive[p]]
FilesOf(rs) == UNION {ToSet(rows[r].segs) : r \in rs}
Dropped(rs) == [r \in Takes |-> IF r \in rs THEN NoRow ELSE rows[r]]

DeleteRecording(r) ==
    /\ r \in Listed
    /\ archive' = Without(FilesOf({r}))
    /\ rows' = Dropped({r})
    /\ asked' = asked \cup {r}
    /\ UNCHANGED <<now, config, recorder, tmp, stale, player, restarts, cut>>

\* (Mutant: keeping forever is a retention of no days.)
ExpiredAtOnce == {r \in Listed : rows[r].at < now - retention}

Expired == IF retention = 0 THEN {} ELSE {r \in Listed : rows[r].at < now - retention}

\* A recording goes with all its segments, the last ones too; a temporary file
\* goes once it is stale.
RunRetention ==
    /\ Expired # {} \/ stale # {}
    /\ archive' = Without(FilesOf(Expired))
    /\ rows' = Dropped(Expired)
    /\ tmp' = tmp \ stale /\ stale' = {}
    /\ UNCHANGED <<now, config, recorder, player, restarts, history>>

\* The rows of an event go with it, the files do not.
DeleteEvent(e) ==
    /\ e \in events
    /\ events' = events \ {e}
    /\ rows' = Dropped({r \in Listed : rows[r].event = e})
    /\ UNCHANGED <<now, retention, recorder, files, player, restarts, history>>

-------------------------------------------------------------------------------
(* Playing *)

\* resolveSegments; the list by which ffmpeg glues them is left out.
Found(r) == SelectSeq(rows[r].segs, LAMBDA p : archive[p] # None)

\* Gone when the first segment is: 410.
Playable(r) == r \in Listed /\ archive[Head(rows[r].segs)] # None

Glued(r) == IsMkv(Head(rows[r].segs)) \/ Len(Found(r)) > 1

\* ffmpeg reads the segments one by one as the answer is sent.
Glue(v, r) ==
    /\ player[v].st = "idle" /\ Playable(r) /\ Glued(r)
    /\ player' = [player EXCEPT ![v] = [Idle EXCEPT !.st = "gluing", !.todo = Found(r)]]
    /\ UNCHANGED <<now, config, recorder, files, rows, restarts, history>>

ReadSegment(v) ==
    /\ player[v].st = "gluing" /\ player[v].todo # <<>>
    /\ archive[Head(player[v].todo)] # None
    /\ player' = [player EXCEPT ![v].todo = Tail(@)]
    /\ UNCHANGED <<now, config, recorder, files, rows, restarts, history>>

\* At the end, or at a segment that was deleted meanwhile
FinishGluing(v) ==
    /\ player[v].st = "gluing"
    /\ player[v].todo # <<>> => archive[Head(player[v].todo)] = None
    /\ player' = [player EXCEPT ![v] = Idle]
    /\ UNCHANGED <<now, config, recorder, files, rows, restarts, history>>

\* The viewer has left and ffmpeg is killed.
StopWatching(v) ==
    /\ player[v].st = "gluing"
    /\ player' = [player EXCEPT ![v] = Idle]
    /\ UNCHANGED <<now, config, recorder, files, rows, restarts, history>>

\* A range as it was asked for: None is an empty bound.
Ranges == [first : 0..LegacySize \cup {-1}, last : 0..LegacySize \cup {-1}]
RangeStart(rg) == IF rg.first = -1 THEN 0 ELSE rg.first
RangeEnd(rg) == IF rg.last = -1 THEN LegacySize - 1 ELSE rg.last
Satisfiable(rg) == RangeStart(rg) <= RangeEnd(rg) /\ RangeStart(rg) < LegacySize

\* What the headers say is sent
ServeRange(v, r, rg) ==
    /\ player[v].st = "idle" /\ Playable(r) /\ ~Glued(r) /\ Satisfiable(rg)
    /\ player' = [player EXCEPT ![v] =
                    [st |-> "ranged", todo |-> <<>>, from |-> RangeStart(rg), to |-> RangeEnd(rg)]]
    /\ UNCHANGED <<now, config, recorder, files, rows, restarts, history>>

Receive(v) ==
    /\ player[v].st = "ranged"
    /\ player' = [player EXCEPT ![v] = Idle]
    /\ UNCHANGED <<now, config, recorder, files, rows, restarts, history>>

-------------------------------------------------------------------------------
(* Time and crashes *)

Attended == {t \in Takes : take[t].st \in {"recording", "stopping"}}

Tick ==
    /\ now < MaxTime
    /\ now' = now + 1
    /\ stale' = stale \cup (tmp \ Attended)
    /\ UNCHANGED <<config, recorder, tmp, archive, rows, player, restarts, history>>

\* Recorders and players end with the app.
AppEnds ==
    /\ restarts < MaxRestarts /\ restarts' = restarts + 1
    /\ handle' = [n \in Names |-> None]
    /\ take' = [t \in Takes |-> IF t \in Attended THEN Lost(t) ELSE take[t]]
    /\ player' = [v \in Viewers |-> Idle]
    /\ UNCHANGED <<now, config, stale>>

Crash == AppEnds /\ UNCHANGED <<tmp, archive, rows, history>>

\* Between the rename and the row
CrashFiling(t) ==
    /\ AppEnds
    /\ Renamed(t)
    /\ cut' = cut \cup {PathOf(t)}
    /\ UNCHANGED <<rows, asked>>

\* After k of the files of a recording, before its row
CrashDeleting(r, k) ==
    /\ AppEnds
    /\ r \in Listed /\ k \in 1..Len(rows[r].segs)
    /\ archive' = Without(ToSet(SubSeq(rows[r].segs, 1, k)))
    /\ asked' = asked \cup {r}
    /\ UNCHANGED <<tmp, rows, cut>>

Next ==
    \/ \E t \in Takes :
        \/ \E e \in events \cup {None} : StartRecording(t, e)
        \/ Discard(t) \/ RenameFails(t)
        \/ FileAppended(t) \/ FileInserted(t) \/ InsertRefused(t) \/ CrashFiling(t)
    \/ \E n \in Names : MarkCompliant(n) \/ \E s \in Takes : StopRecording(n, s)
    \/ \E r \in Takes : DeleteRecording(r) \/ \E k \in 1..Cardinality(Takes) : CrashDeleting(r, k)
    \/ \E e \in Events : DeleteEvent(e)
    \/ \E v \in Viewers :
        \/ \E r \in Takes : Glue(v, r) \/ \E rg \in Ranges : ServeRange(v, r, rg)
        \/ ReadSegment(v) \/ FinishGluing(v) \/ StopWatching(v) \/ Receive(v)
    \/ RunRetention \/ Tick \/ Crash

Spec == Init /\ [][Next]_vars

-------------------------------------------------------------------------------
(* Properties *)

\* Every variable has its type.
TypeOK ==
    /\ now \in Times /\ retention \in Retentions /\ events \subseteq Events
    /\ handle \in [Names -> Takes \cup {None}]
    /\ take \in [Takes -> TakeStates]
    /\ tmp \subseteq Takes /\ stale \subseteq tmp
    /\ archive \in [Paths -> Takes \cup {None}]
    /\ rows \in [Takes -> Rows]
    /\ \A r \in Listed : rows[r].event \in events \cup {None}

\* No two recordings list one file and none lists a file twice: deleting one
\* takes nothing from another.  (the path of a segment has its second)
OwnFiles ==
    /\ \A r \in Listed : IsInjective(rows[r].segs)
    /\ \A q, r \in Listed : q # r => ToSet(rows[q].segs) \cap ToSet(rows[r].segs) = {}

\* What is at a path is never replaced, and goes only with its recording: when
\* an administrator deletes that or when it is older than retentionDays, which
\* 0 never makes it.  (config.vue: 0 = retain forever)
KeptUntilDue ==
    [][\A p \in Paths :
        archive[p] # None /\ archive'[p] # archive[p] =>
            /\ archive'[p] = None
            /\ \E r \in ListedBy(p) :
                r \in asked' \/ (retention > 0 /\ rows[r].at + retention < now)]_vars

\* Every archived file is in the catalogue, unless its event was deleted or
\* the app crashed while it was filed; a user has one recording an event.
\* (recorder.ts: a re-publish appends to their existing row)
Catalogued ==
    /\ \A p \in Paths : archive[p] # None =>
        \/ ListedBy(p) # {}
        \/ p \in cut
        \/ take[archive[p]].to \notin events \cup {None}
    /\ \A q, r \in Listed :
        q # r /\ NameOf[q] = NameOf[r] => rows[q].event # rows[r].event \/ rows[q].event = None

\* The takes whose file is a segment of a recording
SegmentsOf(r) ==
    {t \in Takes : take[t].st = "done" /\ take[t].at > 0 /\ PathOf(t) \in ToSet(rows[r].segs)}

\* The average fps of a recording lies between those of its takes.
AvgInRange ==
    \A r \in Listed :
        LET avg == rows[r].avg
            known == {FpsOf[t] : t \in SegmentsOf(r)} \ {0} IN
        avg[1] > 0 =>
            /\ \E f \in known : f * avg[2] <= avg[1]
            /\ \E f \in known : avg[1] <= f * avg[2]

-----------------------------------------------------------------------------
(* What a comment says and the code does not do; see the README. *)

\* What is announced as sent is in the file (file.get.ts:9, "full HTTP Range
\* support"): the end of a range is not clamped to the size.
RangesWithinFile == \A v \in Viewers : player[v].st = "ranged" => player[v].to < LegacySize

===============================================================================
