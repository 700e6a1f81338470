---------------------------- MODULE RecordingsProofs ----------------------------
(***************************************************************************)
(* Proofs about Recordings for any takes, names, events, retention and     *)
(* number of ticks and restarts: RecordingsInv is inductive, and with it   *)
(* files and rows agree, and a file goes only with its recording.          *)
(***************************************************************************)
EXTENDS Recordings, SequenceTheorems, TLAPS

\* Names that differ differ in paths: names as the gateway writes them have no
\* character that safeName replaces (server.go:352-369, filename.ts:5).
PathsApart == \A m, n \in Names : SafeOf[m] = SafeOf[n] => m = n

\* The takes that are still going to be filed
Pending(t) == take[t].st = "recording" \/ (take[t].st = "stopping" /\ take[t].ok)

Used(p) == archive[p] # None \/ ListedBy(p) # {}

\* The recorder's map has exactly the takes that are being recorded.
HandlesRecord ==
    /\ \A t \in Takes : take[t].st = "recording" => handle[NameOf[t]] = t
    /\ \A n \in Names : handle[n] # None =>
           NameOf[handle[n]] = n /\ take[handle[n]].st = "recording"

\* A take has no file before it begins, and none is stale before it is over.
StaleIsOver ==
    /\ \A t \in tmp : take[t].st # "unused"
    /\ \A t \in stale : take[t].st = "done"

\* A take that was found compliant started before now.
PendingSince ==
    /\ now >= 1
    /\ \A t \in Takes : take[t].ok => Pending(t) /\ take[t].at < now
    /\ \A t \in Takes : Pending(t) => 1 <= take[t].at /\ take[t].at <= now

\* The path of a take that is yet to be filed is that of no file, of no segment
\* and of no other such take.
PathsFresh ==
    /\ \A p \in Paths : Used(p) =>
           p.at < now /\ \A t \in Takes : Pending(t) => PathOf(t) # p
    /\ \A t, u \in Takes : Pending(t) /\ Pending(u) /\ PathOf(t) = PathOf(u) => t = u

\* What is archived is over and went to the event its recording has; only what
\* is over has a row.
FiledOnce ==
    /\ \A p \in Paths : archive[p] # None => take[archive[p]].st = "done"
    /\ \A p \in Paths : archive[p] # None =>
           \A r \in ListedBy(p) : take[archive[p]].to = rows[r].event
    /\ \A t \in Takes : take[t].st # "done" => rows[t].segs = <<>>

RecordingsInv ==
    /\ TypeOK /\ HandlesRecord /\ StaleIsOver /\ PendingSince /\ PathsFresh
    /\ OwnFiles /\ FiledOnce /\ Catalogued /\ AvgInRange

USE RecordingsAssumption

-------------------------------------------------------------------------------
(* Sequences of segments *)

\* What append adds to a list of segments, and that a new one keeps it free of
\* duplicates.
LEMMA Appending ==
    ASSUME NEW segs \in Seq(Paths), NEW p \in Paths
    PROVE  /\ Append(segs, p) \in Seq(Paths) /\ Append(segs, p) # <<>>
           /\ ToSet(Append(segs, p)) = ToSet(segs) \cup {p}
           /\ IsInjective(segs) /\ p \notin ToSet(segs) => IsInjective(Append(segs, p))
<1> DEFINE longer == Append(segs, p)
<1>1. /\ longer \in Seq(Paths) /\ Len(longer) = Len(segs) + 1
      /\ \A i \in 1..Len(segs) : longer[i] = segs[i]
      /\ longer[Len(segs) + 1] = p
      BY AppendProperties
<1>2. /\ Len(segs) \in Nat /\ DOMAIN segs = 1..Len(segs)
      /\ DOMAIN longer = 1..(Len(segs) + 1)
      BY <1>1, LenProperties
<1>3. longer # <<>>
      BY <1>1, <1>2, EmptySeq
<1>4. ToSet(longer) = ToSet(segs) \cup {p}
  <2>1. ASSUME NEW q \in ToSet(longer) PROVE q \in ToSet(segs) \cup {p}
        BY <1>1, <1>2 DEF ToSet
  <2>2. ASSUME NEW q \in ToSet(segs) PROVE q \in ToSet(longer)
    <3>1. PICK i \in 1..Len(segs) : q = segs[i]
          BY <1>2 DEF ToSet
    <3>2. i \in DOMAIN longer /\ q = longer[i]
          BY <1>1, <1>2, <3>1
    <3> QED
        BY <3>2 DEF ToSet
  <2>3. p \in ToSet(longer)
    <3>1. Len(segs) + 1 \in DOMAIN longer
          BY <1>2
    <3> QED
        BY <1>1, <3>1 DEF ToSet
  <2> QED
      BY <2>1, <2>2, <2>3
<1>5. ASSUME IsInjective(segs), p \notin ToSet(segs) PROVE IsInjective(longer)
  <2> SUFFICES ASSUME NEW i \in DOMAIN longer, NEW j \in DOMAIN longer, longer[i] = longer[j]
               PROVE  i = j
      BY DEF IsInjective
  <2>1. \A k \in 1..Len(segs) : segs[k] # p
        BY <1>2, <1>5 DEF ToSet
  <2>2. \A k, l \in 1..Len(segs) : segs[k] = segs[l] => k = l
        BY <1>2, <1>5 DEF IsInjective
  <2> QED
      BY <1>1, <1>2, <2>1, <2>2
<1> QED
    BY <1>1, <1>3, <1>4, <1>5

\* A list of one segment
LEMMA OneSegment ==
    ASSUME NEW p \in Paths
    PROVE  /\ <<p>> \in Seq(Paths) /\ <<p>> # <<>>
           /\ ToSet(<<p>>) = {p} /\ IsInjective(<<p>>)
BY DEF ToSet, IsInjective

\* The empty list has no segments.
LEMMA NoSegments ==
    /\ <<>> \in Seq(Paths) /\ ToSet(<<>>) = {} /\ IsInjective(<<>>)
BY DEF ToSet, IsInjective

\* The first segments of a recording are segments of it.
LEMMA FirstSegments ==
    ASSUME NEW segs \in Seq(Paths), NEW k \in 1..Len(segs)
    PROVE  ToSet(SubSeq(segs, 1, k)) \subseteq ToSet(segs)
<1>1. Len(segs) \in Nat /\ DOMAIN segs = 1..Len(segs)
      BY LenProperties
<1>2. /\ DOMAIN SubSeq(segs, 1, k) = 1..k
      /\ \A i \in 1..k : SubSeq(segs, 1, k)[i] = segs[i]
      BY <1>1, SubSeqProperties
<1> QED
    BY <1>1, <1>2 DEF ToSet

-------------------------------------------------------------------------------
(* Types *)

\* Every take has a path.
LEMMA PathTyped ==
    ASSUME TypeOK, NEW t \in Takes
    PROVE  PathOf(t) \in Paths /\ NameOf[t] \in Names /\ PathOf(t).at = take[t].at
           /\ PathOf(t).name = SafeOf[NameOf[t]]
BY DEF TypeOK, TakeStates, PathOf, Paths, Names

\* The row that is no row
LEMMA NoRowTyped ==
    NoRow \in Rows /\ NoRow.segs = <<>> /\ NoRow.avg[1] = 0
BY NoSegments DEF NoRow, Rows, Times

\* What is lost or unused has its type, and is not pending.
LEMMA LostTyped ==
    ASSUME TypeOK, NEW t \in Takes
    PROVE  /\ Lost(t).st = "done" /\ ~Lost(t).ok /\ Lost(t).at = 0
           /\ Lost(t) \in TakeStates
BY DEF TypeOK, Lost, Past, TakeStates, Times

\* At first the archive is empty or has one file from before.
LEMMA InitHolds == Init => RecordingsInv
<1> SUFFICES ASSUME Init PROVE RecordingsInv
    OBVIOUS
<1>1. PICK old \in {{}} \cup {{t} : t \in Legacy}, e \in Events :
        /\ take = [t \in Takes |->
                     IF t \in old THEN Past(e, e) ELSE Unused]
        /\ archive = [p \in Paths |->
                     IF \E t \in old : p = PathOf(t) THEN CHOOSE t \in old : p = PathOf(t) ELSE None]
        /\ rows = [t \in Takes |->
                     IF t \in old THEN [NoRow EXCEPT !.event = e, !.segs = <<PathOf(t)>>] ELSE NoRow]
      BY DEF Init
<1>2. /\ now = 1 /\ events = Events /\ handle = [n \in Names |-> None]
      /\ tmp = {} /\ stale = {} /\ retention \in Retentions /\ cut = {}
      BY DEF Init
<1>3. /\ old \subseteq Takes
      /\ \A t, u \in old : t = u
  <2>1. CASE old = {}
        BY <2>1
  <2>2. CASE \E t \in Legacy : old = {t}
        BY <2>2
  <2> QED
      BY <1>1, <2>1, <2>2
<1>4. /\ \A t \in Takes : take[t].at = 0 /\ ~take[t].ok /\ take[t].st \in {"unused", "done"}
      /\ \A t \in Takes : take[t].st = "done" <=> t \in old
      /\ \A t \in old : take[t].to = e
      /\ take \in [Takes -> TakeStates]
  <2>1. take = [t \in Takes |-> IF t \in old THEN Past(e, e) ELSE Unused]
        BY <1>1
  <2>2. Past(e, e) \in TakeStates /\ Unused \in TakeStates
        BY DEF Past, Unused, TakeStates, Times
  <2>3. /\ Past(e, e).st = "done" /\ Past(e, e).at = 0 /\ ~Past(e, e).ok /\ Past(e, e).to = e
        /\ Unused.st = "unused" /\ Unused.at = 0 /\ ~Unused.ok
        BY DEF Past, Unused
  <2>4. take \in [Takes -> TakeStates]
        BY <2>1, <2>2
  <2> QED
      BY <1>3, <2>1, <2>3, <2>4
<1>5. \A t \in Takes : PathOf(t) \in Paths /\ PathOf(t).at = 0
      BY <1>4 DEF PathOf, Paths, Names, Times
<1>6. /\ \A t \in old : rows[t].segs = <<PathOf(t)>> /\ rows[t].event = e /\ rows[t].avg = <<0, 1>>
      /\ \A t \in Takes \ old : rows[t] = NoRow
      /\ \A t \in Takes : rows[t].avg[1] = 0
      /\ rows \in [Takes -> Rows]
      BY <1>1, <1>3, <1>5, NoRowTyped, OneSegment DEF NoRow, Rows
<1>7. \A p \in Paths : archive[p] # None => archive[p] \in old /\ p = PathOf(archive[p])
      BY <1>1
<1>8. /\ Listed \subseteq old
      /\ \A r \in Listed : rows[r].segs = <<PathOf(r)>> /\ ToSet(rows[r].segs) = {PathOf(r)}
      BY <1>3, <1>5, <1>6, NoRowTyped, OneSegment DEF Listed
<1>9. TypeOK
  <2>1. archive \in [Paths -> Takes \cup {None}]
        BY <1>1, <1>3, <1>7
  <2> QED
      BY <1>2, <1>3, <1>4, <1>6, <1>8, <2>1 DEF TypeOK, Times
<1>10. HandlesRecord /\ StaleIsOver /\ PendingSince
       BY <1>2, <1>4 DEF HandlesRecord, StaleIsOver, PendingSince, Pending
<1>11. PathsFresh
  <2>1. \A p \in Paths : Used(p) => p.at = 0
        BY <1>3, <1>5, <1>7, <1>8 DEF Used, ListedBy
  <2> QED
      BY <1>2, <1>4, <2>1 DEF PathsFresh, Pending
<1>12. OwnFiles
       BY <1>3, <1>5, <1>8, OneSegment DEF OwnFiles
<1>13. FiledOnce
       BY <1>3, <1>4, <1>6, <1>7, <1>8, NoRowTyped DEF FiledOnce, ListedBy
<1>14. Catalogued
  <2>1. ASSUME NEW p \in Paths, archive[p] # None PROVE ListedBy(p) # {}
    <3>1. archive[p] \in old /\ p = PathOf(archive[p])
          BY <1>7, <2>1
    <3>2. archive[p] \in Listed
          BY <1>3, <1>5, <1>6, <3>1, OneSegment DEF Listed
    <3> QED
        BY <1>8, <3>1, <3>2 DEF ListedBy
  <2> QED
      BY <1>3, <1>8, <2>1 DEF Catalogued
<1>15. AvgInRange
       BY <1>6 DEF AvgInRange, Listed
<1> QED
    BY <1>9, <1>10, <1>11, <1>12, <1>13, <1>14, <1>15 DEF RecordingsInv

-------------------------------------------------------------------------------
(* Steps that file nothing                                                 *)

\* Listed segments are paths.
LEMMA ListedTyped ==
    ASSUME TypeOK, NEW r \in Takes
    PROVE  /\ rows[r] \in Rows /\ rows[r].segs \in Seq(Paths)
           /\ ToSet(rows[r].segs) \subseteq Paths
<1>1. rows[r] \in Rows /\ rows[r].segs \in Seq(Paths)
      BY DEF TypeOK, Rows
<1> QED
    BY <1>1, ElementOfSeq DEF ToSet

\* A step that adds no file and no row, leaves what is over as it is, and whose
\* only new recording starts now under a name nothing is pending of.
LEMMA LessKeeps ==
    ASSUME PathsApart, RecordingsInv, TypeOK', HandlesRecord', StaleIsOver', PendingSince',
           now' = now,
           \A r \in Takes : rows'[r] \in {rows[r], NoRow},
           \A p \in Paths : archive'[p] \in {archive[p], None},
           \A t \in Takes : take[t].st = "done" => take'[t] = take[t],
           \A t \in Takes : Pending(t)' =>
               \/ Pending(t) /\ take'[t].at = take[t].at
               \/ /\ take'[t].at = now
                  /\ \A u \in Takes : Pending(u)' /\ NameOf[u] = NameOf[t] /\ take'[u].at = now
                                          => u = t,
           \A p \in Paths : archive'[p] # None =>
               \/ ListedBy(p)' # {}
               \/ p \in cut'
               \/ take'[archive'[p]].to \notin events' \cup {None}
    PROVE  RecordingsInv'
<1> USE DEF RecordingsInv
<1>1. /\ \A r \in Listed' : r \in Listed /\ rows'[r] = rows[r]
      /\ \A p \in Paths : /\ ListedBy(p)' \subseteq ListedBy(p)
                          /\ archive'[p] # None => archive'[p] = archive[p]
                          /\ Used(p)' => Used(p)
  <2>1. \A r \in Listed' : r \in Listed /\ rows'[r] = rows[r]
        BY NoRowTyped DEF Listed
  <2> QED
      BY <2>1 DEF ListedBy, Used
<1>2. PathsFresh'
  <2>1. ASSUME NEW p \in Paths, Used(p)', NEW t \in Takes, Pending(t)'
        PROVE  p.at < now' /\ PathOf(t)' # p
    <3>1. p.at < now /\ (Pending(t) => PathOf(t) # p)
          BY <1>1, <2>1 DEF PathsFresh
    <3>2. CASE Pending(t) /\ take'[t].at = take[t].at
          BY <3>1, <3>2 DEF PathOf
    <3>3. CASE take'[t].at = now
      <4>1. p.at \in Int /\ now \in Int /\ PathOf(t)'.at = now
            BY <3>3 DEF Paths, Times, TypeOK, PathOf
      <4> QED
          BY <3>1, <4>1
    <3> QED
        BY <2>1, <3>1, <3>2, <3>3
  <2>2. ASSUME NEW t \in Takes, NEW u \in Takes, Pending(t)', Pending(u)', PathOf(t)' = PathOf(u)'
        PROVE  t = u
    <3>1. take'[t].at = take'[u].at /\ NameOf[t] = NameOf[u]
          BY <2>2, PathTyped DEF PathOf, PathsApart
    <3>2. CASE take'[t].at = take[t].at /\ take'[u].at = take[u].at /\ Pending(t) /\ Pending(u)
          BY <3>1, <3>2 DEF PathsFresh, PathOf
    <3> QED
        BY <2>2, <3>1, <3>2
  <2>3. ASSUME NEW p \in Paths, Used(p)' PROVE p.at < now'
        BY <1>1, <2>3 DEF PathsFresh
  <2> QED
      BY <2>1, <2>2, <2>3 DEF PathsFresh
<1>3. OwnFiles'
      BY <1>1 DEF OwnFiles
<1>4. FiledOnce'
  <2>1. \A p \in Paths : archive[p] # None => archive[p] \in Takes
        BY DEF TypeOK
  <2>2. \A p \in Paths : archive'[p] # None =>
            /\ archive'[p] = archive[p] /\ archive[p] \in Takes
            /\ take[archive[p]].st = "done" /\ take'[archive[p]] = take[archive[p]]
        BY <1>1, <2>1 DEF FiledOnce
  <2>3. ASSUME NEW p \in Paths, archive'[p] # None, NEW r \in ListedBy(p)'
        PROVE  take'[archive'[p]].to = rows'[r].event
        BY <1>1, <2>2, <2>3 DEF FiledOnce, ListedBy
  <2>4. ASSUME NEW t \in Takes, take'[t].st # "done" PROVE rows'[t].segs = <<>>
        BY <2>4, NoRowTyped DEF FiledOnce
  <2> QED
      BY <2>2, <2>3, <2>4 DEF FiledOnce
<1>5. Catalogued'
      BY <1>1 DEF Catalogued
<1>6. AvgInRange'
  <2>1. ASSUME NEW r \in Listed' PROVE SegmentsOf(r) \subseteq SegmentsOf(r)'
        BY <1>1, <2>1 DEF SegmentsOf, PathOf
  <2> QED
      BY <1>1, <2>1 DEF AvgInRange
<1> QED
    BY <1>2, <1>3, <1>4, <1>5, <1>6

\* A step of the recorder that leaves files, rows and events alone: what is in
\* the catalogue stays there.
LEMMA TakesKeep ==
    ASSUME PathsApart, RecordingsInv, TypeOK', HandlesRecord', StaleIsOver', PendingSince',
           UNCHANGED <<now, events, archive, rows, cut>>,
           \A t \in Takes : take[t].st = "done" => take'[t] = take[t],
           \A t \in Takes : Pending(t)' =>
               \/ Pending(t) /\ take'[t].at = take[t].at
               \/ /\ take'[t].at = now
                  /\ \A u \in Takes : Pending(u)' /\ NameOf[u] = NameOf[t] /\ take'[u].at = now
                                          => u = t
    PROVE  RecordingsInv'
<1>1. ASSUME NEW p \in Paths, archive'[p] # None
      PROVE  \/ ListedBy(p)' # {}
             \/ p \in cut'
             \/ take'[archive'[p]].to \notin events' \cup {None}
  <2>1. archive'[p] = archive[p] /\ archive[p] \in Takes /\ take'[archive[p]] = take[archive[p]]
        BY <1>1 DEF RecordingsInv, TypeOK, FiledOnce
  <2>2. ListedBy(p)' = ListedBy(p)
        BY DEF ListedBy, Listed
  <2> QED
      BY <1>1, <2>1, <2>2 DEF RecordingsInv, Catalogued
<1> QED
    BY <1>1, LessKeeps

LEMMA StartKeeps ==
    ASSUME PathsApart, RecordingsInv, NEW t \in Takes, NEW e \in events \cup {None},
           StartRecording(t, e)
    PROVE  RecordingsInv'
<1> USE DEF RecordingsInv, StartRecording, config, history
<1> DEFINE begun == [take[t] EXCEPT !.st = "recording", !.at = now, !.event = e]
<1>1. /\ take[t].st = "unused" /\ handle[NameOf[t]] = None
      /\ take \in [Takes -> TakeStates] /\ now \in Times /\ e \in Events \cup {None}
      BY DEF TypeOK
<1>2. take' = [take EXCEPT ![t] = begun] /\ handle' = [handle EXCEPT ![NameOf[t]] = t]
      BY <1>1
<1>3. /\ begun \in TakeStates /\ begun.st = "recording" /\ begun.at = now /\ begun.ok = take[t].ok
      BY <1>1 DEF TakeStates
<1>4. /\ take' \in [Takes -> TakeStates] /\ take'[t] = begun
      /\ \A u \in Takes : u # t => take'[u] = take[u]
      BY <1>1, <1>2, <1>3
<1>5. NameOf[t] \in Names /\ handle \in [Names -> Takes \cup {None}]
      BY DEF Names, TypeOK
<1>6. TypeOK'
      BY <1>2, <1>4, <1>5 DEF TypeOK, Listed
<1>7. HandlesRecord'
      BY <1>1, <1>2, <1>3, <1>4, <1>5 DEF HandlesRecord
<1>10. StaleIsOver'
      BY <1>1, <1>3, <1>4 DEF StaleIsOver, TypeOK
<1>8. PendingSince'
  <2>1. ~take[t].ok
        BY <1>1 DEF PendingSince, Pending
  <2>2. now \in Nat
        BY <1>1 DEF Times
  <2> QED
      BY <1>3, <1>4, <2>1, <2>2 DEF PendingSince, Pending
<1>9. ASSUME NEW u \in Takes, Pending(u)', NameOf[u] = NameOf[t], take'[u].at = now
      PROVE  u = t
  <2>1. CASE take[u].st = "recording"
        BY <1>1, <1>9, <2>1 DEF HandlesRecord
  <2>2. CASE take[u].ok
    <3>1. take[u].at < now /\ now \in Int
          BY <1>1, <2>2 DEF PendingSince, Times
    <3> QED
        BY <1>4, <1>9, <3>1
  <2> QED
      BY <1>4, <1>9, <2>1, <2>2 DEF Pending
<1> QED
    BY <1>1, <1>3, <1>4, <1>6, <1>7, <1>8, <1>9, <1>10, TakesKeep DEF Pending

LEMMA MarkKeeps ==
    ASSUME PathsApart, RecordingsInv, NEW n \in Names, MarkCompliant(n)
    PROVE  RecordingsInv'
<1> USE DEF RecordingsInv, MarkCompliant, config, files, history
<1> DEFINE t == handle[n]
           flagged == [take[t] EXCEPT !.ok = TRUE]
<1>1. /\ t \in Takes /\ take[t].st = "recording" /\ take[t].at < now
      /\ take \in [Takes -> TakeStates]
      BY DEF TypeOK, HandlesRecord
<1>2. take' = [take EXCEPT ![t] = flagged]
      BY <1>1
<1>3. /\ flagged \in TakeStates /\ flagged.st = "recording" /\ flagged.at = take[t].at
      BY <1>1 DEF TakeStates
<1>4. /\ take' \in [Takes -> TakeStates] /\ take'[t] = flagged
      /\ \A u \in Takes : u # t => take'[u] = take[u]
      BY <1>1, <1>2, <1>3
<1>5. \A u \in Takes : Pending(u)' = Pending(u) /\ take'[u].at = take[u].at
      BY <1>1, <1>3, <1>4 DEF Pending
<1>6. TypeOK'
      BY <1>4 DEF TypeOK, Listed
<1>7. HandlesRecord'
      BY <1>1, <1>3, <1>4 DEF HandlesRecord
<1>8. StaleIsOver'
      BY <1>1, <1>3, <1>4 DEF StaleIsOver, TypeOK
<1>9. PendingSince'
      BY <1>1, <1>3, <1>4, <1>5 DEF PendingSince, Pending
<1> QED
    BY <1>1, <1>4, <1>5, <1>6, <1>7, <1>8, <1>9, TakesKeep

LEMMA StopKeeps ==
    ASSUME PathsApart, RecordingsInv, NEW n \in Names, NEW s \in Takes, StopRecording(n, s)
    PROVE  RecordingsInv'
<1> USE DEF RecordingsInv, StopRecording, config, files, history
<1> DEFINE t == handle[n]
           stopped == [take[t] EXCEPT !.st = "stopping", !.to = take[s].event]
<1>1. /\ t \in Takes /\ take[t].st = "recording" /\ NameOf[t] = n
      /\ take \in [Takes -> TakeStates] /\ handle \in [Names -> Takes \cup {None}]
      BY DEF TypeOK, HandlesRecord
<1>2. take' = [take EXCEPT ![t] = stopped] /\ handle' = [handle EXCEPT ![n] = None]
      BY <1>1
<1>3. /\ stopped \in TakeStates /\ stopped.st = "stopping" /\ stopped.at = take[t].at
      /\ stopped.ok = take[t].ok
      BY <1>1 DEF TakeStates
<1>4. /\ take' \in [Takes -> TakeStates] /\ take'[t] = stopped
      /\ \A u \in Takes : u # t => take'[u] = take[u]
      BY <1>1, <1>2, <1>3
<1>5. \A u \in Takes : /\ Pending(u)' => Pending(u)
                       /\ take'[u].at = take[u].at /\ take'[u].ok = take[u].ok
      BY <1>1, <1>3, <1>4 DEF Pending
<1>6. TypeOK'
      BY <1>1, <1>2, <1>4 DEF TypeOK, Listed
<1>7. HandlesRecord'
      BY <1>1, <1>2, <1>3, <1>4 DEF HandlesRecord, Names
<1>8. StaleIsOver'
      BY <1>1, <1>3, <1>4 DEF StaleIsOver, TypeOK
<1>9. PendingSince'
  <2>1. \A u \in Takes : take[u].ok => Pending(u)'
        BY <1>1, <1>3, <1>4 DEF Pending, PendingSince
  <2> QED
      BY <1>1, <1>4, <1>5, <2>1 DEF PendingSince
<1> QED
    BY <1>1, <1>4, <1>5, <1>6, <1>7, <1>8, <1>9, TakesKeep

\* A take that quits with nothing to keep is lost.
LEMMA LosingKeeps ==
    ASSUME PathsApart, RecordingsInv, NEW t \in Takes, Discard(t) \/ RenameFails(t)
    PROVE  RecordingsInv'
<1> USE DEF RecordingsInv, Discard, RenameFails, Quits, config, files, history
<1>1. /\ take \in [Takes -> TakeStates] /\ take[t].st = "stopping"
      /\ take' = [take EXCEPT ![t] = Lost(t)]
      /\ UNCHANGED <<now, retention, events, handle, stale, archive, rows, cut>>
      /\ tmp \ {t} \subseteq tmp' /\ tmp' \subseteq tmp
      BY DEF TypeOK
<1>2. /\ take' \in [Takes -> TakeStates] /\ take'[t].st = "done" /\ ~take'[t].ok
      /\ \A u \in Takes : u # t => take'[u] = take[u]
      BY <1>1, LostTyped
<1>3. \A u \in Takes : /\ Pending(u)' => u # t /\ Pending(u)
                       /\ take[u].st = "done" => take'[u] = take[u]
      BY <1>1, <1>2 DEF Pending
<1>4. TypeOK'
  <2>1. stale' \subseteq tmp' /\ tmp' \subseteq Takes
        BY <1>1 DEF TypeOK, StaleIsOver
  <2> QED
      BY <1>1, <1>2, <2>1 DEF TypeOK, Listed
<1>5. HandlesRecord'
      BY <1>1, <1>2 DEF HandlesRecord, TypeOK
<1>6. StaleIsOver'
      BY <1>1, <1>2 DEF StaleIsOver, TypeOK
<1>7. PendingSince'
      BY <1>1, <1>2, <1>3 DEF PendingSince, Pending
<1> QED
    BY <1>1, <1>2, <1>3, <1>4, <1>5, <1>6, <1>7, TakesKeep

\* When the app ends every take that is under way is lost.
LEMMA AppEnding ==
    ASSUME RecordingsInv, AppEnds, rows' = rows,
           archive' \in [Paths -> Takes \cup {None}],
           tmp' \subseteq tmp, \A t \in tmp \ tmp' : take[t].st # "done"
    PROVE  /\ TypeOK' /\ HandlesRecord' /\ StaleIsOver' /\ PendingSince'
           /\ \A t \in Takes : /\ ~Pending(t)'
                               /\ take[t].st # "unused" => take'[t].st = "done"
                               /\ take[t].st = "done" => take'[t] = take[t]
<1> USE DEF RecordingsInv
<1>1. /\ take \in [Takes -> TakeStates] /\ handle' = [n \in Names |-> None]
      /\ take' = [t \in Takes |-> IF t \in Attended THEN Lost(t) ELSE take[t]]
      /\ UNCHANGED <<now, retention, events, stale>>
      BY DEF TypeOK, AppEnds, config
<1>2. /\ take' \in [Takes -> TakeStates]
      /\ \A t \in Takes : \/ take'[t].st = "done" /\ ~take'[t].ok /\ t \in Attended
                          \/ take'[t] = take[t] /\ t \notin Attended
      BY <1>1, LostTyped
<1>3. \A t \in Takes : /\ ~Pending(t)' /\ ~take'[t].ok
                       /\ take'[t].st # "recording"
                       /\ take[t].st # "unused" => take'[t].st = "done"
                       /\ take[t].st = "done" => take'[t] = take[t]
  <2> SUFFICES ASSUME NEW t \in Takes
               PROVE  /\ ~Pending(t)' /\ ~take'[t].ok
                      /\ take'[t].st # "recording"
                      /\ take[t].st # "unused" => take'[t].st = "done"
                      /\ take[t].st = "done" => take'[t] = take[t]
      OBVIOUS
  <2>1. take[t].st \in {"unused", "recording", "stopping", "done"}
        BY <1>1 DEF TakeStates
  <2>2. take[t].ok => t \in Attended
        BY DEF PendingSince, Pending, Attended
  <2> QED
      BY <1>2, <2>1, <2>2 DEF Pending, Attended
<1>4. TypeOK'
  <2>1. stale' \subseteq tmp' /\ tmp' \subseteq Takes
        BY <1>1 DEF TypeOK, StaleIsOver
  <2>2. handle' \in [Names -> Takes \cup {None}]
        BY <1>1
  <2> QED
      BY <1>1, <1>2, <2>1, <2>2 DEF TypeOK, Listed
<1>5. HandlesRecord'
      BY <1>1, <1>3 DEF HandlesRecord
<1>6. StaleIsOver'
      BY <1>1, <1>2, <1>3 DEF StaleIsOver, TypeOK, Attended
<1>7. PendingSince'
      BY <1>1, <1>3 DEF PendingSince
<1> QED
    BY <1>3, <1>4, <1>5, <1>6, <1>7

\* A crash, between two steps or in the middle of a deletion
LEMMA CrashKeeps ==
    ASSUME PathsApart, RecordingsInv,
           Crash \/ \E r \in Takes, k \in 1..Cardinality(Takes) : CrashDeleting(r, k)
    PROVE  RecordingsInv'
<1> USE DEF RecordingsInv
<1>1. /\ AppEnds /\ UNCHANGED <<now, events, tmp, rows, cut>>
      /\ archive' \in [Paths -> Takes \cup {None}]
      /\ \A p \in Paths : archive'[p] \in {archive[p], None}
  <2>1. archive \in [Paths -> Takes \cup {None}]
        BY DEF TypeOK
  <2>2. CASE Crash
        BY <2>1, <2>2 DEF Crash, AppEnds, config, history
  <2>3. ASSUME NEW r \in Takes, NEW k \in 1..Cardinality(Takes), CrashDeleting(r, k)
        PROVE  <1>1!:
        BY <2>1, <2>3 DEF CrashDeleting, AppEnds, config, Without
  <2> QED
      BY <2>2, <2>3
<1>2. /\ TypeOK' /\ HandlesRecord' /\ StaleIsOver' /\ PendingSince'
      /\ \A t \in Takes : /\ ~Pending(t)'
                          /\ take[t].st = "done" => take'[t] = take[t]
      BY <1>1, AppEnding
<1>3. ASSUME NEW p \in Paths, archive'[p] # None
      PROVE  \/ ListedBy(p)' # {}
             \/ p \in cut'
             \/ take'[archive'[p]].to \notin events' \cup {None}
  <2>1. archive'[p] = archive[p] /\ archive[p] \in Takes /\ take'[archive[p]] = take[archive[p]]
        BY <1>1, <1>2, <1>3 DEF TypeOK, FiledOnce
  <2>2. ListedBy(p)' = ListedBy(p)
        BY <1>1 DEF ListedBy, Listed
  <2> QED
      BY <1>1, <1>3, <2>1, <2>2 DEF Catalogued
<1> QED
    BY <1>1, <1>2, <1>3, LessKeeps

\* Playing touches nothing of this.
LEMMA PlayingKeeps ==
    ASSUME PathsApart, RecordingsInv,
           UNCHANGED <<now, config, recorder, files, rows, restarts, history>>
    PROVE  RecordingsInv'
<1> USE DEF RecordingsInv, config, recorder, files, history
<1>1. TypeOK'
      BY DEF TypeOK, Listed
<1>2. HandlesRecord' /\ StaleIsOver' /\ PendingSince'
      BY DEF HandlesRecord, StaleIsOver, PendingSince, Pending
<1> QED
    BY <1>1, <1>2, TakesKeep DEF Pending

\* What is pending when the clock ticks started before now.
LEMMA TickKeeps ==
    ASSUME RecordingsInv, Tick
    PROVE  RecordingsInv'
<1> USE DEF RecordingsInv, Tick, config, recorder, history
<1>1. /\ now \in Nat /\ now' = now + 1 /\ now' \in Times
      /\ UNCHANGED <<retention, events, handle, take, tmp, archive, rows, cut>>
      BY DEF TypeOK, Times
<1>2. /\ Listed' = Listed
      /\ \A p \in Paths : ListedBy(p)' = ListedBy(p) /\ Used(p)' = Used(p)
      /\ \A t \in Takes : Pending(t)' = Pending(t) /\ PathOf(t)' = PathOf(t)
      BY <1>1 DEF Listed, ListedBy, Used, Pending, PathOf
<1>3. TypeOK'
      BY <1>1, <1>2 DEF TypeOK
<1>4. HandlesRecord'
      BY <1>1 DEF HandlesRecord
<1>5. StaleIsOver'
  <2>1. \A t \in Takes : take[t].st \in {"unused", "recording", "stopping", "done"}
        BY DEF TypeOK, TakeStates
  <2> QED
      BY <1>1, <2>1 DEF StaleIsOver, Attended, TypeOK
<1>6. PendingSince'
  <2>1. \A t \in Takes : take[t].at \in Nat
        BY DEF TypeOK, TakeStates, Times
  <2> QED
      BY <1>1, <1>2, <2>1 DEF PendingSince
<1>7. PathsFresh'
  <2>1. \A p \in Paths : p.at \in Nat
        BY DEF Paths, Times
  <2> QED
      BY <1>1, <1>2, <2>1 DEF PathsFresh
<1>8. OwnFiles' /\ FiledOnce' /\ Catalogued'
  <2>1. OwnFiles'
        BY <1>1, <1>2 DEF OwnFiles
  <2>2. FiledOnce'
        BY <1>1, <1>2 DEF FiledOnce
  <2>3. Catalogued'
    <3>1. ASSUME NEW p \in Paths, archive[p] # None
          PROVE  \/ ListedBy(p)' # {}
                 \/ p \in cut
                 \/ take[archive[p]].to \notin events \cup {None}
          BY <1>2, <3>1 DEF Catalogued
    <3>2. \A q, r \in Listed' :
              q # r /\ NameOf[q] = NameOf[r] => rows'[q].event # rows'[r].event \/ rows'[q].event = None
          BY <1>1, <1>2 DEF Catalogued
    <3> QED
        BY <1>1, <3>1, <3>2 DEF Catalogued
  <2> QED
      BY <2>1, <2>2, <2>3
<1>9. AvgInRange'
  <2>1. \A r \in Takes : SegmentsOf(r)' = SegmentsOf(r)
        BY <1>1, <1>2 DEF SegmentsOf
  <2> QED
      BY <1>1, <1>2, <2>1 DEF AvgInRange, Listed
<1> QED
    BY <1>3, <1>4, <1>5, <1>6, <1>7, <1>8, <1>9

-------------------------------------------------------------------------------
(* Removing *)

\* Rows go with all their files: what is left has the row it had.
LEMMA DroppingKeeps ==
    ASSUME PathsApart, RecordingsInv, NEW rs \in SUBSET Listed,
           archive' = Without(FilesOf(rs)), rows' = Dropped(rs),
           tmp' \subseteq tmp, stale' = stale \cap tmp', \A t \in tmp \ tmp' : t \in stale,
           UNCHANGED <<now, config, recorder, cut>>
    PROVE  RecordingsInv'
<1> USE DEF RecordingsInv, config, recorder
<1>1. /\ \A r \in Takes : rows'[r] = IF r \in rs THEN NoRow ELSE rows[r]
      /\ rows' \in [Takes -> Rows]
      BY NoRowTyped DEF Dropped, TypeOK
<1>2. /\ \A p \in Paths : archive'[p] = IF p \in FilesOf(rs) THEN None ELSE archive[p]
      /\ archive' \in [Paths -> Takes \cup {None}]
      BY DEF Without, TypeOK
<1>3. \A r \in Takes : r \in Listed' <=> r \in Listed /\ r \notin rs
      BY <1>1, NoRowTyped DEF Listed
<1>4. TypeOK'
  <2>1. \A r \in Listed' : rows'[r].event \in events' \cup {None}
        BY <1>1, <1>3 DEF TypeOK, Listed
  <2> QED
      BY <1>1, <1>2, <2>1 DEF TypeOK
<1>5. HandlesRecord' /\ StaleIsOver' /\ PendingSince'
      BY DEF HandlesRecord, StaleIsOver, PendingSince, Pending
<1>6. ASSUME NEW p \in Paths, archive'[p] # None
      PROVE  \/ ListedBy(p)' # {}
             \/ p \in cut'
             \/ take'[archive'[p]].to \notin events' \cup {None}
  <2>1. archive'[p] = archive[p] /\ p \notin FilesOf(rs)
        BY <1>2, <1>6
  <2>2. ASSUME NEW r \in ListedBy(p) PROVE r \in ListedBy(p)'
    <3>1. r \in Listed /\ p \in ToSet(rows[r].segs) /\ r \in Takes
          BY DEF ListedBy, Listed
    <3>2. r \notin rs
          BY <2>1, <3>1 DEF FilesOf
    <3> QED
        BY <1>1, <1>3, <3>1, <3>2 DEF ListedBy
  <2> QED
      BY <1>6, <2>1, <2>2 DEF Catalogued
<1> QED
    BY <1>1, <1>2, <1>4, <1>5, <1>6, LessKeeps DEF Pending

\* Removing one recording, or those that are due
LEMMA RemovingKeeps ==
    ASSUME PathsApart, RecordingsInv,
           RunRetention \/ \E r \in Takes : DeleteRecording(r)
    PROVE  RecordingsInv'
<1>1. stale \subseteq tmp
      BY DEF RecordingsInv, TypeOK
<1>2. CASE RunRetention
  <2>1. Expired \in SUBSET Listed
        BY DEF Expired
  <2>2. /\ archive' = Without(FilesOf(Expired)) /\ rows' = Dropped(Expired)
        /\ tmp' \subseteq tmp /\ stale' = stale \cap tmp' /\ \A t \in tmp \ tmp' : t \in stale
        /\ UNCHANGED <<now, config, recorder, cut>>
        BY <1>1, <1>2 DEF RunRetention, history
  <2> QED
      BY <2>1, <2>2, DroppingKeeps
<1>3. ASSUME NEW r \in Takes, DeleteRecording(r) PROVE RecordingsInv'
  <2>1. /\ {r} \in SUBSET Listed
        /\ archive' = Without(FilesOf({r})) /\ rows' = Dropped({r})
        /\ tmp' \subseteq tmp /\ stale' = stale \cap tmp' /\ \A t \in tmp \ tmp' : t \in stale
        /\ UNCHANGED <<now, config, recorder, cut>>
        BY <1>1, <1>3 DEF DeleteRecording
  <2> QED
      BY <2>1, DroppingKeeps
<1> QED
    BY <1>2, <1>3

\* The rows of an event go without the files: of these the event is gone.
LEMMA DeleteEventKeeps ==
    ASSUME PathsApart, RecordingsInv, NEW e \in Events, DeleteEvent(e)
    PROVE  RecordingsInv'
<1> USE DEF RecordingsInv, DeleteEvent, recorder, files, history
<1> DEFINE rs == {r \in Listed : rows[r].event = e}
<1>1. /\ \A r \in Takes : rows'[r] = IF r \in rs THEN NoRow ELSE rows[r]
      /\ rows' \in [Takes -> Rows]
      BY NoRowTyped DEF Dropped, TypeOK
<1>2. \A r \in Takes : r \in Listed' <=> r \in Listed /\ r \notin rs
      BY <1>1, NoRowTyped DEF Listed
<1>3. TypeOK'
  <2>1. \A r \in Listed' : rows'[r].event \in events' \cup {None}
        BY <1>1, <1>2 DEF TypeOK, Listed
  <2> QED
      BY <1>1, <2>1 DEF TypeOK
<1>4. HandlesRecord' /\ StaleIsOver' /\ PendingSince'
      BY DEF HandlesRecord, StaleIsOver, PendingSince, Pending
<1>5. ASSUME NEW p \in Paths, archive'[p] # None
      PROVE  \/ ListedBy(p)' # {}
             \/ p \in cut'
             \/ take'[archive'[p]].to \notin events' \cup {None}
  <2>1. e \in events /\ e # None /\ events' = events \ {e}
        BY DEF TypeOK
  <2>2. CASE \E r \in ListedBy(p) : rows[r].event # e
    <3>1. PICK r \in ListedBy(p) : rows[r].event # e
          BY <2>2
    <3>2. r \in Listed /\ r \in Takes /\ p \in ToSet(rows[r].segs)
          BY DEF ListedBy, Listed
    <3>3. r \in ListedBy(p)'
          BY <1>1, <1>2, <3>1, <3>2 DEF ListedBy
    <3> QED
        BY <3>3
  <2>3. CASE \E r \in ListedBy(p) : rows[r].event = e
        BY <1>5, <2>1, <2>3 DEF FiledOnce
  <2>4. CASE ListedBy(p) = {}
        BY <1>5, <2>1, <2>4 DEF Catalogued
  <2> QED
      BY <2>2, <2>3, <2>4
<1> QED
    BY <1>1, <1>3, <1>4, <1>5, LessKeeps DEF Pending

-------------------------------------------------------------------------------
(* Filing *)

\* The file is renamed to a path that was free and is nobody else's.
LEMMA FreePath ==
    ASSUME PathsApart, RecordingsInv, NEW t \in Takes, Renamed(t)
    PROVE  /\ PathOf(t) \in Paths /\ archive[PathOf(t)] = None /\ ListedBy(PathOf(t)) = {}
           /\ PathOf(t).at < now /\ now - take[t].at \in Nat \ {0} /\ now \in Nat
           /\ take[t].at \in Nat \ {0} /\ take[t].at <= MaxTime
           /\ \A u \in Takes : Pending(u) /\ u # t => PathOf(u) # PathOf(t)
           /\ archive' \in [Paths -> Takes \cup {None}] /\ archive'[PathOf(t)] = t
           /\ \A p \in Paths : p # PathOf(t) => archive'[p] = archive[p]
           /\ take[t].st = "stopping" /\ rows[t].segs = <<>> /\ t \notin Listed
           /\ tmp' \subseteq tmp /\ t \notin stale /\ \A u \in tmp \ tmp' : u = t
<1> USE DEF RecordingsInv, Renamed, Quits
<1>1. /\ PathOf(t) \in Paths /\ PathOf(t).at = take[t].at
      /\ archive \in [Paths -> Takes \cup {None}]
      BY PathTyped DEF TypeOK
<1>2. Pending(t) /\ take[t].at < now /\ 1 <= take[t].at
      BY DEF Pending, PendingSince
<1>3. take[t].at \in 0..MaxTime /\ now \in Nat
      BY DEF TypeOK, TakeStates, Times
<1>4. ~Used(PathOf(t)) /\ \A u \in Takes : Pending(u) /\ u # t => PathOf(u) # PathOf(t)
      BY <1>1, <1>2 DEF PathsFresh
<1>5. take[t].st = "stopping" /\ rows[t].segs = <<>> /\ t \notin Listed /\ t \notin stale
      BY DEF FiledOnce, StaleIsOver, Listed
<1> QED
    BY <1>1, <1>2, <1>3, <1>4, <1>5 DEF Used

\* What the recorder has after a take was filed
LEMMA FiledTakes ==
    ASSUME PathsApart, RecordingsInv, NEW t \in Takes, Renamed(t), Filed(t)
    PROVE  /\ take' \in [Takes -> TakeStates]
           /\ take'[t].st = "done" /\ take'[t].at = take[t].at /\ take'[t].to = take[t].to
           /\ \A u \in Takes : u # t => take'[u] = take[u]
           /\ \A u \in Takes : PathOf(u)' = PathOf(u) /\ (Pending(u)' => Pending(u) /\ u # t)
           /\ HandlesRecord' /\ StaleIsOver' /\ PendingSince'
<1> USE DEF RecordingsInv, Filed, config, history
<1> DEFINE over == [take[t] EXCEPT !.st = "done", !.ok = FALSE]
<1>1. take \in [Takes -> TakeStates] /\ take[t].st = "stopping"
      BY DEF TypeOK, Renamed, Quits
<1>2. take' = [take EXCEPT ![t] = over]
      BY <1>1
<1>3. /\ over \in TakeStates /\ over.st = "done" /\ over.at = take[t].at /\ over.to = take[t].to
      /\ over.ok = FALSE
      BY <1>1 DEF TakeStates
<1>4. /\ take' \in [Takes -> TakeStates] /\ take'[t] = over
      /\ \A u \in Takes : u # t => take'[u] = take[u]
      BY <1>1, <1>2, <1>3
<1>5. \A u \in Takes : PathOf(u)' = PathOf(u) /\ (Pending(u)' => Pending(u) /\ u # t)
      BY <1>3, <1>4 DEF PathOf, Pending
<1>6. HandlesRecord'
      BY <1>1, <1>3, <1>4 DEF HandlesRecord, TypeOK
<1>7. StaleIsOver'
      BY <1>1, <1>3, <1>4 DEF StaleIsOver, TypeOK, Renamed
<1>8. PendingSince'
      BY <1>3, <1>4, <1>5 DEF PendingSince, Pending
<1> QED
    BY <1>3, <1>4, <1>5, <1>6, <1>7, <1>8

\* A path that has a file now is used, and nothing that is pending has it.
LEMMA FreshAfterFiling ==
    ASSUME PathsApart, RecordingsInv, NEW t \in Takes, Renamed(t), now' = now,
           \A u \in Takes : Pending(u)' => Pending(u) /\ u # t /\ PathOf(u)' = PathOf(u),
           \A p \in Paths : Used(p)' => Used(p) \/ p = PathOf(t)
    PROVE  PathsFresh'
BY FreePath DEF RecordingsInv, PathsFresh

\* The file is there and no row is written: it is one of a deleted event, or
\* the app crashed.
LEMMA UnrowedKeeps ==
    ASSUME PathsApart, RecordingsInv, NEW t \in Takes, Renamed(t),
           TypeOK', HandlesRecord', StaleIsOver', PendingSince',
           UNCHANGED <<now, events, rows>>, cut \subseteq cut',
           take'[t].st = "done",
           \A u \in Takes : take[u].st = "done" => take'[u] = take[u],
           \A u \in Takes : Pending(u)' => Pending(u) /\ u # t /\ PathOf(u)' = PathOf(u),
           \A u \in Takes : take[u].st = "done" => take'[u].st = "done",
           PathOf(t) \in cut' \/ take'[t].to \notin events \cup {None}
    PROVE  RecordingsInv'
<1> USE DEF RecordingsInv
<1> DEFINE new == PathOf(t)
<1>1. /\ new \in Paths /\ ListedBy(new) = {}
      /\ archive'[new] = t /\ \A p \in Paths : p # new => archive'[p] = archive[p]
      BY FreePath
<1>2. /\ Listed' = Listed /\ \A p \in Paths : ListedBy(p)' = ListedBy(p)
      /\ \A p \in Paths : Used(p)' => Used(p) \/ p = new
      BY <1>1 DEF Listed, ListedBy, Used
<1>3. PathsFresh'
      BY <1>2, FreshAfterFiling
<1>4. OwnFiles'
      BY <1>2 DEF OwnFiles
<1>5. \A p \in Paths : archive[p] # None =>
          archive[p] \in Takes /\ take[archive[p]].st = "done" /\ take'[archive[p]] = take[archive[p]]
      BY DEF TypeOK, FiledOnce
<1>6. FiledOnce'
  <2>1. \A p \in Paths : archive'[p] # None => take'[archive'[p]].st = "done"
        BY <1>1, <1>5
  <2>2. ASSUME NEW p \in Paths, archive'[p] # None, NEW r \in ListedBy(p)'
        PROVE  take'[archive'[p]].to = rows'[r].event
    <3>1. p # new /\ r \in ListedBy(p)
          BY <1>1, <1>2, <2>2
    <3> QED
        BY <1>1, <1>5, <2>2, <3>1 DEF FiledOnce
  <2>3. \A u \in Takes : take'[u].st # "done" => rows'[u].segs = <<>>
        BY DEF FiledOnce
  <2> QED
      BY <2>1, <2>2, <2>3 DEF FiledOnce
<1>7. Catalogued'
  <2>1. ASSUME NEW p \in Paths, archive'[p] # None
        PROVE  \/ ListedBy(p)' # {}
               \/ p \in cut'
               \/ take'[archive'[p]].to \notin events' \cup {None}
        BY <1>1, <1>2, <1>5, <2>1 DEF Catalogued
  <2>2. \A q, r \in Listed' :
            q # r /\ NameOf[q] = NameOf[r] => rows'[q].event # rows'[r].event \/ rows'[q].event = None
        BY <1>2 DEF Catalogued
  <2> QED
      BY <2>1, <2>2 DEF Catalogued
<1>8. AvgInRange'
  <2>1. \A r \in Takes : SegmentsOf(r) \subseteq SegmentsOf(r)'
        BY DEF SegmentsOf, PathOf
  <2> QED
      BY <1>2, <2>1 DEF AvgInRange, Listed
<1> QED
    BY <1>3, <1>4, <1>6, <1>7, <1>8

\* The row of m has the new file as its last segment, and the event of it.
LEMMA RowedKeeps ==
    ASSUME PathsApart, RecordingsInv, NEW t \in Takes, Renamed(t), Filed(t),
           TypeOK', NEW m \in Takes, m \in Listed \/ m = t,
           \A r \in Takes : r # m => rows'[r] = rows[r],
           rows'[m].segs # <<>>, IsInjective(rows'[m].segs),
           ToSet(rows'[m].segs) = ToSet(rows[m].segs) \cup {PathOf(t)},
           rows'[m].event = take[t].to,
           m \in Listed => rows[m].event = take[t].to,
           \A r \in Listed : r # m /\ NameOf[r] = NameOf[m] =>
               rows[r].event # take[t].to \/ take[t].to = None,
           rows'[m].avg[1] > 0 =>
               LET known == {FpsOf[u] : u \in SegmentsOf(m)'} \ {0} IN
               /\ \E f \in known : f * rows'[m].avg[2] <= rows'[m].avg[1]
               /\ \E f \in known : rows'[m].avg[1] <= f * rows'[m].avg[2]
    PROVE  RecordingsInv'
<1> USE DEF RecordingsInv
<1>0. PICK new \in Paths : new = PathOf(t)
      BY FreePath
<1>1. /\ new \in Paths /\ ListedBy(new) = {} /\ t \notin Listed /\ rows[t].segs = <<>>
      /\ archive'[new] = t /\ \A p \in Paths : p # new => archive'[p] = archive[p]
      BY <1>0, FreePath
<1>2. /\ take'[t].st = "done" /\ take'[t].at = take[t].at /\ take'[t].to = take[t].to
      /\ \A u \in Takes : u # t => take'[u] = take[u]
      /\ \A u \in Takes : PathOf(u)' = PathOf(u) /\ (Pending(u)' => Pending(u) /\ u # t)
      /\ HandlesRecord' /\ StaleIsOver' /\ PendingSince'
      BY FiledTakes
<1>3. now' = now /\ events' = events /\ cut' = cut
      BY DEF Filed, config, history
<1>4. /\ m \in Listed' /\ \A r \in Takes : r # m => (r \in Listed' <=> r \in Listed)
      /\ Listed \subseteq Takes /\ Listed' \subseteq Takes
      BY DEF Listed
<1>5. m \notin Listed => ToSet(rows[m].segs) = {}
      BY <1>1, NoSegments DEF Listed
<1>6. /\ \A p \in Paths : p # new => ListedBy(p)' = ListedBy(p)
      /\ ListedBy(new)' = {m}
  <2>1. ASSUME NEW p \in Paths, NEW r \in Takes
        PROVE  /\ r # m => (r \in ListedBy(p)' <=> r \in ListedBy(p))
               /\ r = m => (r \in ListedBy(p)' <=> p = new \/ r \in ListedBy(p))
        BY <1>0, <1>4, <1>5 DEF ListedBy
  <2>2. \A p \in Paths : ListedBy(p) \subseteq Takes /\ ListedBy(p)' \subseteq Takes
        BY <1>4 DEF ListedBy
  <2> QED
      BY <1>1, <2>1, <2>2
<1>7. PathsFresh'
  <2>1. \A p \in Paths : Used(p)' => Used(p) \/ p = new
        BY <1>1, <1>6 DEF Used
  <2> QED
      BY <1>0, <1>2, <1>3, <2>1, FreshAfterFiling
<1>8. OwnFiles'
  <2>1. \A r \in Listed' : IsInjective(rows'[r].segs)
        BY <1>4 DEF OwnFiles
  <2>2. ASSUME NEW q \in Listed', NEW r \in Listed', q # r, NEW p \in ToSet(rows'[q].segs),
               p \in ToSet(rows'[r].segs)
        PROVE  FALSE
    <3>1. p \in Paths /\ q \in Takes /\ r \in Takes
      <4>1. rows' \in [Takes -> Rows] /\ q \in Takes
            BY <1>4 DEF TypeOK
      <4>2. rows'[q].segs \in Seq(Paths)
            BY <4>1 DEF Rows
      <4> QED
          BY <1>4, <4>1, <4>2, <2>2, ElementOfSeq DEF ToSet
    <3>2. q \in ListedBy(p)' /\ r \in ListedBy(p)'
          BY <2>2 DEF ListedBy
    <3>3. p # new /\ q \in ListedBy(p) /\ r \in ListedBy(p)
          BY <1>6, <2>2, <3>1, <3>2
    <3> QED
        BY <2>2, <3>3 DEF OwnFiles, ListedBy
  <2> QED
      BY <2>1, <2>2 DEF OwnFiles
<1>9. \A p \in Paths : archive[p] # None =>
          archive[p] \in Takes /\ take[archive[p]].st = "done" /\ take'[archive[p]] = take[archive[p]]
  <2>1. take[t].st # "done"
        BY DEF Renamed, Quits
  <2> QED
      BY <1>2, <2>1 DEF TypeOK, FiledOnce
<1>10. \A p \in Paths : \A r \in ListedBy(p) : rows'[r].event = rows[r].event
       BY DEF ListedBy, Listed
<1>11. FiledOnce'
  <2>1. \A p \in Paths : archive'[p] # None => take'[archive'[p]].st = "done"
        BY <1>1, <1>2, <1>9
  <2>2. ASSUME NEW p \in Paths, archive'[p] # None, NEW r \in ListedBy(p)'
        PROVE  take'[archive'[p]].to = rows'[r].event
    <3>1. CASE p = new
          BY <1>1, <1>2, <1>6, <2>2, <3>1
    <3>2. CASE p # new
          BY <1>1, <1>6, <1>9, <1>10, <2>2, <3>2 DEF FiledOnce
    <3> QED
        BY <3>1, <3>2
  <2>3. ASSUME NEW u \in Takes, take'[u].st # "done" PROVE rows'[u].segs = <<>>
    <3>1. u # t /\ take[u].st # "done"
          BY <1>2, <2>3
    <3>2. rows[u].segs = <<>>
          BY <3>1 DEF FiledOnce
    <3> QED
        BY <3>1, <3>2 DEF Listed
  <2> QED
      BY <2>1, <2>2, <2>3 DEF FiledOnce
<1>12. Catalogued'
  <2>1. ASSUME NEW p \in Paths, archive'[p] # None
        PROVE  \/ ListedBy(p)' # {}
               \/ p \in cut'
               \/ take'[archive'[p]].to \notin events' \cup {None}
    <3>1. CASE p = new
          BY <1>6, <3>1
    <3>2. CASE p # new
          BY <1>1, <1>3, <1>6, <1>9, <2>1, <3>2 DEF Catalogued
    <3> QED
        BY <3>1, <3>2
  <2>2. ASSUME NEW q \in Listed', NEW r \in Listed', q # r, NameOf[q] = NameOf[r]
        PROVE  rows'[q].event # rows'[r].event \/ rows'[q].event = None
    <3>1. CASE q # m /\ r # m
          BY <1>4, <2>2, <3>1 DEF Catalogued
    <3>2. CASE q = m \/ r = m
          BY <1>4, <2>2, <3>2
    <3> QED
        BY <3>1, <3>2
  <2> QED
      BY <2>1, <2>2 DEF Catalogued
<1>13. AvgInRange'
  <2>1. ASSUME NEW r \in Takes, r # m PROVE SegmentsOf(r) \subseteq SegmentsOf(r)'
    <3>1. \A u \in Takes : u = t \/ take'[u] = take[u]
          BY <1>2
    <3> QED
        BY <1>2, <2>1, <3>1 DEF SegmentsOf
  <2>2. ASSUME NEW r \in Listed'
        PROVE  LET avg == rows'[r].avg
                   known == {FpsOf[u] : u \in SegmentsOf(r)'} \ {0} IN
               avg[1] > 0 =>
                   /\ \E f \in known : f * avg[2] <= avg[1]
                   /\ \E f \in known : avg[1] <= f * avg[2]
    <3>1. CASE r = m
          BY <3>1
    <3>2. CASE r # m
      <4>1. r \in Listed /\ r \in Takes /\ rows'[r] = rows[r]
            BY <1>4, <3>2
      <4> QED
          BY <2>1, <3>2, <4>1 DEF AvgInRange
    <3> QED
        BY <3>1, <3>2
  <2> QED
      BY <2>2 DEF AvgInRange
<1> QED
    BY <1>2, <1>7, <1>8, <1>11, <1>12, <1>13

\* An average over a longer time is between those it is made of.
LEMMA AverageBetween ==
    ASSUME NEW row \in Rows, NEW fps \in Nat, NEW dur \in Nat \ {0},
           NEW known \in SUBSET Nat, NEW wider \in SUBSET Nat,
           known \subseteq wider, fps > 0 => fps \in wider,
           row.avg[1] > 0 =>
               /\ \E f \in known : f * row.avg[2] <= row.avg[1]
               /\ \E f \in known : row.avg[1] <= f * row.avg[2]
    PROVE  LET avg == AvgFps(row, fps, dur) IN
           /\ avg \in Nat \X (Nat \ {0})
           /\ avg[1] > 0 =>
                  /\ \E f \in wider : f * avg[2] <= avg[1]
                  /\ \E f \in wider : avg[1] <= f * avg[2]
<1> DEFINE a == row.avg[1]
           b == row.avg[2]
           d == row.dur
<1>1. a \in Nat /\ b \in Nat \ {0} /\ d \in Nat /\ row.avg \in Nat \X (Nat \ {0})
      BY DEF Rows
<1>2. CASE a > 0 /\ fps > 0
  <2>1. Max({1, d + dur}) = d + dur
    <3>1. /\ d + dur \in {1, d + dur}
          /\ \A x \in {1, d + dur} : d + dur >= x
          /\ \A y \in {1, d + dur} : (\A x \in {1, d + dur} : y >= x) => y = d + dur
          BY <1>1
    <3> QED
        BY <3>1 DEF Max
  <2> DEFINE up == a * d + fps * dur * b
             down == b * (d + dur)
  <2>2. AvgFps(row, fps, dur) = <<up, down>>
        BY <1>2, <2>1 DEF AvgFps
  <2> HIDE DEF a, b, d
  <2>3. up \in Nat /\ down \in Nat \ {0}
        BY <1>1
  <2>4. ASSUME NEW f \in Nat, NEW x \in Nat
        PROVE  /\ f <= x => f * dur * b <= x * dur * b
               /\ f * b <= a => f * b * d <= a * d
               /\ a <= f * b => a * d <= f * b * d
               /\ f * down = f * b * d + f * dur * b
    <3>1. \A y, z \in Nat : \A k \in Nat : y <= z => y * k <= z * k
          OBVIOUS
    <3>2. /\ f * dur \in Nat /\ x * dur \in Nat /\ f * b \in Nat
          BY <1>1
    <3>3. f <= x => f * dur <= x * dur
          BY <3>1
    <3>4. f <= x => f * dur * b <= x * dur * b
          BY <1>1, <3>1, <3>2, <3>3
    <3>5. f * down = f * b * d + f * dur * b
          BY <1>1
    <3> QED
        BY <1>1, <3>1, <3>2, <3>4, <3>5
  <2>7. ASSUME NEW x \in Nat, NEW y \in Nat, x <= y
        PROVE  x * b \in Nat /\ y * b \in Nat /\ x * b <= y * b
        BY <1>1, <2>7
  <2>5. \E f \in wider : f * down <= up
    <3>1. PICK f \in known : f \in Nat /\ f * b <= a
          BY <1>2 DEF a, b
    <3>2. CASE f <= fps
      <4>1. f * b * d <= a * d /\ f * dur * b <= fps * dur * b
            BY <2>4, <3>1, <3>2
      <4>2. f * down = f * b * d + f * dur * b
            BY <2>4, <3>1
      <4>3. f * b * d \in Nat /\ f * dur * b \in Nat /\ a * d \in Nat /\ fps * dur * b \in Nat
            BY <1>1, <3>1
      <4> QED
          BY <4>1, <4>2, <4>3
    <3>3. CASE fps <= f
      <4>1. fps * b <= a
            BY <1>1, <2>7, <3>1, <3>3
      <4>2. fps * b * d <= a * d /\ fps * down = fps * b * d + fps * dur * b
            BY <2>4, <4>1
      <4>3. fps * b * d \in Nat /\ a * d \in Nat /\ fps * dur * b \in Nat
            BY <1>1
      <4> QED
          BY <1>2, <4>2, <4>3
    <3> QED
        BY <3>2, <3>3
  <2>6. \E f \in wider : up <= f * down
    <3>1. PICK f \in known : f \in Nat /\ a <= f * b
          BY <1>2 DEF a, b
    <3>2. CASE fps <= f
      <4>1. a * d <= f * b * d /\ fps * dur * b <= f * dur * b
            BY <2>4, <3>1, <3>2
      <4>2. f * down = f * b * d + f * dur * b
            BY <2>4, <3>1
      <4>3. f * b * d \in Nat /\ f * dur * b \in Nat /\ a * d \in Nat /\ fps * dur * b \in Nat
            BY <1>1, <3>1
      <4> QED
          BY <4>1, <4>2, <4>3
    <3>3. CASE f <= fps
      <4>1. a <= fps * b
            BY <1>1, <2>7, <3>1, <3>3
      <4>2. a * d <= fps * b * d /\ fps * down = fps * b * d + fps * dur * b
            BY <2>4, <4>1
      <4>3. fps * b * d \in Nat /\ a * d \in Nat /\ fps * dur * b \in Nat
            BY <1>1
      <4> QED
          BY <1>2, <4>2, <4>3
    <3> QED
        BY <3>2, <3>3
  <2> HIDE DEF up, down
  <2>8. PICK v : v = AvgFps(row, fps, dur)
        OBVIOUS
  <2>9. v \in Nat \X (Nat \ {0}) /\ v[1] = up /\ v[2] = down
        BY <2>2, <2>3, <2>8
  <2>10. v[1] > 0 => (\E f \in wider : f * v[2] <= v[1]) /\ \E f \in wider : v[1] <= f * v[2]
        BY <2>5, <2>6, <2>9
  <2> QED
      BY <2>8, <2>9, <2>10
<1>3. CASE ~(a > 0) /\ fps > 0
  <2>1. AvgFps(row, fps, dur) = <<fps, 1>>
        BY <1>3 DEF AvgFps
  <2> QED
      BY <1>3, <2>1
<1>4. CASE ~(fps > 0)
  <2>1. AvgFps(row, fps, dur) = row.avg
        BY <1>4 DEF AvgFps
  <2> QED
      BY <1>1, <2>1
<1> QED
    BY <1>2, <1>3, <1>4

\* The row a take is appended to is the one its user has in the event.
LEMMA OneOfUser ==
    ASSUME RecordingsInv, NEW t \in Takes, SameUser(t) # {}
    PROVE  SameUser(t) = {MergeTarget(t)} /\ MergeTarget(t) \in Listed
<1>1. \A q, r \in SameUser(t) : q = r
      BY DEF RecordingsInv, Catalogued, SameUser
<1>2. PICK m \in SameUser(t) : TRUE
      OBVIOUS
<1>3. rows[m].at <= rows[m].at
  <2>1. rows[m] \in Rows
        BY <1>2 DEF RecordingsInv, TypeOK, SameUser, Listed
  <2>2. rows[m].at \in Int
        BY <2>1 DEF Rows, Times
  <2> QED
      BY <2>2
<1>4. \A q \in SameUser(t) : rows[q].at <= rows[m].at
      BY <1>1, <1>2, <1>3
<1>5. MergeTarget(t) \in SameUser(t)
      BY <1>2, <1>4 DEF MergeTarget
<1> QED
    BY <1>1, <1>5 DEF SameUser

LEMMA AppendedKeeps ==
    ASSUME PathsApart, RecordingsInv, NEW t \in Takes, FileAppended(t)
    PROVE  RecordingsInv'
<1>1. Renamed(t) /\ Filed(t) /\ SameUser(t) # {}
      BY DEF FileAppended
<1>2. PICK m \in Listed : m = MergeTarget(t) /\ SameUser(t) = {m}
      BY <1>1, OneOfUser
<1>3. /\ rows \in [Takes -> Rows] /\ m \in Takes /\ rows[m] \in Rows /\ FpsOf[t] \in Nat
      BY <1>2 DEF RecordingsInv, TypeOK, Listed
<1>4. /\ PathOf(t) \in Paths /\ ListedBy(PathOf(t)) = {} /\ now - take[t].at \in Nat \ {0}
      /\ take[t].at \in Nat \ {0} /\ t \notin Listed
      /\ archive' \in [Paths -> Takes \cup {None}] /\ tmp' \subseteq tmp /\ t \notin stale
      /\ \A u \in tmp \ tmp' : u = t
      BY <1>1, FreePath
<1>5. /\ take' \in [Takes -> TakeStates] /\ take'[t].st = "done" /\ take'[t].at = take[t].at
      /\ \A u \in Takes : u # t => take'[u] = take[u]
      /\ \A u \in Takes : PathOf(u)' = PathOf(u)
      BY <1>1, FiledTakes
<1> DEFINE dur == now - take[t].at
           avg == AvgFps(rows[m], FpsOf[t], dur)
           longer == Append(rows[m].segs, PathOf(t))
           old == {FpsOf[u] : u \in SegmentsOf(m)} \ {0}
           new == {FpsOf[u] : u \in SegmentsOf(m) \cup {t}} \ {0}
<1>6. avg \in Nat \X (Nat \ {0}) /\ (avg[1] > 0 => (\E f \in new : f * avg[2] <= avg[1])
                                               /\ \E f \in new : avg[1] <= f * avg[2])
  <2>1. old \in SUBSET Nat /\ new \in SUBSET Nat /\ old \subseteq new
        BY <1>3 DEF SegmentsOf
  <2>2. FpsOf[t] > 0 => FpsOf[t] \in new
        BY <1>3
  <2>3. rows[m].avg[1] > 0 =>
            /\ \E f \in old : f * rows[m].avg[2] <= rows[m].avg[1]
            /\ \E f \in old : rows[m].avg[1] <= f * rows[m].avg[2]
        BY <1>2 DEF RecordingsInv, AvgInRange
  <2> QED
      BY <1>3, <1>4, <2>1, <2>2, <2>3, AverageBetween
<1>7. /\ longer \in Seq(Paths) /\ longer # <<>> /\ IsInjective(longer)
      /\ ToSet(longer) = ToSet(rows[m].segs) \cup {PathOf(t)}
  <2>1. IsInjective(rows[m].segs) /\ PathOf(t) \notin ToSet(rows[m].segs)
        BY <1>2, <1>4 DEF RecordingsInv, OwnFiles, ListedBy
  <2>2. rows[m].segs \in Seq(Paths)
        BY <1>3 DEF Rows
  <2> QED
      BY <1>4, <2>1, <2>2, Appending
<1>8. rows' = [rows EXCEPT ![m] = Appended(rows[m], t)]
      BY <1>2, <1>3 DEF FileAppended
<1>9. /\ Appended(rows[m], t).segs = longer /\ Appended(rows[m], t).avg = avg
      /\ Appended(rows[m], t).event = rows[m].event /\ Appended(rows[m], t) \in Rows
  <2> HIDE DEF avg, longer
  <2>1. Appended(rows[m], t) = [rows[m] EXCEPT !.segs = longer, !.dur = rows[m].dur + dur, !.avg = avg]
        BY <1>3 DEF Appended, avg, longer
  <2>2. rows[m].dur + dur \in Nat
        BY <1>3, <1>4 DEF Rows
  <2> QED
      BY <1>3, <1>6, <1>7, <2>1, <2>2 DEF Rows
<1>10. /\ rows' \in [Takes -> Rows] /\ rows'[m].segs = longer /\ rows'[m].avg = avg
       /\ rows'[m].event = rows[m].event
       /\ \A r \in Takes : r # m => rows'[r] = rows[r]
       BY <1>3, <1>8, <1>9
<1>11. rows[m].event = take[t].to /\ NameOf[m] = NameOf[t] /\ take[t].to # None
       BY <1>2 DEF SameUser
<1>12. \A r \in Listed : r # m /\ NameOf[r] = NameOf[m] => rows[r].event # take[t].to
       BY <1>2, <1>11 DEF SameUser
<1>13. TypeOK'
  <2>1. \A r \in Listed' : r \in Takes /\ (r = m \/ r \in Listed) /\ rows'[r].event = rows[r].event
        BY <1>10 DEF Listed
  <2>2. \A r \in Listed' : rows'[r].event \in events' \cup {None}
        BY <1>1, <1>2, <2>1 DEF RecordingsInv, TypeOK, Filed, config
  <2>3. stale' \subseteq tmp'
        BY <1>1, <1>4 DEF RecordingsInv, TypeOK, Filed
  <2> QED
      BY <1>1, <1>4, <1>5, <1>10, <2>2, <2>3 DEF RecordingsInv, TypeOK, Filed, config
<1>14. SegmentsOf(m) \cup {t} \subseteq SegmentsOf(m)'
  <2>1. \A u \in Takes : u = t \/ take'[u] = take[u]
        BY <1>5
  <2>2. PathOf(t)' \in ToSet(rows'[m].segs)
        BY <1>5, <1>7, <1>10
  <2>3. t \in SegmentsOf(m)'
        BY <1>4, <1>5, <2>2 DEF SegmentsOf
  <2>4. \A u \in SegmentsOf(m) : u = t \/ u \in SegmentsOf(m)'
        BY <1>5, <1>7, <1>10, <2>1 DEF SegmentsOf
  <2> QED
      BY <2>3, <2>4
<1>15. new \subseteq {FpsOf[u] : u \in SegmentsOf(m)'} \ {0}
       BY <1>14
<1>16. rows'[m].avg[1] > 0 =>
           LET known == {FpsOf[u] : u \in SegmentsOf(m)'} \ {0} IN
           /\ \E f \in known : f * rows'[m].avg[2] <= rows'[m].avg[1]
           /\ \E f \in known : rows'[m].avg[1] <= f * rows'[m].avg[2]
  <2> HIDE DEF new, avg
  <2> QED
      BY <1>6, <1>10, <1>15
<1>17. /\ rows'[m].segs # <<>> /\ IsInjective(rows'[m].segs)
       /\ ToSet(rows'[m].segs) = ToSet(rows[m].segs) \cup {PathOf(t)}
       BY <1>7, <1>10
<1> HIDE DEF dur, avg, longer, old, new
<1> QED
    BY <1>1, <1>2, <1>3, <1>10, <1>11, <1>12, <1>13, <1>16, <1>17, RowedKeeps

\* A row of its own: the user has none in the event.
LEMMA InsertedKeeps ==
    ASSUME PathsApart, RecordingsInv, NEW t \in Takes, FileInserted(t)
    PROVE  RecordingsInv'
<1>1. /\ Renamed(t) /\ Filed(t) /\ SameUser(t) = {} /\ take[t].to \in events \cup {None}
      /\ rows' = [rows EXCEPT ![t] = [event |-> take[t].to, segs |-> <<PathOf(t)>>,
                    at |-> take[t].at, dur |-> now - take[t].at, avg |-> <<FpsOf[t], 1>>]]
      BY DEF FileInserted
<1>2. /\ rows \in [Takes -> Rows] /\ FpsOf[t] \in Nat
      /\ take[t].at \in Times /\ take[t].to \in Events \cup {None}
      BY DEF RecordingsInv, TypeOK, TakeStates
<1>3. /\ PathOf(t) \in Paths /\ now - take[t].at \in Nat \ {0} /\ take[t].at \in Nat \ {0}
      /\ t \notin Listed /\ rows[t].segs = <<>>
      /\ archive' \in [Paths -> Takes \cup {None}] /\ tmp' \subseteq tmp /\ t \notin stale
      /\ \A u \in tmp \ tmp' : u = t
      BY <1>1, FreePath
<1>4. /\ take' \in [Takes -> TakeStates] /\ take'[t].st = "done" /\ take'[t].at = take[t].at
      /\ PathOf(t)' = PathOf(t)
      BY <1>1, FiledTakes
<1>5. /\ <<PathOf(t)>> \in Seq(Paths) /\ <<PathOf(t)>> # <<>>
      /\ ToSet(<<PathOf(t)>>) = {PathOf(t)} /\ IsInjective(<<PathOf(t)>>)
      BY <1>3, OneSegment
<1>6. /\ rows' \in [Takes -> Rows] /\ rows'[t].segs = <<PathOf(t)>>
      /\ rows'[t].avg = <<FpsOf[t], 1>> /\ rows'[t].event = take[t].to
      /\ \A r \in Takes : r # t => rows'[r] = rows[r]
      BY <1>1, <1>2, <1>3, <1>5 DEF Rows
<1>7. TypeOK'
  <2>1. \A r \in Listed' : r \in Takes /\ (r = t \/ (r \in Listed /\ rows'[r] = rows[r]))
        BY <1>6 DEF Listed
  <2>2. \A r \in Listed' : rows'[r].event \in events' \cup {None}
        BY <1>1, <1>6, <2>1 DEF RecordingsInv, TypeOK, Filed, config
  <2>3. stale' \subseteq tmp'
        BY <1>1, <1>3 DEF RecordingsInv, TypeOK, Filed
  <2> QED
      BY <1>1, <1>3, <1>4, <1>6, <2>2, <2>3 DEF RecordingsInv, TypeOK, Filed, config
<1>8. \A r \in Listed : r # t /\ NameOf[r] = NameOf[t] =>
          rows[r].event # take[t].to \/ take[t].to = None
      BY <1>1 DEF SameUser
<1>9. t \in SegmentsOf(t)'
      BY <1>3, <1>4, <1>5, <1>6 DEF SegmentsOf
<1>10. rows'[t].avg[1] > 0 =>
           LET known == {FpsOf[u] : u \in SegmentsOf(t)'} \ {0} IN
           /\ \E f \in known : f * rows'[t].avg[2] <= rows'[t].avg[1]
           /\ \E f \in known : rows'[t].avg[1] <= f * rows'[t].avg[2]
       BY <1>2, <1>6, <1>9
<1>11. ToSet(rows'[t].segs) = ToSet(rows[t].segs) \cup {PathOf(t)}
       BY <1>3, <1>5, <1>6, NoSegments
<1> QED
    BY <1>1, <1>3, <1>5, <1>6, <1>7, <1>8, <1>10, <1>11, RowedKeeps

\* No row: the insert was refused, or the app crashed before it.
LEMMA UnfiledKeeps ==
    ASSUME PathsApart, RecordingsInv, NEW t \in Takes, InsertRefused(t) \/ CrashFiling(t)
    PROVE  RecordingsInv'
<1>1. Renamed(t) /\ rows' = rows
      BY DEF InsertRefused, CrashFiling
<1>2. /\ archive' \in [Paths -> Takes \cup {None}] /\ tmp' \subseteq tmp /\ t \notin stale
      /\ \A u \in tmp \ tmp' : u = t
      /\ take[t].st = "stopping"
      BY <1>1, FreePath
<1>3. CASE InsertRefused(t)
  <2>1. Filed(t) /\ take[t].to \notin events \cup {None}
        BY <1>3 DEF InsertRefused
  <2>2. /\ take' \in [Takes -> TakeStates] /\ take'[t].st = "done" /\ take'[t].to = take[t].to
        /\ \A u \in Takes : u # t => take'[u] = take[u]
        /\ \A u \in Takes : PathOf(u)' = PathOf(u) /\ (Pending(u)' => Pending(u) /\ u # t)
        /\ HandlesRecord' /\ StaleIsOver' /\ PendingSince'
        BY <1>1, <2>1, FiledTakes
  <2>3. UNCHANGED <<now, retention, events, handle, stale, cut>>
        BY <2>1 DEF Filed, config, history
  <2>4. TypeOK'
    <3>1. stale' \subseteq tmp'
          BY <1>2, <2>3 DEF RecordingsInv, TypeOK
    <3> QED
        BY <1>1, <1>2, <2>2, <2>3, <3>1 DEF RecordingsInv, TypeOK, Listed
  <2> QED
      BY <1>1, <1>2, <2>1, <2>2, <2>3, <2>4, UnrowedKeeps
<1>4. CASE CrashFiling(t)
  <2>1. /\ AppEnds /\ UNCHANGED <<now, events>> /\ cut' = cut \cup {PathOf(t)}
        BY <1>4 DEF CrashFiling, AppEnds, config
  <2>2. /\ TypeOK' /\ HandlesRecord' /\ StaleIsOver' /\ PendingSince'
        /\ \A u \in Takes : /\ ~Pending(u)'
                            /\ take[u].st # "unused" => take'[u].st = "done"
                            /\ take[u].st = "done" => take'[u] = take[u]
        BY <1>1, <1>2, <2>1, AppEnding
  <2>3. PathOf(t) \in cut' /\ take'[t].st = "done"
        BY <1>2, <2>1, <2>2
  <2> QED
      BY <1>1, <2>1, <2>2, <2>3, UnrowedKeeps
<1> QED
    BY <1>3, <1>4

-------------------------------------------------------------------------------
(* The theorems *)

\* Every step keeps the invariant.
LEMMA NextKeeps == ASSUME PathsApart, RecordingsInv, [Next]_vars PROVE RecordingsInv'
<1>1. ASSUME NEW t \in Takes, NEW e \in events \cup {None}, StartRecording(t, e)
      PROVE  RecordingsInv'
      BY <1>1, StartKeeps
<1>2. ASSUME NEW t \in Takes, Discard(t) \/ RenameFails(t) PROVE RecordingsInv'
      BY <1>2, LosingKeeps
<1>3. ASSUME NEW t \in Takes, FileAppended(t) PROVE RecordingsInv'
      BY <1>3, AppendedKeeps
<1>4. ASSUME NEW t \in Takes, FileInserted(t) PROVE RecordingsInv'
      BY <1>4, InsertedKeeps
<1>5. ASSUME NEW t \in Takes, InsertRefused(t) \/ CrashFiling(t) PROVE RecordingsInv'
      BY <1>5, UnfiledKeeps
<1>6. ASSUME NEW n \in Names, MarkCompliant(n) PROVE RecordingsInv'
      BY <1>6, MarkKeeps
<1>7. ASSUME NEW n \in Names, NEW s \in Takes, StopRecording(n, s) PROVE RecordingsInv'
      BY <1>7, StopKeeps
<1>8. CASE RunRetention \/ \E r \in Takes : DeleteRecording(r)
      BY <1>8, RemovingKeeps
<1>9. CASE Crash \/ \E r \in Takes, k \in 1..Cardinality(Takes) : CrashDeleting(r, k)
      BY <1>9, CrashKeeps
<1>10. ASSUME NEW e \in Events, DeleteEvent(e) PROVE RecordingsInv'
       BY <1>10, DeleteEventKeeps
<1>11. ASSUME NEW v \in Viewers,
              \/ \E r \in Takes : Glue(v, r) \/ \E rg \in Ranges : ServeRange(v, r, rg)
              \/ ReadSegment(v) \/ FinishGluing(v) \/ StopWatching(v) \/ Receive(v)
       PROVE  RecordingsInv'
  <2>1. UNCHANGED <<now, config, recorder, files, rows, restarts, history>>
        BY <1>11 DEF Glue, ServeRange, ReadSegment, FinishGluing, StopWatching, Receive
  <2> QED
      BY <2>1, PlayingKeeps
<1>12. CASE Tick
       BY <1>12, TickKeeps
<1>13. CASE UNCHANGED vars
       BY <1>13, PlayingKeeps DEF vars
<1> QED
    BY <1>1, <1>2, <1>3, <1>4, <1>5, <1>6, <1>7, <1>8, <1>9, <1>10, <1>11, <1>12, <1>13 DEF Next

\* Files, rows and takes agree in every reachable state.
THEOREM RecordingsSafe == ASSUME PathsApart PROVE Spec => []RecordingsInv
<1>1. Init => RecordingsInv
      BY InitHolds
<1>2. RecordingsInv /\ [Next]_vars => RecordingsInv'
      BY NextKeeps
<1> QED
    BY <1>1, <1>2, PTL DEF Spec

\* A file is a segment of one recording at most, and once: a path has the
\* second the take started in, and a user is recorded once at a time.
THEOREM FilesOwned == ASSUME PathsApart PROVE Spec => []OwnFiles
<1>1. RecordingsInv => OwnFiles
      BY DEF RecordingsInv
<1> QED
    BY <1>1, RecordingsSafe, PTL

\* No file is lost to the catalogue but by a crash or with its event, and a
\* user has one recording an event.
THEOREM ArchiveCatalogued == ASSUME PathsApart PROVE Spec => []Catalogued
<1>1. RecordingsInv => Catalogued
      BY DEF RecordingsInv
<1> QED
    BY <1>1, RecordingsSafe, PTL

\* The average of a recording lies between those of its segments, however
\* many were appended and whatever the probe could not tell.
THEOREM AverageWithin == ASSUME PathsApart PROVE Spec => []AvgInRange
<1>1. RecordingsInv => AvgInRange
      BY DEF RecordingsInv
<1> QED
    BY <1>1, RecordingsSafe, PTL

\* What a step may do to the file at a path
Kept(p) ==
    archive[p] # None /\ archive'[p] # archive[p] =>
        /\ archive'[p] = None
        /\ \E r \in ListedBy(p) :
            r \in asked' \/ (retention > 0 /\ rows[r].at + retention < now)

\* Files go with a recording that is deleted or due; a new one is at a path
\* that was free.
LEMMA StepsKeepFiles ==
    ASSUME PathsApart, RecordingsInv, [Next]_vars, NEW p \in Paths
    PROVE  Kept(p)
<1>1. archive \in [Paths -> Takes \cup {None}]
      BY DEF RecordingsInv, TypeOK
<1>2. CASE archive' = archive
      BY <1>2 DEF Kept
<1>3. ASSUME NEW t \in Takes, Renamed(t) PROVE Kept(p)
      BY <1>3, FreePath DEF Kept
<1>4. ASSUME NEW r \in Takes, DeleteRecording(r) PROVE Kept(p)
  <2>1. /\ r \in Listed /\ r \in asked'
        /\ archive'[p] = IF p \in FilesOf({r}) THEN None ELSE archive[p]
        BY <1>4 DEF DeleteRecording, Without
  <2>2. p \in FilesOf({r}) => r \in ListedBy(p)
        BY <2>1 DEF FilesOf, ListedBy
  <2> QED
      BY <2>1, <2>2 DEF Kept
<1>5. ASSUME NEW r \in Takes, NEW k \in 1..Cardinality(Takes), CrashDeleting(r, k) PROVE Kept(p)
  <2> DEFINE first == ToSet(SubSeq(rows[r].segs, 1, k))
  <2>1. /\ r \in Listed /\ r \in asked' /\ k \in 1..Len(rows[r].segs)
        /\ archive'[p] = IF p \in first THEN None ELSE archive[p]
        BY <1>5 DEF CrashDeleting, Without
  <2>2. rows[r].segs \in Seq(Paths)
        BY ListedTyped DEF RecordingsInv
  <2>3. p \in first => r \in ListedBy(p)
        BY <2>1, <2>2, FirstSegments DEF ListedBy
  <2> QED
      BY <2>1, <2>3 DEF Kept
<1>6. CASE RunRetention
  <2>1. archive'[p] = IF p \in FilesOf(Expired) THEN None ELSE archive[p]
        BY <1>6 DEF RunRetention, Without
  <2>2. ASSUME p \in FilesOf(Expired)
        PROVE  \E r \in ListedBy(p) : retention > 0 /\ rows[r].at + retention < now
    <3>1. PICK r \in Expired : p \in ToSet(rows[r].segs)
          BY <2>2 DEF FilesOf
    <3>2. retention # 0 /\ r \in Listed /\ rows[r].at < now - retention
          BY <3>1 DEF Expired
    <3>3. rows[r] \in Rows /\ retention \in Nat /\ now \in Nat
          BY <3>2 DEF RecordingsInv, TypeOK, Listed, Times
    <3>4. rows[r].at \in Nat
          BY <3>3 DEF Rows, Times
    <3>5. rows[r].at + retention < now /\ retention > 0
          BY <3>2, <3>3, <3>4
    <3> QED
        BY <3>1, <3>2, <3>5 DEF ListedBy
  <2> QED
      BY <2>1, <2>2 DEF Kept
<1>7. \/ archive' = archive
      \/ \E t \in Takes : Renamed(t)
      \/ \E r \in Takes : DeleteRecording(r) \/ \E k \in 1..Cardinality(Takes) : CrashDeleting(r, k)
      \/ RunRetention
      BY DEF Next, vars, files, StartRecording, Discard, RenameFails, FileAppended, FileInserted,
             InsertRefused, CrashFiling, MarkCompliant, StopRecording, DeleteEvent, Glue,
             ServeRange, ReadSegment, FinishGluing, StopWatching, Receive, Tick, Crash
<1> QED
    BY <1>2, <1>3, <1>4, <1>5, <1>6, <1>7

\* What is at a path is never replaced, and goes only with its recording.
THEOREM FilesKept == ASSUME PathsApart PROVE Spec => KeptUntilDue
<1>1. RecordingsInv /\ [Next]_vars =>
          [\A p \in Paths : archive[p] # None /\ archive'[p] # archive[p] =>
              /\ archive'[p] = None
              /\ \E r \in ListedBy(p) :
                  r \in asked' \/ (retention > 0 /\ rows[r].at + retention < now)]_vars
      BY StepsKeepFiles DEF Kept
<1> QED
    BY <1>1, RecordingsSafe, PTL DEF Spec, KeptUntilDue
===============================================================================
