------------------------------ MODULE ViewsProofs -----------------------------
(***************************************************************************)
(* Proofs about what viewers are shown: the events they find (EventBook)   *)
(* and the live streams page (LivePage).                                   *)
(***************************************************************************)
EXTENDS LivePage, EventBook, SequenceTheorems, TLAPS

-------------------------------------------------------------------------------
(***************************************************************************)
(* LivePage, for any sessions, names, page size and number of events on    *)
(* their way: tiles and players agree but for the races that hurried       *)
(* names, and the table is what the last event about a session made it.    *)
(***************************************************************************)

\* A start under way whose player nobody will want, or that is not the only
\* one, is of a name that was stopped meanwhile.
StartsHurried ==
    \A n \in Names :
        /\ starting[n] > 0
        /\ n \in players \/ n \notin playing \/ starting[n] > 1 \/ view = "shut"
        => n \in hurried

\* What the grid writes
GridTyped ==
    /\ playing \subseteq Names /\ players \subseteq Names
    /\ stray \subseteq Names /\ hurried \subseteq Names
    /\ starting \in [Names -> 0..MaxStarts]

GridInv == GridTyped /\ StartsHurried /\ PlayingIsPlayed /\ TornDown

\* A connection is of a page that is mounted, and what was sent on another is lost.
OneConnection ==
    /\ conn => page = "mounted"
    /\ ~conn => wire = <<>>

\* A sweep still has to announce what is no longer open.
TellingOver == \A s \in telling : sess[s] \notin {"new", "open"}

\* The last event about a session says what has become of it, and its row does
\* when there is none on the way and none was missed.
LastWord ==
    page \in {"loaded", "mounted"} =>
        \A s \in Sessions : sess[s] \notin Leaking =>
            /\ \A i \in DOMAIN wire :
                   wire[i].s = s /\ (\A j \in DOMAIN wire : wire[j].s = s => j <= i) =>
                       (wire[i].kind = "up" <=> sess[s] = "open")
            /\ s \notin missed /\ (\A i \in DOMAIN wire : wire[i].s # s) =>
                   (s \in rows <=> sess[s] = "open")

WireInv == OneConnection /\ TellingOver /\ LastWord

PageInv == TypeOK /\ GridInv /\ WireInv

USE PageAssumption

\* At first there is no page.
LEMMA InitHolds == Init => PageInv
<1> SUFFICES ASSUME Init PROVE PageInv
    OBVIOUS
<1>1. starting = [n \in Names |-> 0] /\ starting \in [Names -> 0..MaxStarts]
      BY DEF Init
<1>2. wire \in Seq([kind : {"up", "stop"}, s : Sessions]) /\ Len(wire) <= MaxWire
      BY DEF Init
<1>3. TypeOK
  <2>1. /\ sess \in [Sessions -> {"new", "open", "ended"} \cup Leaking]
        /\ name \in [Sessions -> Names]
        BY DEF Init
  <2>2. /\ telling \subseteq Sessions /\ rows \subseteq Sessions /\ missed \subseteq Sessions
        /\ playing \subseteq Names /\ players \subseteq Names
        /\ stray \subseteq Names /\ hurried \subseteq Names
        BY DEF Init
  <2>3. conn \in BOOLEAN /\ playAll \in BOOLEAN
        BY DEF Init
  <2>4. /\ pageNo \in Nat \ {0}
        /\ page \in {"away", "loaded", "mounted", "gone"} /\ view \in {"list", "grid", "shut"}
        BY DEF Init
  <2> QED
      BY <1>1, <1>2, <2>1, <2>2, <2>3, <2>4 DEF TypeOK
<1>4. GridInv
      BY <1>1 DEF Init, GridInv, GridTyped, StartsHurried, PlayingIsPlayed, TornDown
<1>5. WireInv
      BY DEF Init, WireInv, OneConnection, TellingOver, LastWord
<1> QED
    BY <1>3, <1>4, <1>5 DEF PageInv

-------------------------------------------------------------------------------
(* Tiles and players *)

\* Stopping and starting tiles of a grid that is shown
LEMMA ChangeKeeps ==
    ASSUME GridInv, view # "shut", view' = view,
           NEW stop \in SUBSET Names, NEW start \in SUBSET Names, Change(stop, start)
    PROVE  GridInv'
<1> USE DEF GridInv
<1> DEFINE begun == start \ (playing \ stop)
<1>1. /\ playing' = (playing \ stop) \cup begun /\ players' = players \ stop
      /\ hurried' = hurried \cup {n \in stop : starting[n] > 0} /\ stray' = stray
      /\ starting' = [n \in Names |-> IF n \in begun THEN starting[n] + 1 ELSE starting[n]]
      /\ \A n \in begun : starting[n] < MaxStarts
      BY DEF Change
<1>2. starting \in [Names -> 0..MaxStarts] /\ MaxStarts \in Nat
      BY DEF GridTyped
<1>3. /\ starting' \in [Names -> 0..MaxStarts]
      /\ \A n \in begun : n \in Names /\ starting'[n] = starting[n] + 1
      /\ \A n \in Names \ begun : starting'[n] = starting[n]
      BY <1>1, <1>2
<1>4. GridTyped'
      BY <1>1, <1>3 DEF GridTyped
<1> HIDE DEF begun
<1>5. \A n \in begun : n \in playing => n \in stop
      BY DEF begun
<1>6. StartsHurried'
  <2> SUFFICES ASSUME NEW n \in Names, starting'[n] > 0,
                      n \in players' \/ n \notin playing' \/ starting'[n] > 1 \/ view' = "shut"
               PROVE  n \in hurried'
      BY DEF StartsHurried
  <2>1. CASE n \in begun
    <3>1. CASE starting[n] > 0
          BY <1>1, <1>5, <2>1, <3>1 DEF StartsHurried
    <3>2. CASE ~(starting[n] > 0)
      <4>1. ~(starting'[n] > 1) /\ n \in playing'
            BY <1>1, <1>2, <1>3, <2>1, <3>2
      <4>2. n \in players /\ n \notin playing
            BY <1>1, <1>5, <2>1, <4>1
      <4> QED
          BY <1>1, <4>2 DEF TornDown
    <3> QED
        BY <3>1, <3>2
  <2>2. CASE n \notin begun
        BY <1>1, <1>3, <2>2 DEF StartsHurried
  <2> QED
      BY <2>1, <2>2
<1>7. PlayingIsPlayed'
  <2> SUFFICES ASSUME NEW n \in playing' PROVE n \in players' \/ starting'[n] > 0
      BY DEF PlayingIsPlayed
  <2>1. CASE n \in begun
        BY <1>2, <1>3, <2>1
  <2>2. CASE n \notin begun
    <3>1. n \in playing /\ n \notin stop /\ n \in Names
          BY <1>1, <2>2 DEF GridTyped
    <3> QED
        BY <1>1, <1>3, <2>2, <3>1 DEF PlayingIsPlayed
  <2> QED
      BY <2>1, <2>2
<1>8. TornDown'
      BY <1>1 DEF TornDown
<1> QED
    BY <1>4, <1>6, <1>7, <1>8

\* The tiles of a page of the grid are of sessions in the table.
LEMMA TilesNamed ==
    ASSUME TypeOK, NEW r \in SUBSET Sessions, NEW p
    PROVE  TileNames(r, p) \subseteq Names
BY DEF TypeOK, TileNames, Tiles

\* Turning a page and following the table stop and start tiles.
LEMMA PageChangesKeep ==
    ASSUME PageInv, view' = view, NEW r \in SUBSET Sessions, NEW p, PageChanges(r, p)
    PROVE  GridInv'
<1>1. CASE view = "grid" /\ playAll
  <2>1. TileNames(r, p) \subseteq Names /\ players \subseteq Names
        BY TilesNamed DEF PageInv, TypeOK
  <2>2. Change(players \ TileNames(r, p), TileNames(r, p) \cap TileNames(rows, pageNo))
        BY <1>1 DEF PageChanges
  <2> QED
      BY <1>1, <2>1, <2>2, ChangeKeeps DEF PageInv
<1>2. CASE ~(view = "grid" /\ playAll)
      BY <1>2 DEF PageChanges, PageInv, GridInv, GridTyped, StartsHurried, PlayingIsPlayed, TornDown
<1> QED
    BY <1>1, <1>2

\* Leaving the grid destroys the players there are and hurries the starts.
LEMMA UnmountKeeps ==
    ASSUME GridInv, Unmount
    PROVE  GridInv'
<1> USE DEF GridInv
<1>1. /\ playing' = playing \ players /\ players' = {} /\ UNCHANGED <<starting, stray>>
      /\ hurried' = hurried \cup {n \in Names : starting[n] > 0}
      BY DEF Unmount, Torn
<1>2. GridTyped' /\ StartsHurried'
      BY <1>1 DEF GridTyped, StartsHurried
<1>3. PlayingIsPlayed' /\ TornDown'
      BY <1>1 DEF PlayingIsPlayed, TornDown
<1> QED
    BY <1>2, <1>3

\* A start returns, with a player or without.
LEMMA StartReturns ==
    ASSUME GridInv, NEW n \in Names, Played(n) \/ Fails(n)
    PROVE  GridInv'
<1> USE DEF GridInv
<1>1. /\ view' = view /\ starting[n] > 0 /\ starting \in [Names -> 0..MaxStarts]
      /\ starting' = [starting EXCEPT ![n] = starting[n] - 1]
      BY DEF Played, Fails, GridTyped
<1>2. /\ starting' \in [Names -> 0..MaxStarts] /\ starting'[n] = starting[n] - 1
      /\ \A m \in Names : m # n => starting'[m] = starting[m]
      BY <1>1
<1>3. CASE Played(n)
  <2>1. /\ players' = players \cup {n} /\ stray' = stray \cup (players \cap {n})
        /\ UNCHANGED <<playing, hurried>>
        BY <1>3 DEF Played
  <2>2. GridTyped' /\ PlayingIsPlayed'
        BY <1>2, <2>1 DEF GridTyped, PlayingIsPlayed
  <2>3. StartsHurried'
        BY <1>1, <1>2, <2>1 DEF StartsHurried
  <2>4. TornDown'
        BY <1>1, <2>1 DEF TornDown, StartsHurried
  <2> QED
      BY <2>2, <2>3, <2>4
<1>4. CASE Fails(n)
  <2>1. /\ playing' = playing \ {n} /\ players' = players \ {n} /\ stray' = stray
        /\ hurried' = hurried \cup {m \in {n} : starting[m] > 1}
        BY <1>4 DEF Fails, GivenUp
  <2>2. GridTyped' /\ PlayingIsPlayed'
        BY <1>2, <2>1 DEF GridTyped, PlayingIsPlayed
  <2>3. StartsHurried'
        BY <1>1, <1>2, <2>1 DEF StartsHurried
  <2>4. TornDown'
        BY <1>1, <2>1 DEF TornDown
  <2> QED
      BY <2>2, <2>3, <2>4
<1> QED
    BY <1>3, <1>4

-------------------------------------------------------------------------------
(* The table and the wire *)

Told == [kind : {"up", "stop"}, s : Sessions]

\* What the server and the table hold
TableTyped ==
    /\ sess \in [Sessions -> {"new", "open", "ended"} \cup Leaking]
    /\ name \in [Sessions -> Names] /\ telling \subseteq Sessions
    /\ wire \in Seq(Told) /\ Len(wire) <= MaxWire
    /\ conn \in BOOLEAN /\ page \in {"away", "loaded", "mounted", "gone"}
    /\ rows \subseteq Sessions /\ missed \subseteq Sessions

\* TypeOK, in the parts that steps write
LEMMA TypesSplit ==
    TypeOK <=> TableTyped /\ GridTyped /\ view \in {"list", "grid", "shut"}
                /\ playAll \in BOOLEAN /\ pageNo \in Nat \ {0}
BY DEF TypeOK, TableTyped, Told, GridTyped

\* The parts together are TypeOK.
LEMMA TypesJoined ==
    TableTyped' /\ GridTyped' /\ view' \in {"list", "grid", "shut"}
    /\ playAll' \in BOOLEAN /\ pageNo' \in Nat \ {0} => TypeOK'
BY DEF TypeOK, TableTyped, Told, GridTyped

\* A step that leaves server and table alone
LEMMA TableUntouched ==
    ASSUME PageInv, UNCHANGED <<server, table>>
    PROVE  TableTyped' /\ WireInv'
<1> USE DEF PageInv, server, table
<1>1. TableTyped'
      BY TypesSplit DEF TableTyped
<1>2. OneConnection' /\ TellingOver'
      BY DEF WireInv, OneConnection, TellingOver
<1>3. LastWord'
      BY DEF WireInv, LastWord
<1> QED
    BY <1>1, <1>2, <1>3 DEF WireInv

\* A step that leaves the grid alone
LEMMA GridUntouched ==
    ASSUME GridInv, UNCHANGED <<playing, starting, players, stray, hurried>>,
           view' = view \/ (view = "list" /\ view' = "grid")
    PROVE  GridInv'
<1>1. GridTyped' /\ PlayingIsPlayed'
      BY DEF GridInv, GridTyped, PlayingIsPlayed
<1>2. StartsHurried' /\ TornDown'
      BY DEF GridInv, StartsHurried, TornDown
<1> QED
    BY <1>1, <1>2 DEF GridInv

\* What the server sends is true when it is sent, and it is the last word: of
\* other sessions it may only close some without one.
LEMMA SendKeeps ==
    ASSUME PageInv, NEW kind \in {"up", "stop"}, NEW s \in Sessions, NEW unsaid \in SUBSET Sessions,
           Send(kind, s, unsaid),
           sess' \in [Sessions -> {"new", "open", "ended"} \cup Leaking],
           name' = name, telling' \subseteq Sessions, TellingOver',
           \A t \in Sessions : t # s => sess'[t] = sess[t] \/ sess'[t] \in Leaking,
           sess'[s] \notin Leaking => (kind = "up" <=> sess'[s] = "open")
    PROVE  PageInv'
<1> USE DEF PageInv, WireInv
<1> DEFINE e == [kind |-> kind, s |-> s]
<1>1. UNCHANGED <<conn, page, rows, view, playAll, pageNo, playing, starting, players, stray, hurried>>
      BY DEF Send, grid
<1>2. GridInv'
      BY <1>1, GridUntouched
<1>3. TableTyped
      BY TypesSplit
<1>4. CASE conn
  <2>1. /\ wire \in Seq(Told) /\ Len(wire) \in Nat /\ DOMAIN wire = 1..Len(wire)
        /\ Len(wire) < MaxWire /\ wire' = Append(wire, e) /\ missed' = missed \cup unsaid
        /\ e \in Told /\ e.kind = kind /\ e.s = s
        BY <1>3, <1>4, LenProperties DEF Send, TableTyped, Told
  <2> HIDE DEF e
  <2>2. /\ wire' \in Seq(Told) /\ Len(wire') = Len(wire) + 1 /\ DOMAIN wire' = 1..(Len(wire) + 1)
        /\ \A i \in 1..Len(wire) : wire'[i] = wire[i]
        /\ wire'[Len(wire) + 1] = e
        BY <2>1, AppendProperties, LenProperties
  <2>3. TableTyped'
        BY <1>1, <1>3, <2>1, <2>2 DEF TableTyped
  <2>4. OneConnection'
        BY <1>1, <1>4 DEF OneConnection
  <2>5. LastWord'
    <3> SUFFICES ASSUME page' \in {"loaded", "mounted"}, NEW t \in Sessions, sess'[t] \notin Leaking
                 PROVE  /\ \A i \in DOMAIN wire' :
                            wire'[i].s = t /\ (\A j \in DOMAIN wire' : wire'[j].s = t => j <= i) =>
                                (wire'[i].kind = "up" <=> sess'[t] = "open")
                        /\ t \notin missed' /\ (\A i \in DOMAIN wire' : wire'[i].s # t) =>
                               (t \in rows' <=> sess'[t] = "open")
        BY DEF LastWord
    <3>1. CASE t = s
      <4>1. ASSUME NEW i \in DOMAIN wire', \A j \in DOMAIN wire' : wire'[j].s = t => j <= i
            PROVE  i = Len(wire) + 1
            BY <2>1, <2>2, <3>1, <4>1
      <4> QED
          BY <2>1, <2>2, <3>1, <4>1
    <3>2. CASE t # s
      <4>1. sess'[t] = sess[t] /\ page \in {"loaded", "mounted"}
            BY <1>1, <3>2
      <4>2. ASSUME NEW i \in DOMAIN wire', wire'[i].s = t,
                   \A j \in DOMAIN wire' : wire'[j].s = t => j <= i
            PROVE  wire'[i].kind = "up" <=> sess'[t] = "open"
        <5>1. i \in DOMAIN wire /\ wire[i] = wire'[i]
              BY <2>1, <2>2, <3>2, <4>2
        <5>2. \A j \in DOMAIN wire : wire[j].s = t => j <= i
              BY <2>1, <2>2, <4>2
        <5> QED
            BY <4>1, <4>2, <5>1, <5>2 DEF LastWord
      <4>3. ASSUME t \notin missed', \A i \in DOMAIN wire' : wire'[i].s # t
            PROVE  t \in rows' <=> sess'[t] = "open"
        <5>1. t \notin missed /\ \A i \in DOMAIN wire : wire[i].s # t
              BY <2>1, <2>2, <4>3
        <5> QED
            BY <1>1, <4>1, <5>1 DEF LastWord
      <4> QED
          BY <4>2, <4>3
    <3> QED
        BY <3>1, <3>2
  <2> QED
      BY <1>1, <1>2, <2>3, <2>4, <2>5, TypesSplit, TypesJoined DEF GridInv
<1>5. CASE ~conn
  <2>1. wire' = wire /\ wire = <<>> /\ missed' = missed \cup unsaid \cup {s}
        BY <1>5 DEF Send, OneConnection
  <2>2. TableTyped'
        BY <1>1, <1>3, <2>1 DEF TableTyped
  <2>3. OneConnection'
        BY <1>1, <2>1 DEF OneConnection
  <2>4. LastWord'
        BY <1>1, <2>1 DEF LastWord
  <2> QED
      BY <1>1, <1>2, <2>2, <2>3, <2>4, TypesSplit, TypesJoined DEF GridInv
<1> QED
    BY <1>3, <1>4, <1>5 DEF TableTyped

\* What the server opens, closes, sweeps and announces
LEMMA ServerKeeps ==
    ASSUME PageInv, ServerNext
    PROVE  PageInv'
<1> USE DEF PageInv, WireInv
<1>1. /\ TableTyped /\ sess \in [Sessions -> {"new", "open", "ended"} \cup Leaking]
      /\ telling \subseteq Sessions
      BY TypesSplit DEF TableTyped
<1>2. ASSUME NEW s \in Sessions, Start(s) PROVE PageInv'
  <2>1. /\ sess[s] = "new" /\ Send("up", s, Superseded(s)) /\ UNCHANGED <<name, telling>>
        /\ sess' = [t \in Sessions |-> CASE t = s -> "open"
                                         [] t \in Superseded(s) -> "superseded"
                                         [] OTHER -> sess[t]]
        BY <1>2 DEF Start
  <2>2. Superseded(s) \in SUBSET Sessions /\ \A t \in Superseded(s) : sess[t] = "open"
        BY DEF Superseded, Open
  <2>3. /\ sess' \in [Sessions -> {"new", "open", "ended"} \cup Leaking]
        /\ sess'[s] = "open"
        /\ \A t \in Sessions : t # s => sess'[t] = sess[t] \/ sess'[t] = "superseded"
        BY <1>1, <2>1, <2>2 DEF Leaking
  <2>4. TellingOver'
        BY <1>1, <2>1, <2>3 DEF TellingOver
  <2> QED
      BY <1>1, <2>1, <2>2, <2>3, <2>4, SendKeeps DEF Leaking
<1>3. ASSUME NEW s \in Sessions, Report(s) PROVE PageInv'
  <2>1. /\ sess[s] \in {"open"} \cup Leaking /\ Send("up", s, {})
        /\ UNCHANGED <<sess, name, telling>>
        BY <1>3 DEF Report, server
  <2>2. TellingOver'
        BY <2>1 DEF TellingOver
  <2>3. /\ sess' \in [Sessions -> {"new", "open", "ended"} \cup Leaking]
        /\ telling' \subseteq Sessions
        /\ \A t \in Sessions : t # s => sess'[t] = sess[t]
        /\ sess'[s] \notin Leaking => sess'[s] = "open"
        BY <1>1, <2>1, <2>2 DEF Leaking
  <2>4. {} \in SUBSET Sessions
        OBVIOUS
  <2> QED
      BY <2>1, <2>2, <2>3, <2>4, SendKeeps
<1>4. ASSUME NEW s \in Sessions, Unpublish(s) PROVE PageInv'
  <2>1. /\ sess' = [sess EXCEPT ![s] = "ended"] /\ Send("stop", s, {})
        /\ UNCHANGED <<name, telling>>
        BY <1>4 DEF Unpublish
  <2>2. TellingOver'
        BY <1>1, <2>1 DEF TellingOver
  <2>3. /\ sess' \in [Sessions -> {"new", "open", "ended"} \cup Leaking]
        /\ telling' \subseteq Sessions
        /\ \A t \in Sessions : t # s => sess'[t] = sess[t]
        /\ sess'[s] # "open"
        BY <1>1, <2>1, <2>2 DEF Leaking
  <2>4. {} \in SUBSET Sessions
        OBVIOUS
  <2> QED
      BY <2>1, <2>2, <2>3, <2>4, SendKeeps
<1>5. ASSUME NEW s \in Sessions, SweepCloses(s) PROVE PageInv'
  <2>1. /\ sess' = [sess EXCEPT ![s] = "swept"] /\ telling' = telling \cup {s}
        /\ UNCHANGED <<name, wire, conn, page, rows, missed, view, playAll, pageNo, playing,
                       starting, players, stray, hurried>>
        BY <1>5 DEF SweepCloses, table, grid
  <2>2. TableTyped'
        BY <1>1, <2>1 DEF TableTyped, Leaking
  <2>3. TellingOver' /\ OneConnection'
        BY <1>1, <2>1 DEF TellingOver, OneConnection
  <2>4. LastWord'
    <3>1. \A t \in Sessions : sess'[t] = sess[t] \/ sess'[t] \in Leaking
          BY <1>1, <2>1 DEF Leaking
    <3> QED
        BY <2>1, <3>1 DEF LastWord
  <2>5. GridInv'
        BY <2>1, GridUntouched
  <2> QED
      BY <2>1, <2>2, <2>3, <2>4, <2>5, TypesSplit, TypesJoined DEF GridInv
<1>6. ASSUME NEW s \in Sessions, SweepTells(s) PROVE PageInv'
  <2>1. /\ s \in telling /\ telling' = telling \ {s} /\ Send("stop", s, {})
        /\ UNCHANGED <<sess, name>>
        BY <1>6 DEF SweepTells
  <2>2. TellingOver' /\ sess[s] # "open"
        BY <2>1 DEF TellingOver
  <2>3. /\ sess' \in [Sessions -> {"new", "open", "ended"} \cup Leaking]
        /\ telling' \subseteq Sessions
        /\ \A t \in Sessions : t # s => sess'[t] = sess[t]
        /\ sess'[s] # "open"
        BY <1>1, <2>1, <2>2 DEF Leaking
  <2>4. {} \in SUBSET Sessions
        OBVIOUS
  <2> QED
      BY <2>1, <2>2, <2>3, <2>4, SendKeeps
<1> QED
    BY <1>2, <1>3, <1>4, <1>5, <1>6 DEF ServerNext

\* The page is loaded, navigated to or mounted, and connected.
LEMMA OpeningKeeps ==
    ASSUME PageInv, Load \/ Navigate \/ Mount \/ Connect
    PROVE  PageInv'
<1> USE DEF PageInv, WireInv, server, grid
<1>1. /\ UNCHANGED <<sess, name, telling, wire, view, playAll, pageNo, playing, starting, players,
                     stray, hurried>>
      /\ TableTyped
      BY TypesSplit DEF Load, Navigate, Mount, Connect
<1>2. GridInv'
      BY <1>1, GridUntouched
<1>3. TableTyped'
      BY <1>1 DEF TableTyped, Load, Navigate, Mount, Connect, Open
<1>4. TellingOver' /\ OneConnection'
      BY <1>1 DEF TellingOver, OneConnection, Load, Navigate, Mount, Connect
<1>5. LastWord'
  <2>1. CASE Load
    <3>1. wire = <<>> /\ rows' = Open
          BY <2>1 DEF Load, OneConnection
    <3> QED
        BY <1>1, <3>1 DEF LastWord, Open
  <2>2. CASE Navigate
    <3>1. wire = <<>> /\ rows' = {} /\ missed' = Open
          BY <2>2 DEF Navigate, OneConnection
    <3> QED
        BY <1>1, <3>1 DEF LastWord, Open
  <2>3. CASE Mount \/ Connect
        BY <1>1, <2>3 DEF LastWord, Mount, Connect
  <2> QED
      BY <2>1, <2>2, <2>3
<1> QED
    BY <1>1, <1>2, <1>3, <1>4, <1>5, TypesSplit, TypesJoined DEF GridInv

\* What was on its way is missed.
LEMMA DisconnectKeeps ==
    ASSUME PageInv, Disconnect
    PROVE  PageInv'
<1> USE DEF PageInv, WireInv, server, grid
<1>1. /\ UNCHANGED <<sess, name, telling, page, rows, view, playAll, pageNo, playing, starting,
                     players, stray, hurried>>
      /\ conn' = FALSE /\ wire' = <<>> /\ missed' = missed \cup {wire[i].s : i \in DOMAIN wire}
      /\ TableTyped
      BY TypesSplit DEF Disconnect
<1>2. GridInv'
      BY <1>1, GridUntouched
<1>3. missed' \subseteq Sessions
  <2>1. \A i \in DOMAIN wire : wire[i] \in Told
        BY <1>1, ElementOfSeq, LenProperties DEF TableTyped
  <2> QED
      BY <1>1, <2>1 DEF TableTyped, Told
<1>4. wire' \in Seq(Told) /\ Len(wire') <= MaxWire
      BY <1>1
<1>5. TableTyped'
      BY <1>1, <1>3, <1>4 DEF TableTyped
<1>6. TellingOver' /\ OneConnection'
      BY <1>1 DEF TellingOver, OneConnection
<1>7. LastWord'
  <2> SUFFICES ASSUME page \in {"loaded", "mounted"}, NEW t \in Sessions, sess[t] \notin Leaking,
                      t \notin missed'
               PROVE  t \in rows <=> sess[t] = "open"
      BY <1>1 DEF LastWord
  <2>1. t \notin missed /\ \A i \in DOMAIN wire : wire[i].s # t
        BY <1>1
  <2> QED
      BY <2>1 DEF LastWord
<1> QED
    BY <1>1, <1>2, <1>5, <1>6, <1>7, TypesSplit, TypesJoined DEF GridInv

\* An event is applied: if it was the last about its session, the row is right.
LEMMA ReceiveKeeps ==
    ASSUME PageInv, Receive
    PROVE  PageInv'
<1> USE DEF PageInv, WireInv
<1> DEFINE e == Head(wire)
<1>1. /\ wire # <<>> /\ wire' = Tail(wire) /\ rows' = Applied(e) /\ missed' = missed \ {e.s}
      /\ PageChanges(rows', pageNo)
      /\ UNCHANGED <<sess, name, telling, conn, page, view, playAll, pageNo>>
      /\ TableTyped
      BY TypesSplit DEF Receive, server
<1>2. /\ wire \in Seq(Told) /\ Len(wire) \in Nat \ {0} /\ DOMAIN wire = 1..Len(wire) /\ e = wire[1]
      BY <1>1, EmptySeq, LenProperties DEF TableTyped
<1>3. /\ wire' \in Seq(Told) /\ Len(wire') = Len(wire) - 1 /\ DOMAIN wire' = 1..(Len(wire) - 1)
      /\ \A i \in 1..(Len(wire) - 1) : wire'[i] = wire[i + 1]
      BY <1>1, <1>2, HeadTailProperties, LenProperties
<1>4. e.s \in Sessions
  <2>1. wire[1] \in Told
        BY <1>2, ElementOfSeq
  <2> QED
      BY <1>2, <2>1 DEF Told
<1>5. PICK r \in SUBSET Sessions : r = rows'
      BY <1>1, <1>4 DEF Applied, TableTyped
<1>6. GridInv'
      BY <1>1, <1>5, PageChangesKeep
<1>7. TableTyped'
  <2>1. Len(wire) <= MaxWire /\ missed \subseteq Sessions
        BY <1>1 DEF TableTyped
  <2>2. Len(wire') <= MaxWire
        BY <1>2, <1>3, <2>1
  <2>3. rows' \subseteq Sessions /\ missed' \subseteq Sessions
        BY <1>1, <1>5, <2>1
  <2> QED
      BY <1>1, <1>3, <2>2, <2>3 DEF TableTyped
<1>8. TellingOver' /\ OneConnection'
      BY <1>1 DEF TellingOver, OneConnection
<1>9. LastWord'
  <2> SUFFICES ASSUME page' \in {"loaded", "mounted"}, NEW t \in Sessions, sess'[t] \notin Leaking
               PROVE  /\ \A i \in DOMAIN wire' :
                          wire'[i].s = t /\ (\A j \in DOMAIN wire' : wire'[j].s = t => j <= i) =>
                              (wire'[i].kind = "up" <=> sess'[t] = "open")
                      /\ t \notin missed' /\ (\A i \in DOMAIN wire' : wire'[i].s # t) =>
                             (t \in rows' <=> sess'[t] = "open")
      BY DEF LastWord
  <2>1. page \in {"loaded", "mounted"} /\ sess[t] \notin Leaking /\ sess'[t] = sess[t]
        BY <1>1
  <2>2. ASSUME NEW i \in DOMAIN wire', wire'[i].s = t,
               \A j \in DOMAIN wire' : wire'[j].s = t => j <= i
        PROVE  wire'[i].kind = "up" <=> sess'[t] = "open"
    <3>1. i + 1 \in DOMAIN wire /\ wire[i + 1] = wire'[i]
          BY <1>2, <1>3
    <3>2. ASSUME NEW j \in DOMAIN wire, wire[j].s = t PROVE j <= i + 1
      <4>1. CASE j = 1
            BY <1>3, <4>1
      <4>2. CASE j # 1
        <5>1. j - 1 \in DOMAIN wire' /\ wire'[j - 1] = wire[j]
              BY <1>2, <1>3, <4>2
        <5> QED
            BY <1>2, <1>3, <2>2, <3>2, <5>1
      <4> QED
          BY <4>1, <4>2
    <3> QED
        BY <2>1, <2>2, <3>1, <3>2 DEF LastWord
  <2>3. ASSUME t \notin missed', \A i \in DOMAIN wire' : wire'[i].s # t
        PROVE  t \in rows' <=> sess'[t] = "open"
    <3>1. \A j \in DOMAIN wire : wire[j].s = t => j = 1
      <4>1. \A j \in DOMAIN wire : j # 1 => j - 1 \in DOMAIN wire' /\ wire'[j - 1] = wire[j]
            BY <1>2, <1>3
      <4> QED
          BY <2>3, <4>1
    <3>2. CASE e.s = t
      <4>1. 1 \in DOMAIN wire /\ \A j \in DOMAIN wire : wire[j].s = t => j <= 1
            BY <1>2, <3>1
      <4>2. e.kind = "up" <=> sess[t] = "open"
            BY <1>2, <2>1, <3>2, <4>1 DEF LastWord
      <4> QED
          BY <1>1, <2>1, <3>2, <4>2 DEF Applied
    <3>3. CASE e.s # t
      <4>1. t \notin missed /\ \A j \in DOMAIN wire : wire[j].s # t
            BY <1>1, <1>2, <2>3, <3>1, <3>3
      <4>2. t \in rows <=> sess[t] = "open"
            BY <2>1, <4>1 DEF LastWord
      <4>3. t \in rows' <=> t \in rows
            BY <1>1, <3>3 DEF Applied
      <4> QED
          BY <2>1, <4>2, <4>3
    <3> QED
        BY <3>2, <3>3
  <2> QED
      BY <2>2, <2>3
<1> QED
    BY <1>1, <1>6, <1>7, <1>8, <1>9, TypesSplit, TypesJoined DEF GridInv

\* Nothing of the page is left but the starts under way.
LEMMA LeavePageKeeps ==
    ASSUME PageInv, LeavePage
    PROVE  PageInv'
<1> USE DEF PageInv, WireInv
<1>1. /\ page' = "gone" /\ conn' = FALSE /\ wire' = <<>> /\ rows' = {} /\ missed' = {}
      /\ UNCHANGED <<sess, name, telling, playAll, pageNo>>
      /\ TableTyped
      BY TypesSplit DEF LeavePage, server
<1>2. GridInv'
  <2>1. CASE view = "grid"
        BY <2>1, UnmountKeeps DEF LeavePage
  <2>2. CASE view # "grid"
        BY <2>2, GridUntouched DEF LeavePage
  <2> QED
      BY <2>1, <2>2
<1>3. wire' \in Seq(Told) /\ Len(wire') <= MaxWire
      BY <1>1
<1>4. TableTyped'
      BY <1>1, <1>3 DEF TableTyped
<1>5. TellingOver' /\ OneConnection' /\ LastWord'
      BY <1>1 DEF TellingOver, OneConnection, LastWord
<1>6. view' \in {"list", "grid", "shut"}
      BY TypesSplit DEF LeavePage
<1> QED
    BY <1>1, <1>2, <1>4, <1>5, <1>6, TypesSplit, TypesJoined DEF GridInv

\* What a viewer does with the grid, and a start that returns
LEMMA GridKeeps ==
    ASSUME PageInv, GridNext
    PROVE  PageInv'
<1> USE DEF PageInv
<1>1. TypeOK
      OBVIOUS
<1>2. ASSUME GridInv', UNCHANGED <<server, table>>, view' \in {"list", "grid", "shut"},
             playAll' \in BOOLEAN, pageNo' \in Nat \ {0}
      PROVE  PageInv'
      BY <1>2, TableUntouched, TypesJoined DEF GridInv
<1>3. view \in {"list", "grid", "shut"} /\ playAll \in BOOLEAN /\ pageNo \in Nat \ {0}
      BY <1>1 DEF TypeOK
<1>4. CASE ShowGrid
      BY <1>2, <1>3, <1>4, GridUntouched DEF ShowGrid
<1>5. CASE ShowList
      BY <1>2, <1>3, <1>5, UnmountKeeps DEF ShowList
<1>6. CASE TogglePlayAll
  <2>1. /\ view = "grid" /\ view' = view /\ UNCHANGED <<server, table, pageNo>>
        /\ playAll' = ~playAll
        BY <1>6 DEF TogglePlayAll
  <2>2. /\ players \in SUBSET Names /\ {} \in SUBSET Names
        /\ TileNames(rows, pageNo) \in SUBSET Names
        BY <1>1, TilesNamed DEF TypeOK
  <2>3. Change(players, {}) \/ Change({}, TileNames(rows, pageNo))
        BY <1>6 DEF TogglePlayAll
  <2>4. GridInv'
        BY <2>1, <2>2, <2>3, ChangeKeeps
  <2>5. playAll' \in BOOLEAN
        BY <2>1
  <2> QED
      BY <1>2, <1>3, <2>1, <2>4, <2>5
<1>7. ASSUME NEW p \in 1..(Cardinality(Sessions) + 1), TurnPage(p) PROVE PageInv'
  <2>1. /\ view' = view /\ UNCHANGED <<server, table, playAll>> /\ pageNo' = p
        /\ PageChanges(rows, p)
        BY <1>7 DEF TurnPage
  <2>2. rows \in SUBSET Sessions /\ p \in Nat \ {0}
        BY <1>1 DEF TypeOK
  <2>3. GridInv'
        BY <2>1, <2>2, PageChangesKeep
  <2> QED
      BY <1>2, <1>3, <2>1, <2>2, <2>3
<1>8. ASSUME NEW n \in Names, Enter(n) \/ LeaveTile(n) PROVE PageInv'
  <2>1. /\ view = "grid" /\ view' = view /\ UNCHANGED <<server, table, playAll, pageNo>>
        /\ Change({}, {n}) \/ Change({n}, {})
        BY <1>8 DEF Enter, LeaveTile, OnTile
  <2>2. {} \in SUBSET Names /\ {n} \in SUBSET Names
        OBVIOUS
  <2>3. GridInv'
        BY <2>1, <2>2, ChangeKeeps
  <2> QED
      BY <1>2, <1>3, <2>1, <2>3
<1>9. ASSUME NEW n \in Names, Played(n) \/ Fails(n) PROVE PageInv'
  <2>1. view' = view /\ UNCHANGED <<server, table, playAll, pageNo>>
        BY <1>9 DEF Played, Fails
  <2>2. GridInv'
        BY <1>9, StartReturns
  <2> QED
      BY <1>2, <1>3, <2>1, <2>2
<1> QED
    BY <1>4, <1>5, <1>6, <1>7, <1>8, <1>9 DEF GridNext

-------------------------------------------------------------------------------
(* The theorems *)

\* Every step keeps the invariant.
LEMMA NextKeeps == PageInv /\ [Next]_vars => PageInv'
<1> SUFFICES ASSUME PageInv, [Next]_vars PROVE PageInv'
    OBVIOUS
<1>1. CASE PageNext
      BY <1>1, OpeningKeeps, DisconnectKeeps, ReceiveKeeps, LeavePageKeeps DEF PageNext
<1>2. CASE UNCHANGED vars
  <2>1. UNCHANGED <<server, table>> /\ UNCHANGED grid
        BY <1>2 DEF vars
  <2>2. GridInv'
        BY <2>1, GridUntouched DEF PageInv, grid
  <2>3. view' \in {"list", "grid", "shut"} /\ playAll' \in BOOLEAN /\ pageNo' \in Nat \ {0}
        BY <2>1 DEF PageInv, TypeOK, grid
  <2> QED
      BY <2>1, <2>2, <2>3, TableUntouched, TypesJoined DEF PageInv, GridInv
<1> QED
    BY <1>1, <1>2, ServerKeeps, GridKeeps DEF Next

\* The invariant holds in every state: the types, what the grid still owes its
\* tiles, and what the wire still owes the table.
THEOREM PageSafe == Spec => []PageInv
<1> QED
    BY InitHolds, NextKeeps, PTL DEF Spec

\* The table is right about every session whose last event arrived.
THEOREM PanelKept == Spec => []PanelTrue
<1>1. PageInv => PanelTrue
  <2> SUFFICES ASSUME PageInv, page = "mounted", wire = <<>>, NEW s \in Sessions \ missed,
                      sess[s] \notin Leaking
               PROVE  s \in rows <=> sess[s] = "open"
      BY DEF PanelTrue
  <2>1. \A i \in DOMAIN wire : wire[i].s # s
        OBVIOUS
  <2> QED
      BY <2>1 DEF PageInv, WireInv, LastWord
<1> QED
    BY <1>1, PageSafe, PTL

\* A tile that claims to play has a player or a start under way.
THEOREM PlayingPlays == Spec => []PlayingIsPlayed
<1>1. PageInv => PlayingIsPlayed
      BY DEF PageInv, GridInv
<1> QED
    BY <1>1, PageSafe, PTL

\* Only a stop that met a start under way leaves a player without its tile.
THEOREM PlayersTornDown == Spec => []TornDown
<1>1. PageInv => TornDown
      BY DEF PageInv, GridInv
<1> QED
    BY <1>1, PageSafe, PTL

-------------------------------------------------------------------------------
(***************************************************************************)
(* EventBook, for any sets of events, keys and groups: a viewer is shown   *)
(* an event only as the last request asked, and an event is found under    *)
(* its key.                                                                *)
(***************************************************************************)

\* No two events have one key, and an event that is there has one.
SlugsUnique ==
    /\ \A e \in There : event[e].slug \in Keys
    /\ \A e, f \in There : event[e].slug = event[f].slug => e = f

\* An event is no wider than asked: its visibility is the one asked for and its
\* groups are among those asked for.
NoWider ==
    \A e \in There : event[e].vis = asked[e].vis /\ ScopeOf(e) \subseteq asked[e].groups

BookInv == BookTypeOK /\ SlugsUnique /\ NoWider

USE EventBookAssumption

\* At first there are no events.
LEMMA BookInitHolds == BookInit => BookInv
  BY DEF BookInit, BookInv, BookTypeOK, SlugsUnique, NoWider, There, NoEvent, EventRows,
     Visibilities, Audiences, Nobody

-------------------------------------------------------------------------------
(* The restriction and the visibility of one event are written together;   *)
(* the rest of the book is as it was.                                      *)

\* What setEventGroups leaves behind is within what it was given, touches no
\* other event, and names only groups there are, whether it failed or not.
LEMMA ScopedWithin ==
    ASSUME BookInv, NEW e \in Events, NEW gs \in SUBSET Groups
    PROVE  /\ Scoped(e, gs) \subseteq (There \cup {e}) \X groups
           /\ \A g \in Groups : <<e, g>> \in Scoped(e, gs) => g \in gs
           /\ \A f \in Events, g \in Groups :
                 f # e => (<<f, g>> \in Scoped(e, gs) <=> <<f, g>> \in scope)
<1>1. scope \subseteq There \X groups /\ groups \subseteq Groups
      BY DEF BookInv, BookTypeOK
<1>2. QED
      BY <1>1 DEF Scoped

\* Rewriting the row of one event with a key no other event has, and its
\* restriction by setEventGroups or not at all, keeps the invariant.
LEMMA RowKeeps ==
    ASSUME BookInv, NEW e \in Events, NEW row \in EventRows, NEW gs \in SUBSET Groups,
           row.st = "there", row.slug \in Keys, KeyFree(row.slug, e),
           event' = [event EXCEPT ![e] = row],
           \/ scope' = Scoped(e, gs)
           \/ scope' = scope /\ ScopeOf(e) \subseteq gs /\ e \in There,
           asked' = [asked EXCEPT ![e] = [vis |-> row.vis, groups |-> gs]],
           alias' \in [Keys -> There \cup {e, None}],
           UNCHANGED groups
    PROVE  BookInv'
<1>1. There' = There \cup {e}
      BY DEF There, BookInv, BookTypeOK
<1>2. scope' \subseteq There' \X groups'
  <2>1. CASE scope' = Scoped(e, gs)
        BY <2>1, <1>1, ScopedWithin
  <2>2. CASE scope' = scope
        BY <2>2, <1>1 DEF BookInv, BookTypeOK
  <2> QED
      BY <2>1, <2>2
<1>3. [vis |-> row.vis, groups |-> gs] \in Audiences
      BY DEF Audiences, EventRows
<1>4. BookTypeOK'
      BY <1>1, <1>2, <1>3 DEF BookInv, BookTypeOK
<1>5. \A f \in There' : f # e => f \in There /\ event'[f] = event[f]
      BY <1>1 DEF BookInv, BookTypeOK
<1>6. event'[e] = row
      BY DEF BookInv, BookTypeOK
<1>7. SlugsUnique'
  <2>1. \A f \in There' : event'[f].slug \in Keys
        BY <1>5, <1>6 DEF BookInv, SlugsUnique
  <2>2. \A f \in There : event[f].slug = row.slug => f = e
        BY DEF KeyFree, HasSlug
  <2>3. ASSUME NEW f \in There', NEW h \in There', event'[f].slug = event'[h].slug
        PROVE  f = h
        BY <1>5, <1>6, <2>2, <2>3 DEF BookInv, SlugsUnique
  <2> QED
      BY <2>1, <2>3 DEF SlugsUnique
<1>8. NoWider'
  <2> SUFFICES ASSUME NEW f \in There'
               PROVE  event'[f].vis = asked'[f].vis /\ ScopeOf(f)' \subseteq asked'[f].groups
      BY DEF NoWider
  <2>1. CASE f = e
    <3>1. asked'[e] = [vis |-> row.vis, groups |-> gs]
          BY DEF BookInv, BookTypeOK
    <3>2. ScopeOf(e)' \subseteq gs
          BY ScopedWithin DEF ScopeOf
    <3> QED
        BY <2>1, <3>1, <3>2, <1>6
  <2>2. CASE f # e
    <3>1. asked'[f] = asked[f] /\ f \in Events
          BY <2>2 DEF BookInv, BookTypeOK, There
    <3>2. ScopeOf(f)' = ScopeOf(f)
          BY <2>2, <3>1, ScopedWithin DEF ScopeOf
    <3> QED
        BY <2>2, <3>1, <3>2, <1>5 DEF BookInv, NoWider
  <2> QED
      BY <2>1, <2>2
<1>9. QED
      BY <1>4, <1>7, <1>8 DEF BookInv

-------------------------------------------------------------------------------
(* The actions *)

\* Also where a group of the request is gone.
LEMMA CreatingKeeps ==
    ASSUME BookInv, NEW e \in Events, NEW k \in Keys, NEW aud \in Audiences,
           NEW open \in BOOLEAN,
           CreateEvent(e, k, aud, open) \/ CreateEventBreaks(e, k, aud, open)
    PROVE  BookInv'
<1> DEFINE row == [st |-> "there", slug |-> k, vis |-> aud.vis, open |-> open]
<1>1. row \in EventRows /\ row.st = "there" /\ row.slug = k /\ row.vis = aud.vis
      BY DEF EventRows, Audiences
<1>2. /\ event' = [event EXCEPT ![e] = row]
      /\ scope' = Scoped(e, aud.groups)
      /\ asked' = [asked EXCEPT ![e] = aud]
      /\ KeyFree(k, e) /\ groups' = groups
      BY DEF CreateEvent, CreateEventBreaks
<1>3. aud = [vis |-> row.vis, groups |-> aud.groups] /\ aud.groups \in SUBSET Groups
      BY DEF Audiences
<1>5. asked' = [asked EXCEPT ![e] = [vis |-> row.vis, groups |-> aud.groups]]
      BY <1>2, <1>3
<1>4. alias' \in [Keys -> There \cup {e, None}]
      BY DEF CreateEvent, CreateEventBreaks, WithoutAlias, BookInv, BookTypeOK
<1> HIDE DEF row
<1>6. QED
      BY <1>1, <1>2, <1>3, <1>4, <1>5, RowKeeps

\* The key an event gives up leads to it, in a request that is refused as well.
LEMMA AliasesTyped ==
    ASSUME BookInv, NEW e \in There, NEW p \in Patches
    PROVE  AliasesAfter(e, p) \in [Keys -> There \cup {None}]
  BY DEF BookInv, BookTypeOK, SlugsUnique, AliasesAfter

LEMMA UpdatingKeeps ==
    ASSUME BookInv, NEW e \in Events, NEW p \in Patches, UpdateEvent(e, p)
    PROVE  BookInv'
<1> DEFINE row == Patched(e, p)
           gs == Given(p.groups, asked[e].groups)
<1>1. e \in There /\ event[e] \in EventRows /\ event[e].slug \in Keys /\ asked[e] \in Audiences
      BY DEF UpdateEvent, BookInv, BookTypeOK, SlugsUnique
<1>2. Given(p.slug, event[e].slug) \in Keys /\ Given(p.vis, event[e].vis) \in Visibilities
      BY <1>1 DEF Given, Patches, EventRows
<1>3. /\ row \in EventRows /\ row.st = "there" /\ row.slug = Given(p.slug, event[e].slug)
      /\ row.vis = Given(p.vis, event[e].vis)
      BY <1>1, <1>2 DEF Patched, EventRows, There, Patches
<1>4. gs \in SUBSET Groups
  <2>1. p.groups \in (SUBSET Groups) \cup {None}
        BY DEF Patches
  <2>2. asked[e].groups \in SUBSET Groups
        BY <1>1 DEF Audiences
  <2> QED
      BY <2>1, <2>2 DEF Given
<1>5. KeyFree(row.slug, e)
  <2>1. CASE Renames(e, p)
        BY <2>1, <1>3 DEF UpdateEvent, AcceptsSlug, Renames, Given
  <2>2. CASE ~Renames(e, p)
        BY <2>2, <1>1, <1>3 DEF Renames, Given, KeyFree, HasSlug, BookInv, SlugsUnique
  <2> QED
      BY <2>1, <2>2
<1>6. event' = [event EXCEPT ![e] = row] /\ groups' = groups
      BY DEF UpdateEvent
<1>10. asked' = [asked EXCEPT ![e] = [vis |-> row.vis, groups |-> gs]]
  <2>1. asked' = [asked EXCEPT ![e] = [vis |-> Given(p.vis, event[e].vis), groups |-> gs]]
        BY DEF UpdateEvent
  <2> QED
      BY <2>1, <1>3
<1>7. \/ scope' = Scoped(e, gs)
      \/ scope' = scope /\ ScopeOf(e) \subseteq gs /\ e \in There
  <2>1. CASE p.groups = None
    <3>1. scope' = scope /\ gs = asked[e].groups
          BY <2>1 DEF UpdateEvent, Given
    <3> QED
        BY <3>1, <1>1 DEF BookInv, NoWider
  <2>2. CASE p.groups # None
    <3>1. scope' = Scoped(e, p.groups) /\ gs = p.groups
          BY <2>2 DEF UpdateEvent, Given
    <3> QED
        BY <3>1
  <2> QED
      BY <2>1, <2>2
<1>8. alias' \in [Keys -> There \cup {e, None}]
      BY <1>1, AliasesTyped DEF UpdateEvent
<1> HIDE DEF row, gs
<1>9. QED
      BY <1>2, <1>3, <1>4, <1>5, <1>6, <1>10, <1>7, <1>8, RowKeeps

LEMMA RefusalKeeps ==
    ASSUME BookInv, NEW e \in Events, NEW p \in Patches, UpdateEventRefused(e, p)
    PROVE  BookInv'
  BY AliasesTyped DEF UpdateEventRefused, BookInv, BookTypeOK, SlugsUnique, NoWider, There, ScopeOf

\* What goes takes along the rows that name it.
LEMMA DeletingKeeps ==
    ASSUME BookInv,
           (\E e \in Events : DeleteEvent(e)) \/ (\E g \in Groups : DeleteGroup(g))
    PROVE  BookInv'
<1>1. ASSUME NEW e \in Events, DeleteEvent(e) PROVE BookInv'
  <2>1. There' = There \ {e}
        BY <1>1 DEF DeleteEvent, There, NoEvent, BookInv, BookTypeOK
  <2>2. \A f \in There' : event'[f] = event[f] /\ asked'[f] = asked[f]
        BY <1>1, <2>1 DEF DeleteEvent, BookInv, BookTypeOK
  <2>3. scope' \subseteq There' \X groups'
        BY <1>1, <2>1 DEF DeleteEvent, BookInv, BookTypeOK
  <2>4. alias' \in [Keys -> There' \cup {None}]
        BY <1>1, <2>1 DEF DeleteEvent, BookInv, BookTypeOK
  <2>5. NoEvent("gone") \in EventRows /\ Nobody \in Audiences
        BY DEF NoEvent, EventRows, Visibilities, Nobody, Audiences
  <2>6. BookTypeOK'
        BY <1>1, <2>3, <2>4, <2>5 DEF DeleteEvent, BookInv, BookTypeOK
  <2>7. \A f \in Events : ScopeOf(f)' \subseteq ScopeOf(f)
        BY <1>1 DEF DeleteEvent, ScopeOf
  <2>8. SlugsUnique' /\ NoWider'
        BY <2>1, <2>2, <2>7 DEF BookInv, SlugsUnique, NoWider, There
  <2> QED
      BY <2>6, <2>8 DEF BookInv
<1>2. ASSUME NEW g \in Groups, DeleteGroup(g) PROVE BookInv'
  <2>1. There' = There /\ \A f \in Events : ScopeOf(f)' \subseteq ScopeOf(f)
        BY <1>2 DEF DeleteGroup, There, ScopeOf
  <2>2. scope' \subseteq There' \X groups'
        BY <1>2, <2>1 DEF DeleteGroup, BookInv, BookTypeOK, There
  <2>3. BookTypeOK'
        BY <1>2, <2>1, <2>2 DEF DeleteGroup, BookInv, BookTypeOK
  <2>4. SlugsUnique' /\ NoWider'
        BY <1>2, <2>1 DEF DeleteGroup, BookInv, SlugsUnique, NoWider, There
  <2> QED
      BY <2>3, <2>4 DEF BookInv
<1>3. QED
      BY <1>1, <1>2

LEMMA BookNextKeeps == BookInv /\ [BookNext]_bookVars => BookInv'
<1> SUFFICES ASSUME BookInv, [BookNext]_bookVars PROVE BookInv'
    OBVIOUS
<1>1. CASE UNCHANGED bookVars
      BY <1>1 DEF bookVars, BookInv, BookTypeOK, SlugsUnique, NoWider, There, ScopeOf
<1>2. CASE BookNext
      BY <1>2, CreatingKeeps, UpdatingKeeps, RefusalKeeps, DeletingKeeps DEF BookNext
<1>3. QED
      BY <1>1, <1>2

-------------------------------------------------------------------------------
(* Theorems *)

\* The invariant: keys are unique and no event is shown wider than asked, after
\* any sequence of requests and failures.
THEOREM BookSafe == BookSpec => []BookInv
<1>1. QED
      BY BookInitHolds, BookNextKeeps, PTL DEF BookSpec

\* Who may view an event is among those it was last asked for.
LEMMA ViewIsAsked ==
    ASSUME BookInv, NEW v \in Viewers, NEW e \in There, CanView(v, e)
    PROVE  MayHaveSeen(v, asked[e])
  BY DEF BookInv, NoWider, CanView, MayHaveSeen

\* What the guide endpoint answers for a key is nothing or an open event that
\* the viewer may view.
LEMMA GuideShows ==
    ASSUME NEW v \in Viewers, NEW k
    PROVE  Guide(v, k).event # None =>
               /\ Guide(v, k).event \in There
               /\ CanView(v, Guide(v, k).event)
<1> DEFINE row == {e \in LeadsTo(k) : event[e].open}
           e0 == CHOOSE e \in row : TRUE
<1>1. row \subseteq There
      BY DEF LeadsTo, HasSlug
<1>2. CASE row = {}
      BY <1>2 DEF Guide
<1>3. CASE row # {}
  <2>1. e0 \in row
        BY <1>3
  <2>2. Guide(v, k).event = IF ~CanView(v, e0) THEN None ELSE e0
        BY <1>3 DEF Guide
  <2> QED
      BY <2>1, <2>2, <1>1
<1>4. QED
      BY <1>2, <1>3

\* The guide endpoint finds an open event under its own key.
LEMMA GuideFinds ==
    ASSUME BookInv, NEW v \in Viewers, NEW e \in There, event[e].open, CanView(v, e)
    PROVE  Guide(v, event[e].slug) = [status |-> "ok", event |-> e, to |-> None]
<1> DEFINE k == event[e].slug
           row == {f \in LeadsTo(k) : event[f].open}
<1>1. HasSlug(k) = {e}
      BY DEF HasSlug, BookInv, SlugsUnique
<1>2. LeadsTo(k) = {e}
      BY <1>1 DEF LeadsTo
<1>3. row = {e}
      BY <1>2
<1>4. (CHOOSE f \in row : TRUE) = e
      BY <1>3
<1>5. QED
      BY <1>3, <1>4 DEF Guide

\* SeenAsAsked for all instances: a viewer is shown an event, in a list or by
\* any key, only as the last request that was carried out for it asked.
THEOREM AskedHolds == BookSpec => []SeenAsAsked
<1>1. ASSUME BookInv PROVE SeenAsAsked
  <2> SUFFICES ASSUME NEW v \in Viewers,
                      NEW e \in HomePage \cup EventsPage(v) \cup {e \in Events : OpensEvent(v, e)}
                                \cup ({Shows(v, k).event : k \in Keys} \ {None})
               PROVE  MayHaveSeen(v, asked[e])
      BY DEF SeenAsAsked
  <2>1. ASSUME NEW k, Shows(v, k).event # None
        PROVE  Shows(v, k).event \in There /\ CanView(v, Shows(v, k).event)
    <3>1. PICK j : Page(v, k) = Guide(v, j)
          BY DEF Page
    <3>2. Shows(v, k).event = Guide(v, j).event
      <4>1. Guide(v, j).status \in {"not found", "forbidden", "ok"}
            BY DEF Guide
      <4>2. Guide(v, j).status # "ok" => Guide(v, j).event = None
            BY DEF Guide
      <4>3. Page(v, k).status = "not found" => Shows(v, k).event = None
            BY DEF Shows
      <4>4. Page(v, k).status = "forbidden" => Shows(v, k).event = None
            BY DEF Shows
      <4>5. Page(v, k).status = "ok" => Shows(v, k).event = Page(v, k).event
            BY DEF Shows
      <4> QED
          BY <4>1, <4>2, <4>3, <4>4, <4>5, <3>1
    <3> QED
        BY <2>1, <3>2, GuideShows
  <2>2. e \in There /\ CanView(v, e)
        BY <2>1 DEF HomePage, PublicEvents, EventsPage, ListedEvents, OpensEvent, CanView
  <2> QED
      BY <2>2, <1>1, ViewIsAsked
<1>2. QED
      BY <1>1, BookSafe, PTL

\* OwnKeyLeadsHome for all instances: no retired key comes between an event and
\* its own.
THEOREM HomeHolds == BookSpec => []OwnKeyLeadsHome
<1>1. ASSUME BookInv PROVE OwnKeyLeadsHome
  <2> SUFFICES ASSUME NEW e \in There, NEW v \in Viewers, event[e].open, CanView(v, e)
               PROVE  /\ Shows(v, event[e].slug).event = e
                      /\ Guide(v, event[e].slug).to = None
                      /\ OpensEvent(v, e) => Overview(v, e) = e
      BY DEF OwnKeyLeadsHome
  <2>1. Guide(v, event[e].slug) = [status |-> "ok", event |-> e, to |-> None]
        BY <1>1, GuideFinds
  <2>2. Page(v, event[e].slug) = Guide(v, event[e].slug)
        BY <2>1 DEF Page
  <2>3. Page(v, event[e].slug).status = "ok" /\ Page(v, event[e].slug).event = e
        BY <2>1, <2>2
  <2>4. Shows(v, event[e].slug).event = e
        BY <2>3 DEF Shows
  <2> QED
      BY <2>1, <2>4 DEF Overview
<1>2. QED
      BY <1>1, BookSafe, PTL
===============================================================================
