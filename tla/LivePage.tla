------------------------------- MODULE LivePage -------------------------------
(***************************************************************************)
(* One visit of the live streams page: the table of sessions, seeded once  *)
(* and then kept by socket events, and the grid of tiles that start and    *)
(* stop players as the mouse, the page number and those events move.       *)
(*                                                                         *)
(* The server side is what the page can see of the lifecycle: sessions     *)
(* start, report, are swept or superseded, and end.  A session that was    *)
(* swept or superseded keeps its monitor, which goes on reporting (see     *)
(* StreamLifecycle).                                                       *)
(***************************************************************************)
EXTENDS Integers, FiniteSets, Sequences

CONSTANTS
    Sessions,    \* session ids: natural numbers, in the order of their rows
    Names,       \* stream names
    PageSize,    \* tiles on a page of the grid
    MaxWire,     \* bound: events on their way to the browser
    MaxStarts    \* bound: calls of startTile under way for one name

ASSUME PageAssumption ==
    /\ Sessions \subseteq Nat
    /\ PageSize \in Nat \ {0}
    /\ MaxWire \in Nat \ {0}
    /\ MaxStarts \in Nat \ {0}

VARIABLES
    sess,      \* what the server has of each session
    name,      \* its stream name, once it started
    telling,   \* sessions a sweep has closed and not yet announced
    wire,      \* the socket's events on their way to the browser
    conn,      \* whether the socket is connected
    page,      \* "away", then "loaded" (rendered by the server) or not, "mounted", "gone"
    rows,      \* the ids in the page's map of sessions; before, those in its payload
    missed,    \* history: sessions whose last event never reached the page
    view,      \* "list", "grid", or "shut" when a grid was unmounted
    playAll,   \* the grid's switch
    pageNo,    \* the page of the grid asked for
    playing,   \* names whose tile claims to play
    starting,  \* per name, the calls of startTile that have not returned
    players,   \* names with an entry in the grid's map of players
    stray,     \* names with a player nobody can reach any more
    hurried    \* history: names stopped while a start of theirs was under way

server == <<sess, name, telling>>
table == <<wire, conn, page, rows, missed>>
grid == <<view, playAll, pageNo, playing, starting, players, stray, hurried>>
vars == <<server, table, grid>>

Leaking == {"swept", "superseded"}

Open == {s \in Sessions : sess[s] = "open"}

TypeOK ==
    /\ sess \in [Sessions -> {"new", "open", "ended"} \cup Leaking]
    /\ name \in [Sessions -> Names]
    /\ telling \subseteq Sessions
    /\ wire \in Seq([kind : {"up", "stop"}, s : Sessions]) /\ Len(wire) <= MaxWire
    /\ conn \in BOOLEAN
    /\ page \in {"away", "loaded", "mounted", "gone"}
    /\ rows \subseteq Sessions /\ missed \subseteq Sessions
    /\ view \in {"list", "grid", "shut"}
    /\ playAll \in BOOLEAN /\ pageNo \in Nat \ {0}
    /\ playing \subseteq Names /\ players \subseteq Names
    /\ stray \subseteq Names /\ hurried \subseteq Names
    /\ starting \in [Names -> 0..MaxStarts]

Init ==
    /\ sess = [s \in Sessions |-> "new"]
    /\ name \in [Sessions -> Names]
    /\ telling = {}
    /\ wire = <<>> /\ conn = FALSE /\ page = "away"
    /\ rows = {} /\ missed = {}
    /\ view = "list" /\ playAll = FALSE /\ pageNo = 1
    /\ playing = {} /\ players = {} /\ stray = {} /\ hurried = {}
    /\ starting = [n \in Names |-> 0]

-----------------------------------------------------------------------------
(* The server.                                                             *)

\* socket.io sends to the clients connected now; for the others the event,
\* like the end of the sessions in `unsaid`, is lost.
Send(kind, s, unsaid) ==
    /\ IF conn
       THEN /\ Len(wire) < MaxWire
            /\ wire' = Append(wire, [kind |-> kind, s |-> s])
            /\ missed' = missed \cup unsaid
       ELSE /\ wire' = wire
            /\ missed' = missed \cup unsaid \cup {s}
    /\ UNCHANGED <<conn, page, rows, grid>>

\* The open sessions that a new one of the name supersedes
Superseded(s) == {t \in Open : name[t] = name[s]}

\* handlePublish: older open rows are closed without an event.
Start(s) ==
    /\ sess[s] = "new"
    /\ \A t \in Sessions : t < s => sess[t] # "new"
    /\ sess' = [t \in Sessions |-> CASE t = s -> "open"
                                     [] t \in Superseded(s) -> "superseded"
                                     [] OTHER -> sess[t]]
    /\ Send("up", s, Superseded(s))
    /\ UNCHANGED <<name, telling>>

\* A monitor's turn: session:metric or session:violation
Report(s) ==
    /\ sess[s] \in {"open"} \cup Leaking
    /\ Send("up", s, {})
    /\ UNCHANGED server

\* The map `active` holds the session of a name that started last.
Current(s) == \A t \in Sessions : t > s /\ name[t] = name[s] => sess[t] = "new"

\* handleUnpublish ends the session in the map, closed already or not.
Unpublish(s) ==
    /\ sess[s] \in {"open", "swept"} /\ Current(s)
    /\ sess' = [sess EXCEPT ![s] = "ended"]
    /\ Send("stop", s, {})
    /\ UNCHANGED <<name, telling>>

\* A sweep closes the row, then waits for the recorder ...
SweepCloses(s) ==
    /\ sess[s] = "open"
    /\ sess' = [sess EXCEPT ![s] = "swept"]
    /\ telling' = telling \cup {s}
    /\ UNCHANGED <<name, table, grid>>

\* ... and tells the panels when that has returned.
SweepTells(s) ==
    /\ s \in telling
    /\ telling' = telling \ {s}
    /\ Send("stop", s, {})
    /\ UNCHANGED <<sess, name>>

-----------------------------------------------------------------------------
(* The grid.  Its page is a slice of the rows, newest first.               *)

\* How many sessions of r are not older than s
Rank(r, s) == Cardinality({t \in r : t >= s})

Pages(r) == LET full == (Cardinality(r) + PageSize - 1) \div PageSize
            IN  IF full = 0 THEN 1 ELSE full

\* gridPage
Tiles(r, p) ==
    LET shown == IF p <= Pages(r) THEN p ELSE Pages(r)
    IN  {s \in r : Rank(r, s) > (shown - 1) * PageSize /\ Rank(r, s) <= shown * PageSize}

TileNames(r, p) == {name[s] : s \in Tiles(r, p)}

\* stopTile of the names in stop, then startTile of those in start, which does
\* nothing for a name that plays already.  A call of startTile that is under way
\* is not told that its tile was stopped.
Change(stop, start) ==
    LET begun == start \ (playing \ stop)
    IN  /\ playing' = (playing \ stop) \cup begun
        /\ players' = players \ stop
        /\ \A n \in begun : starting[n] < MaxStarts
        /\ starting' = [n \in Names |-> IF n \in begun THEN starting[n] + 1 ELSE starting[n]]
        /\ hurried' = hurried \cup {n \in stop : starting[n] > 0}
        /\ UNCHANGED stray

\* The watcher of the page runs before the DOM is patched: it stops what is no
\* longer shown, and finds a video element only for tiles shown before as well.
PageChanges(r, p) ==
    IF view = "grid" /\ playAll
    THEN Change(players \ TileNames(r, p), TileNames(r, p) \cap TileNames(rows, pageNo))
    ELSE UNCHANGED <<playing, starting, players, stray, hurried>>

\* (Mutant: the grid is unmounted without tearing its players down.)
TornNothing == {}

\* onBeforeUnmount of the grid
Torn == players

Unmount ==
    /\ playing' = playing \ Torn
    /\ players' = players \ Torn
    /\ hurried' = hurried \cup {n \in Names : starting[n] > 0}
    /\ UNCHANGED <<starting, stray>>

-----------------------------------------------------------------------------
(* The page.                                                               *)

\* A full load: the server renders the page with the open sessions in its payload.
Load ==
    /\ page = "away"
    /\ page' = "loaded" /\ rows' = Open /\ missed' = {}
    /\ UNCHANGED <<server, wire, conn, grid>>

\* A navigation in the browser does not wait for useFetch: there is no data when
\* the page is mounted, and nothing reads it afterwards.
Navigate ==
    /\ page = "away"
    /\ page' = "mounted" /\ rows' = {} /\ missed' = Open
    /\ UNCHANGED <<server, wire, conn, grid>>

Mount ==
    /\ page = "loaded"
    /\ page' = "mounted"
    /\ UNCHANGED <<server, wire, conn, rows, missed, grid>>

\* The first connection and every reconnection: nothing is read again.
Connect ==
    /\ page = "mounted" /\ ~conn
    /\ conn' = TRUE
    /\ UNCHANGED <<server, wire, page, rows, missed, grid>>

Disconnect ==
    /\ conn
    /\ conn' = FALSE /\ wire' = <<>>
    /\ missed' = missed \cup {wire[i].s : i \in DOMAIN wire}
    /\ UNCHANGED <<server, page, rows, grid>>

\* (Mutant: session:stop removes the rows of the stream, as the server's map has one per name.)
AppliedByName(e) ==
    IF e.kind = "up" THEN rows \cup {e.s} ELSE {t \in rows : name[t] # name[e.s]}

\* upsert, or delete for session:stop
Applied(e) == IF e.kind = "up" THEN rows \cup {e.s} ELSE rows \ {e.s}

Receive ==
    /\ wire # <<>>
    /\ wire' = Tail(wire)
    /\ rows' = Applied(Head(wire))
    /\ missed' = missed \ {Head(wire).s}
    /\ PageChanges(rows', pageNo)
    /\ UNCHANGED <<server, conn, page, view, playAll, pageNo>>

\* onBeforeUnmount of the page: disposeSocket, and the grid's own
LeavePage ==
    /\ page = "mounted"
    /\ page' = "gone"
    /\ conn' = FALSE /\ wire' = <<>> /\ rows' = {} /\ missed' = {}
    /\ view' = IF view = "grid" THEN "shut" ELSE view
    /\ IF view = "grid" THEN Unmount
                        ELSE UNCHANGED <<playing, starting, players, stray, hurried>>
    /\ UNCHANGED <<server, playAll, pageNo>>

\* Two mounts of the grid share nothing, so one is followed.
ShowGrid ==
    /\ page = "mounted" /\ view = "list"
    /\ view' = "grid"
    /\ UNCHANGED <<server, table, playAll, pageNo, playing, starting, players, stray, hurried>>

ShowList ==
    /\ page = "mounted" /\ view = "grid"
    /\ view' = "shut"
    /\ Unmount
    /\ UNCHANGED <<server, table, playAll, pageNo>>

\* The buttons compare the page number that was asked for, not the one shown.
TurnPage(p) ==
    /\ page = "mounted" /\ view = "grid"
    /\ \/ p = pageNo - 1 /\ pageNo > 1
       \/ p = pageNo + 1 /\ pageNo < Pages(rows)
    /\ pageNo' = p
    /\ PageChanges(rows, p)
    /\ UNCHANGED <<server, table, view, playAll>>

OnTile(n) == page = "mounted" /\ view = "grid" /\ n \in TileNames(rows, pageNo)

Enter(n) ==
    /\ OnTile(n) /\ ~playAll
    /\ Change({}, {n})
    /\ UNCHANGED <<server, table, view, playAll, pageNo>>

LeaveTile(n) ==
    /\ OnTile(n) /\ ~playAll
    /\ Change({n}, {})
    /\ UNCHANGED <<server, table, view, playAll, pageNo>>

TogglePlayAll ==
    /\ page = "mounted" /\ view = "grid"
    /\ playAll' = ~playAll
    /\ IF playAll THEN Change(players, {}) ELSE Change({}, TileNames(rows, pageNo))
    /\ UNCHANGED <<server, table, view, pageNo>>

\* startTile after its awaits: the player goes into the map, in place of another.
Played(n) ==
    /\ starting[n] > 0
    /\ starting' = [starting EXCEPT ![n] = @ - 1]
    /\ players' = players \cup {n}
    /\ stray' = stray \cup (players \cap {n})
    /\ UNCHANGED <<server, table, view, playAll, pageNo, playing, hurried>>

\* (Mutant: the catch swallows the error.)
GivenUpNothing(n) == {}

\* The names a failed start stops: the catch calls stopTile.
GivenUp(n) == {n}

\* The import of the library or the creation of the player fails.
Fails(n) ==
    /\ starting[n] > 0
    /\ starting' = [starting EXCEPT ![n] = @ - 1]
    /\ playing' = playing \ GivenUp(n)
    /\ players' = players \ GivenUp(n)
    /\ hurried' = hurried \cup {m \in GivenUp(n) : starting[m] > 1}
    /\ UNCHANGED <<server, table, view, playAll, pageNo, stray>>

\* The server is followed as long as there is a page to see it.
ServerNext ==
    page # "gone" /\
    \E s \in Sessions : Start(s) \/ Report(s) \/ Unpublish(s) \/ SweepCloses(s) \/ SweepTells(s)

PageNext ==
    \/ Load \/ Navigate \/ Mount \/ Connect \/ Disconnect \/ Receive \/ LeavePage

GridNext ==
    \/ ShowGrid \/ ShowList \/ TogglePlayAll
    \/ \E p \in 1..(Cardinality(Sessions) + 1) : TurnPage(p)
    \/ \E n \in Names : Enter(n) \/ LeaveTile(n) \/ Played(n) \/ Fails(n)

Next == ServerNext \/ PageNext \/ GridNext

Spec == Init /\ [][Next]_vars

-----------------------------------------------------------------------------
(* Properties.                                                             *)

\* The table is wrong about a session only if the last event about it was lost:
\* while the page was not yet, or not, connected, or because supersession sends
\* none.  One event that arrives puts its row right again.  (A session that was
\* swept or superseded is left out: its monitor's reports bring the row back.)
PanelTrue ==
    page = "mounted" /\ wire = <<>> =>
        \A s \in Sessions \ missed :
            sess[s] \notin Leaking => (s \in rows <=> sess[s] = "open")

\* A tile that claims to play has a player or is about to have one; otherwise
\* startTile would turn every later attempt away and the tile stay black.
PlayingIsPlayed ==
    \A n \in playing : n \in players \/ starting[n] > 0

\* A player goes on without a tile that answers for it (lost from the map, or in
\* it after its tile was left or the grid unmounted) only if it was told to stop
\* while it was still starting: startTile does not look again after its awaits.
TornDown ==
    \A n \in Names :
        \/ n \in stray
        \/ n \in players /\ (n \notin playing \/ view = "shut")
        => n \in hurried
=============================================================================
