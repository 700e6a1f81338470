------------------------------- MODULE EditPages -------------------------------
(***************************************************************************)
(* EditPages: the dashboard pages on which administrators edit one stored  *)
(* record: the runtime configuration (config.vue), the mail settings       *)
(* (mail.vue), the settings of an event (settings.vue) and the row of a    *)
(* group (groups.vue), with the guard against leaving them unsaved         *)
(* (useUnsavedLeaveGuard.ts, SaveBar.vue, UnsavedLeaveDialog.vue) and the  *)
(* handlers that validate, store and put in force what they send.          *)
(*                                                                         *)
(* A behaviour is about one record of one kind.  A page is one visit of an *)
(* administrator; it works on the copy it fetched when it was opened.  A   *)
(* handler is one step, but requests and answers take their time, and a    *)
(* request outlives its page.  The text of all inputs but the secret is    *)
(* one value; a page that has a secret to type types one of its own.  The  *)
(* two seconds for which the bar shows that it saved are left out.         *)
(***************************************************************************)
EXTENDS FiniteSets

CONSTANTS
    Pages,
    Values,     \* what the schema of the record accepts
    Bad,        \* an input it refuses
    Default,    \* what is in force while nothing is stored
    None

ASSUME EditPagesAssumption ==
    /\ Default \in Values /\ Bad \notin Values
    /\ None \notin Pages /\ None # Bad

VARIABLES
    kind,       \* which record; does not change
    stored,     \* its row in the database
    cache,      \* the copy in memory (config-store.ts, mail-config.ts)
    inForce,    \* what the probe semaphore was last sized to
    page,       \* the visits
    typedNow,   \* inputs nobody discarded or saved yet (history)
    secretNow   \* and secrets (history)

server == <<stored, cache, inForce>>
typed == <<typedNow, secretNow>>
pagesVars == <<kind, server, page, typed>>

-------------------------------------------------------------------------------
Kinds == {"config", "mail", "event", "group"}

\* A record: what the form shows, the secret, by the page that set it, and the
\* part no form has (the library of webhook formats).
Records == [form : Values, secret : Pages \cup {None}, library : BOOLEAN]

\* What an input can hold: an empty number input of the configuration counts as
\* 0, which the schema of some settings refuses.
Inputs == Values \cup {Bad}

\* at: asking is the dialog on leaving.  box: a secret is typed.  save: the
\* page's request and what became of it.  body, sent: what it carried, where
\* sent says that the secret did.  away: leave once it is saved.
PageStates == [at : {"unopened", "editing", "asking", "left"},
    data : Values, form : Inputs, box : BOOLEAN,
    save : {"idle", "asked", "stored", "refused"},
    body : Inputs, sent : BOOLEAN, away : BOOLEAN]

Unopened == [at |-> "unopened", data |-> Default, form |-> Default, box |-> FALSE,
    save |-> "idle", body |-> Default, sent |-> FALSE, away |-> FALSE]

PagesInit ==
    /\ kind \in Kinds
    /\ stored = [form |-> Default, secret |-> None, library |-> FALSE]
    /\ cache = None
    /\ inForce = Default
    /\ page = [p \in Pages |-> Unopened]
    /\ typedNow = {}
    /\ secretNow = {}

Cached == kind \in {"config", "mail"}
Current == IF cache = None THEN stored ELSE cache
HasSecret == kind = "mail"
Saving(p) == page[p].save # "idle"
Dirty(p) == page[p].form # page[p].data \/ page[p].box

\* (Mutant: the inputs of a group's row stay enabled.)
NeverLocked(p) == FALSE

\* Only the inputs of a group's row are disabled while it is being saved.
Locked(p) == kind = "group" /\ Saving(p)

-------------------------------------------------------------------------------
(* The administrator *)

\* The fetch that fills the form reads through the cache.
Open(p) ==
    /\ page[p].at = "unopened"
    /\ page' = [page EXCEPT ![p].at = "editing", ![p].data = Current.form, ![p].form = Current.form]
    /\ cache' = IF Cached THEN Current ELSE cache
    /\ UNCHANGED <<kind, stored, inForce, typed>>

\* What is typed while a save is under way is not on record: see TypedStays.
Type(p, v) ==
    /\ page[p].at = "editing" /\ ~Locked(p)
    /\ v # page[p].form
    /\ page' = [page EXCEPT ![p].form = v]
    /\ typedNow' = IF Saving(p) /\ kind # "group" THEN typedNow \ {p} ELSE typedNow \cup {p}
    /\ UNCHANGED <<kind, server, secretNow>>

TypeSecret(p) ==
    /\ HasSecret /\ page[p].at = "editing" /\ ~page[p].box
    /\ page' = [page EXCEPT ![p].box = TRUE]
    /\ secretNow' = secretNow \cup {p}
    /\ UNCHANGED <<kind, server, typedNow>>

Forgotten(p) == typedNow' = typedNow \ {p} /\ secretNow' = secretNow \ {p}

Reset(pg) == [pg EXCEPT !.form = pg.data, !.box = FALSE]

\* The bar is there while there is something to save, and so are its buttons.
Bar(p) == page[p].at = "editing" /\ Dirty(p) /\ ~Saving(p)

Discard(p) ==
    /\ Bar(p)
    /\ page' = [page EXCEPT ![p] = Reset(@)]
    /\ Forgotten(p)
    /\ UNCHANGED <<kind, server>>

\* Event keys and group names are checked by the page already.
CheckedByPage(p) == kind \in {"event", "group"} => page[p].form # Bad

Asked(pg) == [pg EXCEPT !.save = "asked", !.body = pg.form, !.sent = pg.box]

Save(p) ==
    /\ Bar(p) /\ CheckedByPage(p)
    /\ page' = [page EXCEPT ![p] = Asked(@)]
    /\ UNCHANGED <<kind, server, typed>>

\* onBeforeRouteLeave: a save under way is reason enough to let the page go.
Stopped(p) == Dirty(p) /\ ~Saving(p)

\* A page that is left has nothing but the request it made.
Left(pg) == [Unopened EXCEPT !.at = "left", !.save = pg.save, !.body = pg.body, !.sent = pg.sent]

Leave(p) ==
    /\ page[p].at = "editing" /\ ~Stopped(p)
    /\ page' = [page EXCEPT ![p] = Left(@)]
    /\ typedNow' = typedNow \ {p}
    /\ UNCHANGED <<kind, server, secretNow>>

AskLeave(p) ==
    /\ page[p].at = "editing" /\ Stopped(p)
    /\ page' = [page EXCEPT ![p].at = "asking"]
    /\ UNCHANGED <<kind, server, typed>>

\* The dialog, two of whose buttons are disabled while a save is under way.
Dialog(p) == page[p].at = "asking" /\ ~Saving(p)

\* Stay only closes the dialog: a save on leaving that is under way will
\* take the page away all the same.
Stay(p) ==
    /\ page[p].at = "asking"
    /\ page' = [page EXCEPT ![p].at = "editing"]
    /\ UNCHANGED <<kind, server, typed>>

DiscardAndLeave(p) ==
    /\ Dialog(p)
    /\ page' = [page EXCEPT ![p] = Left(@)]
    /\ Forgotten(p)
    /\ UNCHANGED <<kind, server>>

SaveAndLeave(p) ==
    /\ Dialog(p) /\ CheckedByPage(p)
    /\ page' = [page EXCEPT ![p] = [Asked(@) EXCEPT !.away = TRUE]]
    /\ UNCHANGED <<kind, server, typed>>

-------------------------------------------------------------------------------
(* The server *)

\* The request over the record as it is: a blank secret and the library stay.
Merged(p) ==
    [form |-> page[p].body, secret |-> IF page[p].sent THEN p ELSE Current.secret,
     library |-> Current.library]

Accepts(p) == page[p].body \in Values

\* (Mutant: the copy in memory stays.)
NotInvalidated(rec) == cache

\* invalidateConfig, invalidateMailConfig
CacheAfter(rec) == None

\* One handler: validate, store, invalidate, and for the configuration resize
\* the probe semaphore.
ServeSave(p) ==
    /\ page[p].save = "asked" /\ Accepts(p)
    /\ stored' = Merged(p)
    /\ cache' = CacheAfter(Merged(p))
    /\ inForce' = IF kind = "config" THEN page[p].body ELSE inForce
    /\ page' = [page EXCEPT ![p].save = "stored"]
    /\ UNCHANGED <<kind, typed>>

RefuseSave(p) ==
    /\ page[p].save = "asked" /\ ~Accepts(p)
    /\ cache' = IF Cached THEN Current ELSE cache
    /\ page' = [page EXCEPT ![p].save = "refused"]
    /\ UNCHANGED <<kind, stored, inForce, typed>>

\* PUT /api/mail/post-schemas
SaveLibrary ==
    /\ kind = "mail" /\ ~stored.library
    /\ stored' = [Current EXCEPT !.library = TRUE]
    /\ cache' = CacheAfter(stored')
    /\ UNCHANGED <<kind, inForce, page, typed>>

\* Whoever needs a setting reads it through the cache.
Read ==
    /\ Cached /\ cache = None
    /\ cache' = stored
    /\ UNCHANGED <<kind, stored, inForce, page, typed>>

Restart ==
    /\ cache' = IF kind = "config" THEN stored ELSE None
    /\ inForce' = IF kind = "config" THEN stored.form ELSE inForce
    /\ UNCHANGED <<kind, stored, page, typed>>

-------------------------------------------------------------------------------
(* The answer *)

\* (Mutant: the secret stays in its box.)
BoxKept(pg, shown) == [pg EXCEPT !.data = shown, !.form = shown]

\* The form becomes what the server answered, whatever was typed meanwhile.
Synced(pg, shown) == [pg EXCEPT !.data = shown, !.form = shown, !.box = FALSE]

Idle(pg) == [pg EXCEPT !.save = "idle", !.body = Default, !.sent = FALSE, !.away = FALSE]

\* What is stored is answered; the page of the groups fetches the list again.
SavedOn(pg) ==
    CASE pg.at = "left" -> Idle(pg)
      [] pg.at # "left" /\ pg.away -> Left(Idle(pg))
      [] OTHER -> Idle(Synced(pg, IF kind = "group" THEN stored.form ELSE pg.body))

Answered(p) ==
    /\ page[p].save = "stored"
    /\ page' = [page EXCEPT ![p] = SavedOn(@)]
    /\ Forgotten(p)
    /\ UNCHANGED <<kind, server>>

\* Refused, or the request or its answer was lost: nothing on the page changes.
Failed(p) ==
    /\ Saving(p)
    /\ page' = [page EXCEPT ![p] = Idle(@)]
    /\ UNCHANGED <<kind, server, typed>>

PagesNext ==
    \/ \E p \in Pages :
        \/ Open(p) \/ TypeSecret(p) \/ Discard(p) \/ Save(p)
        \/ \E v \in Inputs : Type(p, v)
        \/ Leave(p) \/ AskLeave(p) \/ Stay(p) \/ DiscardAndLeave(p) \/ SaveAndLeave(p)
        \/ ServeSave(p) \/ RefuseSave(p) \/ Answered(p) \/ Failed(p)
    \/ SaveLibrary \/ Read \/ Restart

PagesSpec == PagesInit /\ [][PagesNext]_pagesVars

-------------------------------------------------------------------------------
(* Properties *)

\* Every variable has its type: what is stored was validated.
PagesTypeOK ==
    /\ kind \in Kinds
    /\ stored \in Records
    /\ cache \in Records \cup {None}
    /\ inForce \in Values
    /\ page \in [Pages -> PageStates]
    /\ typedNow \subseteq Pages /\ secretNow \subseteq Pages

\* A save is in force when it is answered, in memory and in the size of the
\* probe semaphore, and a restart changes nothing.  (config.ts: hot-reload)
InForceIsStored ==
    /\ cache # None => cache = stored
    /\ kind = "config" => inForce = stored.form

\* The stored secret is replaced only by one that was typed on a page since it
\* last saved: leaving it blank keeps it, a page that was opened before another
\* administrator changed it does not bring the old one back, and neither does
\* the next save of a page that saved one.  No page reverts the library.
\* (mail-config.ts: preserve secrets)
UnsentIsKept ==
    [][/\ stored'.secret # stored.secret => stored'.secret \in secretNow
       /\ stored.library => stored'.library]_pagesVars

\* What an administrator typed while nothing was being saved goes only when
\* typed over, discarded, or stored by the save that carried it; the page does
\* not let go of it otherwise, unless a save is under way.  (the leave guard)
TypedStays ==
    [][\A p \in typedNow :
        \/ page'[p].form = page[p].form /\ page'[p].at # "left"
        \/ page'[p] = [page[p] EXCEPT !.form = page'[p].form]
        \/ page'[p] = Reset(page[p])
        \/ page[p].at = "asking" /\ page'[p].at = "left" /\ ~Saving(p)
        \/ page[p].at = "editing" /\ page'[p].at = "left" /\ (Saving(p) \/ ~Dirty(p))
        \/ page[p].save = "stored" /\ page[p].body = page[p].form]_pagesVars

===============================================================================
