------------------------------- MODULE CalendarPage -------------------------------
(***************************************************************************)
(* One browser tab: the shell that knows the network and its properties,   *)
(* the calendar page that loads what it draws, and what opens on it: the   *)
(* menu of a cell, the ARI drawer, a task or note, a direct booking.       *)
(* Requests overlap, and their answers come in any order.                  *)
(*                                                                         *)
(*   apps/web/app/composables/useCurrentNetwork.ts      the shell          *)
(*   apps/web/app/pages/calendar.vue                    the page           *)
(*   apps/web/app/components/calendar/CalendarGrid.vue  the cell menu      *)
(*   apps/web/app/components/calendar/CalendarAriDrawer.vue                *)
(*   apps/web/app/components/reservations/DirectBookingForm.vue            *)
(*                                                                         *)
(* The server is what the page can tell of it: the snapshot version of     *)
(* each network, which every change of a cell raises, and the check that a *)
(* write names that version.                                               *)
(***************************************************************************)
EXTENDS Naturals, FiniteSets

CONSTANTS
    Networks, FirstNetwork,     \* the tab starts without a network: FirstNetwork is the default
    Ranges, FirstRange,
    Nowhere,        \* no network, nothing drawn, no request
    Refreshes, Loads,   \* slots for requests under way
    MaxSnapshot,    \* bound: changes of one network
    MaxWrites,      \* bound: writes of the tab
    MaxMoves        \* bound: switches of network and range

VARIABLES
    snapshot,       \* the server's version of each network
    current, range, \* what the tab is at
    catalogOf,      \* the network whose properties the shell shows
    refreshes, loads,   \* requests under way
    shown,          \* what the page draws: view and version
    panel,          \* what is open
    write,          \* per control, the write under way
    waiting,        \* history: what a stale write was rejected for, till it is drawn
    moves, writes
pageVars == <<snapshot, current, range, catalogOf, refreshes, loads, shown, panel, write,
              waiting, moves, writes>>

View == <<current, range>>
NoRefresh == [stage |-> "none", network |-> Nowhere]
Blank == [view |-> <<Nowhere, Nowhere>>, version |-> 0]
NoLoad == Blank
Controls == {"cell", "drawer", "day", "booking"}
NoPanel == "none"
NoWrite == [network |-> Nowhere, base |-> 0]

PageInit ==
    /\ snapshot = [n \in Networks |-> 1]
    /\ current = Nowhere /\ range = FirstRange /\ catalogOf = Nowhere
    /\ \E f \in Refreshes :
        refreshes = [r \in Refreshes |-> IF r = f THEN [stage |-> "me", network |-> FirstNetwork] ELSE NoRefresh]
    /\ loads = [l \in Loads |-> NoLoad]
    /\ shown = Blank /\ panel = NoPanel /\ write = [c \in Controls |-> NoWrite] /\ waiting = Blank
    /\ moves = 0 /\ writes = 0

-----------------------------------------------------------------------------
(* Loads.                                                                  *)

\* load(): one request for the view of this moment.
LoadFor(view) ==
    \E l \in Loads : loads[l] = NoLoad /\ loads' = [loads EXCEPT ![l].view = view]
\* The page watches network and range.
Watched == IF View' # View THEN LoadFor(View') ELSE UNCHANGED loads

\* GET /api/reservations: the server reads its rows; without a network it refuses.
ServerReads(l) ==
    /\ loads[l].view[1] # Nowhere /\ loads[l].version = 0
    /\ loads' = [loads EXCEPT ![l].version = snapshot[loads[l].view[1]]]
    /\ UNCHANGED <<snapshot, current, range, catalogOf, refreshes, shown, panel, write, waiting, moves, writes>>
\* An answer is drawn whatever was asked for since.
LoadAnswer(l) ==
    /\ loads[l].version # 0 /\ shown' = loads[l] /\ loads' = [loads EXCEPT ![l] = NoLoad]
    /\ waiting' = IF shown'.view[1] = waiting.view[1] /\ shown'.version >= waiting.version
                  THEN Blank ELSE waiting
    /\ UNCHANGED <<snapshot, current, range, catalogOf, refreshes, panel, write, moves, writes>>
\* Without an answer the error stands and nothing is drawn; the version stays.
LoadFails(l) ==
    /\ loads[l] # NoLoad /\ loads' = [loads EXCEPT ![l] = NoLoad]
    /\ shown' = [shown EXCEPT !.view = Blank.view] /\ waiting' = Blank
    /\ UNCHANGED <<snapshot, current, range, catalogOf, refreshes, panel, write, moves, writes>>

-----------------------------------------------------------------------------
(* The shell.                                                              *)

\* switchNetwork(n): the network changes when /api/me answers.  An open panel covers the page.
Switch(n) ==
    /\ panel = NoPanel /\ n # current /\ moves < MaxMoves /\ moves' = moves + 1
    /\ \E r \in Refreshes :
        /\ refreshes[r] = NoRefresh
        /\ refreshes' = [refreshes EXCEPT ![r] = [stage |-> "me", network |-> n]]
    /\ UNCHANGED <<snapshot, current, range, catalogOf, loads, shown, panel, write, waiting, writes>>
\* Then the properties of the network that is current by now are asked for.
MeAnswer(r) ==
    /\ refreshes[r].stage = "me"
    /\ current' = refreshes[r].network
    /\ refreshes' = [refreshes EXCEPT ![r].stage = "catalog"]
    /\ UNCHANGED <<snapshot, range, catalogOf, shown, panel, write, waiting, moves, writes>>
    /\ Watched
CatalogAnswer(r) ==
    /\ refreshes[r].stage = "catalog" /\ catalogOf' = refreshes[r].network
    /\ refreshes' = [refreshes EXCEPT ![r] = NoRefresh]
    /\ UNCHANGED <<snapshot, current, range, loads, shown, panel, write, waiting, moves, writes>>
\* /api/me or the catalog fails: no principal, or no properties.
RefreshFails(r) ==
    /\ refreshes[r] # NoRefresh /\ refreshes' = [refreshes EXCEPT ![r] = NoRefresh]
    /\ catalogOf' = IF refreshes[r].stage = "catalog" THEN Nowhere ELSE catalogOf
    /\ UNCHANGED <<snapshot, current, range, loads, shown, panel, write, waiting, moves, writes>>

\* shift, goToday; applyViewportMode on a resize, also under an open panel
Move(to) ==
    /\ to # range /\ moves < MaxMoves /\ moves' = moves + 1 /\ range' = to
    /\ UNCHANGED <<snapshot, current, catalogOf, refreshes, shown, panel, write, waiting, writes>>
    /\ Watched

-----------------------------------------------------------------------------
(* Writes.                                                                 *)

\* Somebody else changes a cell.
Change(n) ==
    /\ snapshot[n] < MaxSnapshot /\ snapshot' = [snapshot EXCEPT ![n] = @ + 1]
    /\ UNCHANGED <<current, range, catalogOf, refreshes, loads, shown, panel, write, waiting, moves, writes>>

\* openCellMenu; the drawer and the forms take over what the menu keeps of its cell.
OpenMenu ==
    /\ panel = NoPanel /\ shown.view # Blank.view /\ panel' = "menu"
    /\ UNCHANGED <<snapshot, current, range, catalogOf, refreshes, loads, shown, write, waiting, moves, writes>>
OpenFromMenu(kind) ==
    /\ panel = "menu" /\ panel' = kind
    /\ UNCHANGED <<snapshot, current, range, catalogOf, refreshes, loads, shown, write, waiting, moves, writes>>
ClosePanel ==
    /\ panel # NoPanel /\ panel' = NoPanel
    /\ UNCHANGED <<snapshot, current, range, catalogOf, refreshes, loads, shown, write, waiting, moves, writes>>

\* A write names the network and the version the page has at that moment; each control has
\* one write at a time.
Submit(c) ==
    /\ write[c] = NoWrite /\ writes < MaxWrites /\ writes' = writes + 1
    /\ write' = [write EXCEPT ![c] = [network |-> current, base |-> shown.version]]
    /\ UNCHANGED <<snapshot, current, range, catalogOf, refreshes, loads, shown, waiting, moves>>
\* submitAvailability from the menu closes it; submitAvailability, submitPrice,
\* submitRestrictions and submitDerived of the drawer, a task, a note and a booking leave theirs.
SubmitCell == panel = "menu" /\ Submit("cell") /\ panel' = NoPanel
SubmitPanel(c) == panel = c /\ Submit(c) /\ UNCHANGED panel

\* A task or a note is not checked against a version.
Fresh(c) == c = "day" \/ write[c].base = snapshot[write[c].network]
Done(c, reloads) ==
    /\ write[c] # NoWrite /\ write' = [write EXCEPT ![c] = NoWrite]
    /\ (IF reloads THEN LoadFor(View) ELSE UNCHANGED loads)
    /\ UNCHANGED <<snapshot, current, range, catalogOf, refreshes, shown, moves, writes>>
\* Done or queued: what is open closes, and the page loads.
Accepted(c) ==
    /\ Done(c, TRUE) /\ Fresh(c)
    /\ panel' = IF panel = c THEN NoPanel ELSE panel
    /\ UNCHANGED waiting
Slip_NoReload == FALSE
StaleReloads == TRUE
\* STALE_SNAPSHOT: the page loads; the drawer stays open with its values.  The booking form
\* only shows the refusal.
Rejected(c) ==
    /\ c \in {"cell", "drawer"} /\ Done(c, StaleReloads) /\ ~Fresh(c)
    /\ waiting' = [view |-> <<write[c].network, range>>, version |-> snapshot[write[c].network]]
    /\ UNCHANGED panel
\* Any other refusal is shown.
Refused(c) == Done(c, FALSE) /\ UNCHANGED <<panel, waiting>>

-----------------------------------------------------------------------------
LoadStep(l) == ServerReads(l) \/ LoadAnswer(l) \/ LoadFails(l)
Answers ==
    \/ \E l \in Loads : LoadStep(l)
    \/ \E r \in Refreshes : MeAnswer(r) \/ CatalogAnswer(r) \/ RefreshFails(r)
    \/ \E c \in Controls : Accepted(c) \/ Rejected(c) \/ Refused(c)
PageNext ==
    \/ Answers \/ OpenMenu \/ ClosePanel \/ SubmitCell
    \/ \E c \in Controls \ {"cell"} : OpenFromMenu(c) \/ SubmitPanel(c)
    \/ \E n \in Networks : Switch(n) \/ Change(n)
    \/ \E to \in Ranges : Move(to)
PageSpec == PageInit /\ [][PageNext]_pageVars
\* Every request is answered or fails.
PageFairSpec == PageSpec /\ \A l \in Loads : WF_pageVars(LoadStep(l))

-----------------------------------------------------------------------------
(* Properties.                                                             *)

\* "Calendar changed - refreshed": after a stale write is rejected the page comes to draw
\* what it was rejected for, or an error, or the tab has gone to another network.
StaleIsDrawn == waiting # Blank ~> (waiting = Blank \/ waiting.view[1] # current)
=============================================================================
