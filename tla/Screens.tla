---------------------------------- MODULE Screens ----------------------------------
(***************************************************************************)
(* What the pages show of the front desk: each read model is computed from *)
(* the same records by code of its own, and they must agree.               *)
(*                                                                         *)
(*   apps/web/server/lib/reservation-query.ts     reservations, calendar   *)
(*   apps/web/app/components/calendar/            what the grid draws      *)
(*   packages/domain/src/operations-query.ts      tasks, guests, reviews   *)
(*   packages/domain/src/reports/                 reports                  *)
(*   apps/web/server/utils/revenue.ts, owner.ts   payments, owner portal   *)
(*                                                                         *)
(* A query is a principal, the property chosen on the page or All, and a   *)
(* range of days w that includes w[1] and not w[2].                        *)
(***************************************************************************)
EXTENDS Stays

CONSTANTS
    All,
    Windows         \* ranges of days that are asked for

ASSUME ScreensAssumption == \A w \in Windows : w \in Int \X Int

Chosen(f, home) == f \in {All, home}
Total(S, Value(_)) == MapThenSumSet(Value, S)
Days(w) == w[1]..(w[2] - 1)

\* filterReservationsForPrincipal, listScopedProperties.
Reservations(p, f, w) ==
    {id \in DOMAIN stays : InScope(p, id) /\ Chosen(f, stays[id].home)
                           /\ stays[id].to > w[1] /\ stays[id].from < w[2]}
ScopedHomes(p) == {home \in Homes : CanAccessProperty(p, home)}
\* listScopedPropertiesWithOps: the list of the properties page.
OpenHomes(p, includeArchived) == {home \in ScopedHomes(p) : includeArchived \/ home \notin closed}

-----------------------------------------------------------------------------
(* The calendar.                                                           *)

PropertyRow(home) == [kind |-> "property", of |-> home, room |-> NoRoom]
RoomRow(r) == [kind |-> "room", of |-> Rooms[r], room |-> r]
UnassignedRow(home) == [kind |-> "unassigned", of |-> home, room |-> NoRoom]
Placed(r) == r # NoRoom /\ r \notin archived
LiveRooms(home) == {r \in DOMAIN Rooms \ archived : Rooms[r] = home}
CalendarHomes(p, f) == {home \in ScopedHomes(p) : Chosen(f, home)}

Slip_OnlyWhenFull(home, ids) == IF LiveRooms(home) = {} THEN {UnassignedRow(home)} ELSE {}
Unassigned(home, ids) ==
    IF LiveRooms(home) = {} \/ \E id \in ids : stays[id].home = home /\ ~Placed(stays[id].room)
    THEN {UnassignedRow(home)} ELSE {}
\* buildCalendarProjection: the rows, and the row of each bar.
CalendarRows(p, f, ids) ==
    UNION {IF home \notin Hotels THEN {PropertyRow(home)}
           ELSE {RoomRow(r) : r \in LiveRooms(home)} \cup Unassigned(home, ids) :
           home \in CalendarHomes(p, f)}
RowOf(s) ==
    CASE s.home \notin Hotels -> PropertyRow(s.home)
      [] s.home \in Hotels /\ Placed(s.room) -> RoomRow(s.room)
      [] s.home \in Hotels /\ ~Placed(s.room) -> UnassignedRow(s.home)
\* buildCalendarDaySummaries.
Booked(home, ids, day) ==
    Cardinality({id \in ids : stays[id].home = home /\ Live(stays[id])
                              /\ stays[id].from <= day /\ stays[id].to > day})

\* The cells of the grid.
OverlapsDay(id, day) == stays[id].from <= day /\ day < stays[id].to
BarsForRow(row, ids, day) == {id \in ids : RowOf(stays[id]) = row /\ OverlapsDay(id, day)}

-----------------------------------------------------------------------------
(* Reports and the owner portal.                                           *)

Reportable(s) == s.status \in {"confirmed", "pending_sync"}
\* overlappingStayNights: both ends of the range are nights.
OverlappingNights(s, from, to) ==
    LET start == Max({s.from, from})
        end == Min({s.to, to + 1})
    IN  IF end <= start THEN 0 ELSE end - start
\* computeReportSummary; an owner has a report of the properties it owns.
ReportHomes(p, f) == {home \in ScopedHomes(p) : Chosen(f, home)}
OccupiedNights(p, f, from, to) ==
    LET nights(id) == OverlappingNights(stays[id], from, to)
    IN  Total({id \in DOMAIN stays : Reportable(stays[id]) /\ stays[id].home \in ReportHomes(p, f)}, nights)
OwnerBookings(p, f) == {id \in DOMAIN stays : InScope(p, id) /\ Chosen(f, stays[id].home)}

-----------------------------------------------------------------------------
(* Guests, tasks, reviews, payments.                                       *)

\* projectGuestsForPrincipal: one row for each key.
GuestRows(p) ==
    LET mine == {id \in DOMAIN stays : InScope(p, id) /\ stays[id].guest # NoGuest}
        Of(key) == {id \in mine : stays[id].guest = key}
    IN  {[key |-> key, ids |-> Of(key), homes |-> {stays[id].home : id \in Of(key)}] :
            key \in {stays[id].guest : id \in mine}}
\* filterTasksForPrincipal, filterReviewsForPrincipal.
TaskRows(p, f) ==
    {t \in DOMAIN tasks : CanAccessProperty(p, tasks[t].home) /\ Chosen(f, tasks[t].home)
                          /\ (p.role = "housekeeping" => tasks[t].assigned = p.user)}
ReviewRows(p, f) ==
    {i \in DOMAIN reviews : CanAccessProperty(p, reviews[i].home) /\ Chosen(f, reviews[i].home)}
\* filterLedgerForPrincipal, and what the form of a payment offers.
LedgerRows(p, f) ==
    {e \in DOMAIN ledger : InScope(p, ledger[e].stay) /\ Chosen(f, stays[ledger[e].stay].home)}
Payable(p, f) == {id \in DOMAIN stays : InScope(p, id) /\ Chosen(f, stays[id].home)}

\* The buttons of a reservation's page.
CanCheckIn(s) == s.status \notin {"pending_sync", "cancelled"} /\ s.op \notin {"checked_in", "checked_out"}
CanCheckOut(s) == s.op # "none"

-----------------------------------------------------------------------------
(* Properties.                                                             *)

Filters == Homes \cup {All}

\* Every bar of the calendar is in one of its rows, where the grid draws it.
EveryBarHasRow ==
    \A p \in Principals, f \in Filters, w \in Windows :
        LET ids == Reservations(p, f, w)
            rows == CalendarRows(p, f, ids)
        IN  \A id \in ids : RowOf(stays[id]) \in rows
\* The stays that a day of the calendar counts, summed over a range, are the occupied nights
\* that the report has for the range, for staff and in the portal of an owner.
NightsAgree ==
    \A p \in Principals, f \in Filters, w \in Windows :
        LET ids == Reservations(p, f, w)
            booked(c) == Booked(c[1], ids, c[2])
        IN  OccupiedNights(p, f, w[1], w[2] - 1) = Total(CalendarHomes(p, f) \X Days(w), booked)
\* Two stays that the calendar counts on a night are not in the same room.
NightsFit ==
    \A r \in DOMAIN Rooms, day \in UNION {Days(w) : w \in Windows} :
        Cardinality({id \in BarsForRow(RoomRow(r), DOMAIN stays, day) : Live(stays[id])}) <= 1
\* What a call may change, the page of the caller shows: and what the page offers, the call
\* accepts.
WritesAreShown ==
    \A p \in Principals :
        /\ \A t \in DOMAIN tasks : AdmitsTask(p, t) <=> Admits(p, "tasks") /\ t \in TaskRows(p, All)
        /\ \A i \in DOMAIN reviews : AdmitsReview(p, i) <=> Admits(p, "reviews") /\ i \in ReviewRows(p, All)
        /\ \A id \in DOMAIN stays :
            /\ AdmitsPayment(p, id) <=> Admits(p, "payments") /\ id \in Payable(p, All)
            /\ CanCheckIn(stays[id]) => MayCheckIn(stays[id])
            /\ CanCheckOut(stays[id]) <=> MayCheckOut(stays[id])
            /\ Admits(p, "owner") /\ id \in OwnerBookings(p, All) => ~AdmitsStay(p, id)
        /\ \A e \in DOMAIN ledger : AdmitsPayment(p, ledger[e].stay) => e \in LedgerRows(p, All)
        /\ \A home \in Homes : CanAccessProperty(p, home) => home \in OpenHomes(p, TRUE)
        /\ \A m \in SidebarItems(p) : Admits(p, m)
SettingsAreShown ==
    \A role \in DOMAIN ModuleMatrix :
        LET p == Principal("anyone", role, {}, {})
        IN  \A i \in DOMAIN SettingsGuards(p) : SettingsGuards(p)[i] <=> i \in SettingsItems(p)

\* "Excludes properties outside principal scope" (reports), "half-open; check-out day free"
\* (calendar): the read models are computed apart and must tell the same of the same bookings.
ScreensAgree ==
    /\ EveryBarHasRow /\ NightsAgree /\ NightsFit /\ WritesAreShown
    /\ SettingsAreShown
=============================================================================
