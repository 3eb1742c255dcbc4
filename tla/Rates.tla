---------------------------------- MODULE Rates ----------------------------------
(***************************************************************************)
(* Which writes of a rate plan and of a day the pages offer and the        *)
(* commands take: the page, the drawer, the menu of a day and the command  *)
(* each derive it from the catalog row by code of their own.               *)
(*                                                                         *)
(*   packages/domain/src/commands/set-*.ts, update-derived-rate-modifier.ts*)
(*   packages/domain/src/rates/read-model.ts      the rates page           *)
(*   apps/web/server/utils/revenue.ts, calendar-ari.ts      its route, the *)
(*                                                writes of the drawer     *)
(*   apps/web/app/pages/calendar.vue, components/calendar/                 *)
(*                                                                         *)
(* A snapshot is taken to be fresh here: module AriProjection has that.    *)
(***************************************************************************)
EXTENDS Access, FiniteSets
LOCAL INSTANCE Integers

WriteCapabilities == {"rateRestrictionWrite", "derivedRateWrite", "availabilityWrite", "aiApply", "bookingCrsWrite"}
\* rate_mode of the catalog row: Channex sends it in lower case, a row may lack it or have it
\* blank, or spelled otherwise.
RawModes == {"none", "blank", "manual", "Manual ", "derived", "cascade"}
Plans == [mode : RawModes, child : BOOLEAN]     \* child: of a parent rate plan
NoPlan == [mode |-> "unknown", child |-> FALSE]
\* trim().toLowerCase()
Normal(mode) == IF mode = "Manual " THEN "manual" ELSE mode

\* A mode that is unknown: derived for a child, manual for a parent.
ResolveRateMode(plan) ==
    IF plan.mode \notin {"none", "blank"} THEN Normal(plan.mode)
    ELSE IF plan.child THEN "derived" ELSE "manual"

-----------------------------------------------------------------------------
(* The commands.                                                           *)

Fields == {"rateMinor", "minStay", "maxStay", "closed"}
Horizon == 2    \* 730 days
\* assertRestrictionFields: some field, a price above zero, lengths of stay from zero.
FieldsValid(fields) ==
    /\ DOMAIN fields # {}
    /\ "rateMinor" \in DOMAIN fields => fields.rateMinor > 0
    /\ \A f \in DOMAIN fields \cap {"minStay", "maxStay"} : fields[f] >= 0
\* assertValidDateRange, with today as day 0.
DatesValid(from, to) == from <= to /\ 0 <= from /\ to <= Horizon

Slip_RateNeedsMode(fields, plan) == "rateMinor" \in DOMAIN fields => ResolveRateMode(plan) = "manual"
\* Nightly prices only of a plan that is in the catalog, manual and nobody's child.
RateEditable(fields, plan) ==
    "rateMinor" \in DOMAIN fields => plan # NoPlan /\ ResolveRateMode(plan) = "manual" /\ ~plan.child
SetsRestrictions(caps, plan, fields, from, to) ==
    /\ "rateRestrictionWrite" \in caps
    /\ FieldsValid(fields) /\ RateEditable(fields, plan) /\ DatesValid(from, to)
\* updateDerivedRateModifier: one rule for an occupancy, of a derived plan.
SetsModifier(caps, plan, occupancy, rules) ==
    /\ "derivedRateWrite" \in caps
    /\ occupancy >= 1 /\ rules # <<>> /\ plan # NoPlan /\ ResolveRateMode(plan) = "derived"
SetsAvailability(caps, count, from, to) == "availabilityWrite" \in caps /\ count >= 0 /\ DatesValid(from, to)

\* runCommand: the module of the command, its privilege, the property.
MayWriteAri(p, home) == CanAccessModule(p, "rates") /\ CanPerformAction(p, "ari_write") /\ CanAccessProperty(p, home)
\* The routes behind the drawer: the calendar or the rates, then the checks of the route.
Drawer(p, home) == (CanAccessModule(p, "calendar") \/ CanAccessModule(p, "rates")) /\ CanAccessProperty(p, home)
Restricts(p, home, caps, plan, fields, from, to) ==
    Drawer(p, home) /\ plan # NoPlan /\ MayWriteAri(p, home) /\ SetsRestrictions(caps, plan, fields, from, to)
Modifies(p, home, caps, plan, occupancy, rules) ==
    Drawer(p, home) /\ MayWriteAri(p, home) /\ SetsModifier(caps, plan, occupancy, rules)
Opens(p, home, caps, count, from, to) ==
    Drawer(p, home) /\ MayWriteAri(p, home) /\ SetsAvailability(caps, count, from, to)

-----------------------------------------------------------------------------
(* What the pages offer.                                                   *)

\* ratesPayload and projectRatesReadOnly: the mode of the row, or the resolved one.
ShownMode(plan) == IF plan.mode = "none" THEN ResolveRateMode(plan) ELSE plan.mode
RatesPage(caps, plan) ==
    [nightly |-> "rateRestrictionWrite" \in caps /\ ShownMode(plan) = "manual" /\ ~plan.child,
     modifier |-> "derivedRateWrite" \in caps /\ ShownMode(plan) = "derived",
     readOnly |-> caps \cap {"rateRestrictionWrite", "derivedRateWrite", "availabilityWrite"} = {}]

\* The drawer: a mode that is missing counts as manual for a price, as nothing for a modifier.
DrawerOffers(caps, plan) ==
    [nightly |-> "rateRestrictionWrite" \in caps /\ plan.mode \in {"none", "manual"} /\ ~plan.child,
     modifier |-> "derivedRateWrite" \in caps /\ plan.mode = "derived"]
\* The tabs; the restrictions are open at first where neither of the other two may be.
Tabs(caps) ==
    (IF "availabilityWrite" \in caps THEN {"availability"} ELSE {})
        \cup (IF caps \cap {"rateRestrictionWrite", "derivedRateWrite"} # {} THEN {"price"} ELSE {})
        \cup (IF "rateRestrictionWrite" \in caps THEN {"restrictions"} ELSE {})
FirstTab(caps) ==
    IF "availabilityWrite" \in caps THEN "availability"
    ELSE IF "rateRestrictionWrite" \in caps THEN "price" ELSE "restrictions"

\* A day of the calendar: buildCalendarDaySummaries and the room types of the catalog.
DayCells == [hotel : BOOLEAN, rooms : 0..2, typed : BOOLEAN, plans : SUBSET Plans, fresh : BOOLEAN]
HasRoomMapping(day) == day.hotel => day.rooms > 0
HasRateMapping(day) == \E plan \in day.plans : ~plan.child
Capacity(day) == IF day.hotel /\ day.rooms > 1 THEN day.rooms ELSE 1
Availability(caps, day) ==
    IF "availabilityWrite" \in caps /\ day.typed /\ HasRoomMapping(day) /\ day.fresh
    THEN {"close_availability", "open_availability"} ELSE {}
\* buildCellActions: the actions that are enabled.
CellActions(caps, day) ==
    LET rates == caps \cap {"rateRestrictionWrite", "derivedRateWrite"} # {}
    IN  {"task", "note"} \cup Availability(caps, day)
        \cup (IF "bookingCrsWrite" \in caps /\ HasRoomMapping(day) /\ HasRateMapping(day)
              THEN {"direct_booking"} ELSE {})
        \cup (IF rates \/ ("availabilityWrite" \in caps /\ day.fresh) THEN {"edit_ari"} ELSE {})

-----------------------------------------------------------------------------
AriWriters(home) ==
    {p \in {Principal("anyone", role, {home}, {home}) : role \in DOMAIN ModuleMatrix} : MayWriteAri(p, home)}
Price == [rateMinor |-> 1]
Lengths == [minStay |-> 0, maxStay |-> 0, closed |-> 1]
SomeDays ==
    {day \in DayCells : Cardinality(day.plans) <= 1 /\ (day.plans = {} \/ \E m \in {"manual", "derived"} :
        \A plan \in day.plans : plan.mode = m)}

\* "Nightly edits apply only to parent/manual plans" (rates.vue), "Inherited child nightly prices
\* are read-only" (CalendarAriDrawer.vue): a price or a modifier that the page or the drawer lets
\* a manager edit is one that the command takes, the page is read-only when no command takes
\* anything, and a child has no price whatever its row says. The menu of a day offers no write of
\* availability that the route refuses, and the drawer opens at a tab it has, but for a network
\* that may only write modifiers (CalendarAriDrawer.vue:104).
OffersAreTaken ==
    \A caps \in SUBSET WriteCapabilities, p \in AriWriters("here") :
        /\ \A plan \in Plans :
            LET page == RatesPage(caps, plan)
                drawer == DrawerOffers(caps, plan)
                takes == Restricts(p, "here", caps, plan, Price, 0, Horizon)
                modifies == Modifies(p, "here", caps, plan, 1, <<plan>>)
            IN  /\ (page.nightly \/ drawer.nightly => takes) /\ (takes => ~plan.child)
                /\ page.modifier \/ drawer.modifier => modifies
                /\ ~(takes /\ modifies)
                /\ page.readOnly => ~takes /\ ~modifies /\ ~Opens(p, "here", caps, 0, 0, 0)
                /\ (drawer.nightly \/ drawer.modifier => "price" \in Tabs(caps))
                /\ "restrictions" \in Tabs(caps) => Restricts(p, "here", caps, plan, Lengths, 0, Horizon)
        /\ \A day \in SomeDays :
            LET menu == CellActions(caps, day)
            IN  /\ {"close_availability", "open_availability"} \cap menu # {} =>
                        /\ day.typed /\ day.fresh
                        /\ \A count \in {0, Capacity(day)} : Opens(p, "here", caps, count, 0, 0)
                        /\ "edit_ari" \in menu
                /\ "edit_ari" \in menu /\ FirstTab(caps) \notin Tabs(caps) =>
                        Tabs(caps) = {"price"} /\ "rateRestrictionWrite" \notin caps
=============================================================================
