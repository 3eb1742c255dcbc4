---------------------------------- MODULE Routes ----------------------------------
(***************************************************************************)
(* The routes of the web server, by what they take and from whom, and the  *)
(* pages and shells that call them.                                        *)
(*                                                                         *)
(*   apps/web/server/api/             one handler for each route           *)
(*   apps/web/server/utils/ai-context.ts   what a prompt may tell          *)
(*   apps/web/app/pages/, app/utils/mobile.ts   who calls                  *)
(*                                                                         *)
(* A handler that reads is the set of records it answers with, one that    *)
(* writes the condition under which it goes on to its command; what the    *)
(* commands do is in Stays, Accounts, Billing, Automation and the others.  *)
(* "on" is what an installation has: a key for the model, the commercial   *)
(* edition, and the two entitlements of a network.                         *)
(***************************************************************************)
EXTENDS Screens, SequencesExt

Installations == [ai : BOOLEAN, commercial : BOOLEAN, multiNetwork : BOOLEAN, whiteLabel : BOOLEAN]
Served(p, module, rows) == IF Admits(p, module) THEN rows ELSE {}
AdmitsHome(p, module, home) == Admits(p, module) /\ CanAccessProperty(p, home)

-----------------------------------------------------------------------------
(* Records.                                                                *)

GuestList(p) == Served(p, "guests", GuestRows(p))
GuestRecord(p, key) == {g \in GuestList(p) : g.key = key}
EnrichGuest(p, home) == AdmitsHome(p, "guests", home)

TaskList(p, f) == Served(p, "tasks", TaskRows(p, f))
ReviewList(p, f) == Served(p, "reviews", ReviewRows(p, f))
ReviewRecord(p, i) == i \in ReviewList(p, All)

ReservationRecord(p, id) == AdmitsStay(p, id)
AttachNote(p, id) == AdmitsStay(p, id)
BookDirect(p, home) == AdmitsHome(p, "reservations", home)
NoteDay(p, home) == AdmitsHome(p, "calendar", home)

PaymentList(p, f) == Served(p, "payments", LedgerRows(p, f))
LedgerTypes == {"charge", "payment", "refund", "adjustment", "invoice", "receipt"}
PostPayment(p, id, type) == type \in LedgerTypes /\ AdmitsPayment(p, id)

PropertyList(p, includeArchived) == Served(p, "properties", OpenHomes(p, includeArchived))
\* propertyDetailPayload, and the writes of the same page.
PropertyRecord(p, home) == AdmitsHome(p, "properties", home)
PropertyRooms(home) == {r \in DOMAIN Rooms : Rooms[r] = home}
EditProperty(p, home) == AdmitsHome(p, "properties", home)
LabelRoom(p, home, r) == AdmitsHome(p, "properties", home) /\ r \in PropertyRooms(home)

RateHomes(p) == Served(p, "rates", ScopedHomes(p))
ReportedHomes(p, f) == Served(p, "reports", ReportHomes(p, f))
OwnerPortal(p, f) == Served(p, "owner", ReportHomes(p, f))
OwnerList(p, f) == Served(p, "owner", OwnerBookings(p, f))

-----------------------------------------------------------------------------
(* The inbox.                                                              *)

\* A conversation here is the booking it is about.
Conversations(p) == Served(p, "inbox", {id \in DOMAIN stays : stays[id].home \in ScopedHomes(p)})
StatusLine(s, today) ==
    CASE ~Live(s) -> "Cancelled"
      [] Live(s) /\ (s.op = "checked_out" \/ s.to < today) -> "Checked out"
      [] Live(s) /\ s.op = "checked_in" /\ s.to >= today -> "In house"
      [] Live(s) /\ s.op = "none" /\ s.to >= today ->
            IF s.from = today THEN "Check-in today" ELSE IF s.from < today THEN "In house" ELSE "Upcoming"
ReadConversation(p, home, id) == AdmitsHome(p, "inbox", home) /\ stays[id].home = home

-----------------------------------------------------------------------------
(* Prompts: what is told to the model about whom, and what comes of it.    *)

ScopedPropertyIds(p, f) == {home \in ScopedHomes(p) : Chosen(f, home)}
PricingContext(p, f) ==
    [homes |-> ScopedPropertyIds(p, f) \cap RateHomes(p),
     live |-> {id \in DOMAIN stays : Live(stays[id]) /\ stays[id].home \in ScopedPropertyIds(p, f)}]
\* The numbers of the report, with the homes they are of.
ForecastContext(p, f) == ReportHomes(p, f)
ConciergeContext(p, id) == InScope(p, id)
Slip_OfAnyHome(p, f, w) ==
    LET ids == {home \in Homes : Chosen(f, home)}
    IN  [homes |-> ids, checkOuts |-> {id \in DOMAIN stays : Live(stays[id]) /\ stays[id].to \in w[1]..w[2]},
         open |-> DOMAIN tasks]
\* buildOpsScheduleContext: both ends of the range are days of the schedule.
OpsContext(p, f, w) ==
    LET ids == ScopedPropertyIds(p, f)
    IN  [homes |-> ids,
         checkOuts |-> {id \in DOMAIN stays : stays[id].home \in ids /\ Live(stays[id])
                                              /\ stays[id].to \in w[1]..w[2]},
         open |-> {t \in DOMAIN tasks : tasks[t].home \in ids /\ tasks[t].status = "todo"}]

Forecast(p, on) == on.ai /\ Admits(p, "reports")
DraftReply(p, id, on) == on.ai /\ Admits(p, "inbox") /\ ConciergeContext(p, id)
\* The homes that tasks are proposed for, whatever the model answers.
Schedule(p, f, w, on) == IF on.ai THEN Served(p, "tasks", OpsContext(p, f, w).homes) ELSE {}
AiStatus(p, on) == [enabled |-> on.ai, modules |-> {m \in {"rates", "reports", "inbox", "tasks"} : Admits(p, m)}]

-----------------------------------------------------------------------------
(* Networks, integrations and settings: the guard of each route.           *)

Integrates(p) == CanPerformAction(p, "integrations")
ReadCredentials(p) == Integrates(p)
SaveCredentials(p, on) == ~on.commercial /\ Integrates(p)
MintChannelSession(p, home) == Integrates(p) /\ home \in Homes
ConnectOta(p) == Integrates(p)
ImportCatalog(p) == Integrates(p)
AckNow(p) == Integrates(p)
PullNow(p) == Integrates(p)
RetryDeadLetters(p) == Integrates(p)
ReadSyncHealth(p) == Integrates(p)
PullMessages(p) == Integrates(p)
\* requireInternalSyncAuth without the secret of the worker.
SyncInternally(p) == p.role \in {"org_admin", "manager"}
OnboardProperty(p, on) == on.commercial /\ Integrates(p)
\* createAdditionalNetwork asks again whether the caller is an org_admin.
CreateNetwork(p, on) == on.commercial /\ on.multiNetwork /\ p.role = "org_admin"

ManageTeam(p) == p.role \in {"org_admin", "manager"}
InviteMember(p, role) == ManageTeam(p) /\ role \in DOMAIN ModuleMatrix
ChangeMember(p, role) == ManageTeam(p) /\ role \in DOMAIN ModuleMatrix
ReadBilling(p) == p.role = "org_admin"
ReadLicensing(p) == CanPerformAction(p, "licensing")
Brands(p) == CanPerformAction(p, "licensing") \/ p.role = "manager"
ReadBranding(p) == Brands(p)
SaveBranding(p, on) == Brands(p) /\ on.whiteLabel
ReadCapabilities(p) == p.role # "property_owner"
SetCapability(p) == CanPerformAction(p, "capability_admin")

ReadAutomation(p) == CanAccessModule(p, "automation")
CreateRule(p) == CanAccessModule(p, "automation")
PatchRule(p) == CanAccessModule(p, "automation")
FireEvent(p) == CanAccessModule(p, "automation")
RetryRun(p) == CanAccessModule(p, "automation")
ApproveHeld(p) == CanPerformAction(p, "automation_approval")

-----------------------------------------------------------------------------
(* The console of the platform.                                            *)

\* A session: who it acts as, who that is really when it impersonates, and whether the user it
\* acts as is on the allowlist or has the role of a platform admin.
Sessions(people, admins) ==
    {[user |-> u, by |-> b, admin |-> u \in admins] : u \in people, b \in people \cup {"nobody"}}
PlatformAdmin(s, on) == on.commercial /\ s.by = "nobody" /\ s.admin
ConsoleMe(s, on) ==
    [enabled |-> on.commercial, impersonating |-> on.commercial /\ s.by # "nobody",
     isSuperAdmin |-> on.commercial /\ s.by = "nobody" /\ PlatformAdmin(s, on)]
\* The session that the caller goes on with; impersonateUser itself is better-auth's.
Impersonate(s, user, on, admins) ==
    IF PlatformAdmin(s, on) /\ user # s.user
    THEN [user |-> user, by |-> s.user, admin |-> user \in admins] ELSE s
StopImpersonating(s, admins) ==
    IF s.by # "nobody" THEN [user |-> s.by, by |-> "nobody", admin |-> s.by \in admins] ELSE s
\* What a PATCH leaves out stays.
PatchSubscription(entitled, patch) ==
    [k \in DOMAIN entitled |-> IF k \in DOMAIN patch THEN patch[k] ELSE entitled[k]]
\* An address on the allowlist is not exchanged for one that is not.
MayRename(listed, from, to) == from = to \/ from \notin listed \/ to \in listed

-----------------------------------------------------------------------------
(* The calls of a page, each with the records the page has in hand.        *)

GuestsCalls(p) ==
    \A g \in GuestList(p) :
        /\ GuestRecord(p, g.key) = {g}
        /\ \A home \in g.homes : EnrichGuest(p, home)
        /\ \A id \in g.ids : ReservationRecord(p, id)
ReservationsCalls(p) ==
    \A f \in Homes \cup {All}, w \in Windows : \A id \in Reservations(p, f, w) :
        ReservationRecord(p, id) /\ AttachNote(p, id)
TasksCalls(p, on) ==
    /\ \A t \in TaskList(p, All) : AdmitsTask(p, t)
    /\ \A f \in Homes \cup {All}, w \in Windows : \A home \in Schedule(p, f, w, on) : AdmitsHome(p, "tasks", home)
ReviewsCalls(p) ==
    \A i \in ReviewList(p, All) : ReviewRecord(p, i) /\ AdmitsReview(p, i)
ReportsCalls(p, on) ==
    \A f \in Homes \cup {All} :
        ReportedHomes(p, f) = ForecastContext(p, f) /\ (on.ai => Forecast(p, on))
YieldCalls(p, on) ==
    on.ai => /\ "rates" \in AiStatus(p, on).modules
             /\ PricingContext(p, All).homes = RateHomes(p)
PropertyCalls(p) ==
    \A home \in PropertyList(p, TRUE) :
        /\ PropertyRecord(p, home) /\ EditProperty(p, home)
        /\ \A r \in PropertyRooms(home) : LabelRoom(p, home, r)
PaymentsCalls(p) ==
    \A id \in Payable(p, All) : PostPayment(p, id, "payment") /\ ReservationRecord(p, id)
InboxCalls(p, on) ==
    \A id \in Conversations(p) :
        /\ ReadConversation(p, stays[id].home, id) /\ ReservationRecord(p, id)
        /\ on.ai => DraftReply(p, id, on)
DayCalls(p) == \A home \in CalendarHomes(p, All) : NoteDay(p, home) /\ BookDirect(p, home)
AutomationCalls(p) ==
    ReadAutomation(p) /\ CreateRule(p) /\ PatchRule(p) /\ FireEvent(p) /\ RetryRun(p) /\ ApproveHeld(p)
\* The unread messages at the top of every page.
HeaderCalls(p) == CanAccessModule(p, "inbox") => Admits(p, "inbox")

TeamCalls(p) == ManageTeam(p) /\ \A role \in DOMAIN ModuleMatrix : InviteMember(p, role) /\ ChangeMember(p, role)
IntegrationsCalls(p, on) ==
    p.role \in {"org_admin", "manager"} =>
        /\ ReadCredentials(p) /\ ReadSyncHealth(p) /\ Admits(p, "properties")
        /\ ~on.commercial => SaveCredentials(p, on) /\ ImportCatalog(p)
        /\ on.commercial => OnboardProperty(p, on) /\ ConnectOta(p)
        /\ PullNow(p) /\ AckNow(p) /\ RetryDeadLetters(p)
        /\ \A home \in Homes : MintChannelSession(p, home)
GeneralCalls(p, on) == on.whiteLabel => ReadBranding(p) /\ SaveBranding(p, on)
CanCreateNetwork(p, on) == on.multiNetwork /\ p.role = "org_admin"

ShownPage(p, module, on) ==
    CASE module = "guests" -> GuestsCalls(p)        [] module = "reservations" -> ReservationsCalls(p)
      [] module = "tasks" -> TasksCalls(p, on)      [] module = "reviews" -> ReviewsCalls(p)
      [] module = "reports" -> ReportsCalls(p, on)  [] module = "rates" -> YieldCalls(p, on)
      [] module = "properties" -> PropertyCalls(p)  [] module = "payments" -> PaymentsCalls(p)
      [] module = "inbox" -> InboxCalls(p, on)      [] module = "calendar" -> DayCalls(p)
      [] module = "automation" -> AutomationCalls(p) [] module = "owner" -> OwnerList(p, All) = OwnerBookings(p, All)
      [] module = "dashboard" -> HeaderCalls(p)
ShownSettings(p, item, on) ==
    CASE item = "team" -> TeamCalls(p) [] item = "integrations" -> IntegrationsCalls(p, on)
      [] item = "billing" -> ReadBilling(p) /\ ReadLicensing(p) [] item = "general" -> GeneralCalls(p, on)
      [] item \in {"notifications", "security", "api"} -> TRUE

-----------------------------------------------------------------------------
(* Phones.                                                                 *)

\* moduleForPath, resolveMobileDeepLink, buildMobileBottomActions.
LinkedModules == AllStaff \cup {"owner"}
DeepLink(p, path) == path \in LinkedModules /\ CanAccessModule(p, path)
BottomActions(p) == {"dashboard", "tasks", "reservations", "calendar"} \cap SidebarItems(p)
\* registerPushToken: the list of one user, where a token that comes again goes to the end.
Without(list, token) == FoldLeft(LAMBDA kept, t : IF t = token THEN kept ELSE Append(kept, t), <<>>, list)
RegisterToken(tokens, user, token) == [tokens EXCEPT ![user] = Append(Without(@, token), token)]

-----------------------------------------------------------------------------
(* Properties.                                                             *)

\* With everything on; a page asks for less when something is off.
Full == [ai |-> TRUE, commercial |-> TRUE, multiNetwork |-> TRUE, whiteLabel |-> TRUE]
\* Every call of a page in the sidebar is taken, with whatever record the page shows.
PagesAreServed == \A p \in Principals : \A m \in SidebarItems(p) : ShownPage(p, m, Full)
\* So is every call of a page of the settings, for each role and whatever is on; a role without
\* the page may not write through its routes either.
SettingsAreServed ==
    \A role \in DOMAIN ModuleMatrix, on \in Installations :
        LET p == Principal("anyone", role, {}, {})
        IN  /\ \A item \in SettingsItems(p) : ShownSettings(p, item, on)
            /\ CanCreateNetwork(p, on) /\ on.commercial => CreateNetwork(p, on)
            /\ SettingsItems(p) = {} =>
                ~(SaveBranding(p, on) \/ SetCapability(p) \/ ManageTeam(p) \/ ReadBilling(p)
                    \/ SyncInternally(p) \/ SaveCredentials(p, on) \/ ApproveHeld(p) \/ PullMessages(p))
            /\ SetCapability(p) => ReadCapabilities(p)
            /\ SyncInternally(p) <=> PullNow(p)
\* "Owner portal" and nothing else: no list of the staff has a record for an owner, and the
\* portal has no home that another owner has.
OwnersApart ==
    \A p \in Principals : p.role = "property_owner" =>
        /\ GuestList(p) = {} /\ TaskList(p, All) = {} /\ ReviewList(p, All) = {}
        /\ PaymentList(p, All) = {} /\ PropertyList(p, TRUE) = {} /\ Conversations(p) = {}
        /\ RateHomes(p) = {} /\ ReportedHomes(p, All) = {}
        /\ \A id \in DOMAIN stays : ~ReservationRecord(p, id)
        /\ OwnerPortal(p, All) \subseteq p.owns
        /\ OwnerList(p, All) = {id \in DOMAIN stays : stays[id].home \in OwnerPortal(p, All)}
\* The line of a conversation and the calendar of the same day: a booking nobody has checked in
\* is called in house, or due, on the days of its bar and the day it leaves.
LinesFollowBars ==
    \A id \in DOMAIN stays, today \in UNION {Days(w) : w \in Windows} :
        LET s == stays[id]
        IN  Live(s) /\ s.op = "none" =>
            (StatusLine(s, today) \in {"In house", "Check-in today"}
                <=> OverlapsDay(id, today) \/ today = s.to)
\* A day of check-outs that is scheduled names each booking that leaves, one that the day after
\* no longer counts.
CheckOutsAreDue ==
    \A p \in Principals, w \in Windows : \A id \in OpsContext(p, All, w).checkOuts :
        /\ stays[id].home \in OpsContext(p, All, w).homes
        /\ ~OverlapsDay(id, stays[id].to) /\ id \in PricingContext(p, All).live
\* A link opens exactly the pages that the sidebar or the settings offer.
LinksArePages ==
    \A role \in DOMAIN ModuleMatrix :
        LET p == Principal("anyone", role, {}, {})
        IN  /\ \A path \in LinkedModules \cup {"unknown"} :
                DeepLink(p, path) <=> path \in SidebarItems(p) \/ (path = "settings" /\ SettingsItems(p) # {})
            /\ role # "property_owner" => BottomActions(p) # {}
\* Who impersonates has no console, one call gives the session back, and a console that is shown
\* is one whose routes answer.
ConsoleCloses ==
    LET people == {"ann", "bob"} IN
    \A admins \in SUBSET people, on \in Installations : \A s \in Sessions(people, admins), u \in people :
        LET t == Impersonate(s, u, on, admins)
        IN  /\ ConsoleMe(s, on).isSuperAdmin <=> PlatformAdmin(s, on)
            /\ t # s => /\ ~PlatformAdmin(t, on) /\ ConsoleMe(t, on).impersonating
                        /\ \A v \in people : Impersonate(t, v, on, admins) = t
                        /\ StopImpersonating(t, admins) = s
            /\ \A from \in admins, to \in people : MayRename(admins, from, to) => to \in admins
            /\ PatchSubscription(PatchSubscription(on, [whiteLabel |-> TRUE]), [multiNetwork |-> TRUE])
                = PatchSubscription(PatchSubscription(on, [multiNetwork |-> TRUE]), [whiteLabel |-> TRUE])
\* A device that registers again has one entry, and the entries of others stay.
DevicesOnce ==
    LET tokens == RegisterToken(RegisterToken([u \in {"ann", "bob"} |-> <<"d1">>], "ann", "d2"), "ann", "d1")
    IN  tokens["ann"] = <<"d2", "d1">> /\ tokens["bob"] = <<"d1">>

\* The guards of the routes are written apart from the matrices that the pages are drawn from,
\* and from the lists that hand a page its records: they must admit the same calls. The second
\* part is about no record, and the same in every state.
RoutesAgree == PagesAreServed /\ OwnersApart /\ LinesFollowBars /\ CheckOutsAreDue
GuardsAgree == SettingsAreServed /\ LinksArePages /\ ConsoleCloses /\ DevicesOnce
=============================================================================
