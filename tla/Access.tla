---------------------------------- MODULE Access ----------------------------------
(***************************************************************************)
(* What a member of a network may touch: modules and actions by role,      *)
(* properties by membership, and the links the page offers.                *)
(*                                                                         *)
(*   packages/auth/src/roles.ts, session.ts       roles, principals        *)
(*   apps/web/server/utils/auth.ts                the principal of a call  *)
(*   apps/web/app/utils/navigation.ts             the sidebar              *)
(***************************************************************************)
LOCAL INSTANCE Naturals

AllStaff == {"dashboard", "calendar", "reservations", "inbox", "tasks", "properties", "rates",
             "reports", "automation", "guests", "reviews", "payments", "settings"}
ModuleMatrix ==
    [org_admin |-> AllStaff, manager |-> AllStaff,
     front_desk |-> AllStaff \ {"reports", "automation", "settings"},
     housekeeping |-> {"dashboard", "tasks", "properties"},
     accounting |-> {"dashboard", "reservations", "guests", "reports", "payments"},
     property_owner |-> {"owner"}]
ActionMatrix ==
    LET manages == {"integrations", "automation_approval", "settings_security", "ari_write", "ai_apply"}
    IN  [org_admin |-> manages \cup {"licensing", "capability_admin"}, manager |-> manages,
         front_desk |-> {}, housekeeping |-> {}, accounting |-> {}, property_owner |-> {"owner_apis"}]
NetworkWide(role) == role \in {"org_admin", "manager"}

\* A membership with the rows of property_memberships and owner_properties, as a principal.
Principal(user, role, members, owns) ==
    [user |-> user, role |-> role, wide |-> NetworkWide(role), members |-> members, owns |-> owns]
CanAccessModule(p, module) == module \in ModuleMatrix[p.role]
CanPerformAction(p, action) == action \in ActionMatrix[p.role]
CanAccessProperty(p, home) ==
    IF p.role = "property_owner" THEN home \in p.owns ELSE p.wide \/ home \in p.members

\* requireReservationsModule, and requireOpsModule for the others.
Admits(p, module) ==
    IF module = "reservations" THEN CanAccessModule(p, "reservations") \/ CanAccessModule(p, "calendar")
    ELSE CanAccessModule(p, module)

-----------------------------------------------------------------------------
(* The sidebar.                                                            *)

SettingsAction ==
    [general |-> "none", team |-> "none", integrations |-> "integrations", billing |-> "licensing",
     notifications |-> "none", security |-> "settings_security", api |-> "integrations"]
ModuleItems == AllStaff \ {"settings"}
SidebarItems(p) ==
    IF CanAccessModule(p, "owner") THEN {"owner"} ELSE {m \in ModuleItems : CanAccessModule(p, m)}
SettingsItems(p) ==
    IF ~CanAccessModule(p, "settings") THEN {}
    ELSE {i \in DOMAIN SettingsAction : SettingsAction[i] = "none" \/ CanPerformAction(p, SettingsAction[i])}
\* requireTeamManager, canManageIntegrations, requireBillingAdmin: whose requests the routes
\* behind the settings pages take.
SettingsGuards(p) ==
    [team |-> p.role \in {"org_admin", "manager"}, integrations |-> CanPerformAction(p, "integrations"),
     billing |-> p.role = "org_admin"]
=============================================================================
