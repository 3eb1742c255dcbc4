--------------------------------- MODULE Accounts ---------------------------------
(***************************************************************************)
(* Users, networks and memberships: sign-up, the first set-up, additional  *)
(* networks, and the team page's invite, update and remove.  Every request *)
(* is a row of statements without a transaction: it may fail, or another   *)
(* request may run, between any two of them.                               *)
(*                                                                         *)
(*   apps/web/server/utils/provision-tenant.ts      tenants                *)
(*   apps/web/server/utils/team.ts                  members and scopes     *)
(*   apps/web/server/utils/auth.ts, packages/auth   who may do what        *)
(*   apps/web/server/api/{setup,signup,networks,settings/team}             *)
(*                                                                         *)
(* All networks are given one name (the sign-up form has a default), so a  *)
(* network is known by the number in its slug.                             *)
(***************************************************************************)
EXTENDS Naturals, FiniteSets

CONSTANTS
    Users,          \* by their e-mail address
    Properties,     \* rows of the table properties
    Roles,          \* of memberships: a subset of MEMBER_ROLES with org_admin
    Requests,       \* requests that run at once
    Edition,        \* "community" or "commercial"
    SlugAttempts,   \* 5 in the code: the slugs tried for a new network
    MaxNetworks,    \* bound: no more networks are asked for
    MaxChanges,     \* bound: requests of the team page
    MaxBreaks       \* bound: statements that fail

VARIABLES
    users,          \* rows of user
    credentials,    \* users with a password
    networks,       \* slug numbers taken
    role,           \* membership: network -> user -> role, or "none"
    staffScope, ownerScope,     \* property_memberships, owner_properties
    entitled,       \* networks with a row of entitlements
    request,        \* requests under way
    changes, breaks
accountVars == <<users, credentials, networks, role, staffScope, ownerScope, entitled, request,
                 changes, breaks>>

Networks == 1..SlugAttempts
NetworkWideRoles == {"org_admin", "manager"}
NoRequest == [op |-> "none", at |-> "idle", network |-> 0, user |-> "none", was |-> "none", next |-> "none", scope |-> {}]

AccountsInit ==
    /\ users = {} /\ credentials = {} /\ networks = {} /\ entitled = {} /\ changes = 0 /\ breaks = 0
    /\ role = [n \in Networks |-> [u \in Users |-> "none"]]
    /\ staffScope = [n \in Networks |-> [u \in Users |-> {}]] /\ ownerScope = staffScope
    /\ request = [q \in Requests |-> NoRequest]

Go(q, at) == request' = [request EXCEPT ![q].at = at]
End(q) == request' = [request EXCEPT ![q] = NoRequest]
Start(q, r) == request[q] = NoRequest /\ request' = [request EXCEPT ![q] = r]
At(q, at) == request[q].at = at
tables == <<users, credentials, networks, role, staffScope, ownerScope, entitled>>
counts == <<changes, breaks>>

\* A statement fails, or the process dies: what was written stays.
Breaks(q) ==
    /\ request[q] # NoRequest /\ breaks < MaxBreaks /\ breaks' = breaks + 1
    /\ End(q) /\ UNCHANGED <<tables, changes>>

-----------------------------------------------------------------------------
(* Tenants.                                                                *)

Admins(n) == {u \in Users : role[n][u] = "org_admin"}
\* buildPrincipal: the role of the membership decides.
IsManager(n, u) == u \in credentials /\ role[n][u] \in NetworkWideRoles

\* POST /api/setup/bootstrap only while there is no user; POST /api/signup always.
SignUp(q, u) ==
    /\ Cardinality(networks) < MaxNetworks
    /\ Edition = "community" => users = {}
    /\ Start(q, [NoRequest EXCEPT !.op = "signup", !.at = "account", !.user = u])
    /\ UNCHANGED <<tables, counts>>
\* signUpEmail: an address that is taken is refused.
SignUpEmail(q) ==
    LET u == request[q].user
    IN  /\ request[q].op = "signup" /\ At(q, "account")
        /\ \/ u \in users /\ End(q) /\ UNCHANGED <<users, credentials>>
           \/ /\ u \notin users /\ users' = users \cup {u} /\ credentials' = credentials \cup {u}
              /\ Go(q, "network")
        /\ UNCHANGED <<networks, role, staffScope, ownerScope, entitled, counts>>
\* POST /api/networks, of an admin whose network is entitled to more than one.
AskNetwork(q, n, u) ==
    /\ Edition = "commercial" /\ Cardinality(networks) < MaxNetworks
    /\ u \in credentials /\ role[n][u] = "org_admin" /\ n \in entitled
    /\ Start(q, [NoRequest EXCEPT !.op = "network", !.at = "network", !.user = u])
    /\ UNCHANGED <<tables, counts>>
\* insertNetworkWithUniqueSlug: the first slug that is free, if it is among those tried; one
\* whose insert fails is passed over.
InsertNetwork(q) ==
    /\ At(q, "network")
    /\ \/ networks = Networks /\ End(q) /\ UNCHANGED <<networks, breaks>>
       \/ \E n \in Networks \ networks :
            /\ breaks' = breaks + Cardinality((1..(n - 1)) \ networks) /\ breaks' <= MaxBreaks
            /\ networks' = networks \cup {n}
            /\ request' = [request EXCEPT ![q].at = "admin", ![q].network = n]
    /\ UNCHANGED <<users, credentials, role, staffScope, ownerScope, entitled, changes>>
InsertAdmin(q) ==
    /\ At(q, "admin") /\ Go(q, "entitle")
    /\ role' = [role EXCEPT ![request[q].network][request[q].user] = "org_admin"]
    /\ UNCHANGED <<users, credentials, networks, staffScope, ownerScope, entitled, counts>>
InsertEntitlements(q) ==
    /\ At(q, "entitle") /\ End(q) /\ entitled' = entitled \cup {request[q].network}
    /\ UNCHANGED <<users, credentials, networks, role, staffScope, ownerScope, counts>>

-----------------------------------------------------------------------------
(* The team.  requireTeamAccess is asked once, when the request comes.     *)

TeamRequest(q, n, r) ==
    /\ changes < MaxChanges /\ changes' = changes + 1 /\ Start(q, r)
    /\ \E a \in Users : IsManager(n, a) /\ (r.op = "remove" => a # r.user)
    /\ UNCHANGED <<tables, breaks>>
\* The page sends no properties for a network-wide role.
ScopeFor(next, scope) == next \in NetworkWideRoles => scope = {}

Invite(q, n, u, next, scope) ==
    ScopeFor(next, scope) /\ TeamRequest(q, n, [op |-> "invite", at |-> "account", network |-> n,
                             user |-> u, was |-> "none", next |-> next, scope |-> scope])
\* inviteTeamMember inserts the user and, in another statement, the password.
InviteUser(q) ==
    /\ request[q].op = "invite" /\ At(q, "account")
    /\ users' = users \cup {request[q].user}
    /\ Go(q, IF request[q].user \in users THEN "member" ELSE "password")
    /\ UNCHANGED <<credentials, networks, role, staffScope, ownerScope, entitled, counts>>
InvitePassword(q) ==
    /\ At(q, "password") /\ credentials' = credentials \cup {request[q].user} /\ Go(q, "member")
    /\ UNCHANGED <<users, networks, role, staffScope, ownerScope, entitled, counts>>
\* A member already (409), or inserted.
InsertMember(q) ==
    LET r == request[q]
    IN  /\ At(q, "member")
        /\ \/ role[r.network][r.user] # "none" /\ End(q) /\ UNCHANGED role
           \/ /\ role[r.network][r.user] = "none" /\ Go(q, "clear")
              /\ role' = [role EXCEPT ![r.network][r.user] = r.next]
        /\ UNCHANGED <<users, credentials, networks, staffScope, ownerScope, entitled, counts>>

Update(q, n, u, next, scope) ==
    ScopeFor(next, scope) /\ TeamRequest(q, n, [op |-> "update", at |-> "find", network |-> n,
                             user |-> u, was |-> "none", next |-> next, scope |-> scope])
AskRemoval(q, n, u) ==
    TeamRequest(q, n, [op |-> "remove", at |-> "find", network |-> n, user |-> u,
                       was |-> "none", next |-> "none", scope |-> {}])
\* updateTeamMember and removeTeamMember read the row (404 without one).
FindMember(q) ==
    LET r == request[q]
        row == role[r.network][r.user]
    IN  /\ At(q, "find") /\ UNCHANGED <<tables, counts>>
        /\ IF row = "none" THEN End(q)
           ELSE request' = [request EXCEPT ![q].was = row, ![q].at =
                    IF row = "org_admin" /\ r.next # "org_admin" THEN "count" ELSE "write"]
Slip_AnyAdmin(n) == TRUE
OthersRemain(n) == Cardinality(Admins(n)) > 1
\* "Cannot demote the last organization admin", "Cannot remove the last organization admin"
CountAdmins(q) ==
    /\ At(q, "count") /\ UNCHANGED <<tables, counts>>
    /\ IF OthersRemain(request[q].network) THEN Go(q, "write") ELSE End(q)
\* The role, if it changes; a removal goes on with the scopes.
WriteRole(q) ==
    LET r == request[q]
    IN  /\ At(q, "write") /\ Go(q, "clear")
        /\ role' = IF r.op = "update" /\ r.next # r.was /\ role[r.network][r.user] # "none"
                   THEN [role EXCEPT ![r.network][r.user] = r.next] ELSE role
        /\ UNCHANGED <<users, credentials, networks, staffScope, ownerScope, entitled, counts>>
\* setMemberPropertyScope: both tables are cleared, then one is filled.
ClearStaff(q) ==
    /\ At(q, "clear") /\ Go(q, "clearOwner")
    /\ staffScope' = [staffScope EXCEPT ![request[q].network][request[q].user] = {}]
    /\ UNCHANGED <<users, credentials, networks, role, ownerScope, entitled, counts>>
ClearOwner(q) ==
    /\ At(q, "clearOwner") /\ Go(q, IF request[q].op = "remove" THEN "drop" ELSE "fill")
    /\ ownerScope' = [ownerScope EXCEPT ![request[q].network][request[q].user] = {}]
    /\ UNCHANGED <<users, credentials, networks, role, staffScope, entitled, counts>>
\* Nothing for a network-wide role; without properties the request is refused here (400),
\* and rows that another request has filled by now meet a unique index (500).
FillScope(q) ==
    LET r == request[q]
        Filled(s) == IF s[r.network][r.user] \cap r.scope = {}
                     THEN [s EXCEPT ![r.network][r.user] = @ \cup r.scope] ELSE s
    IN  /\ At(q, "fill") /\ End(q)
        /\ ownerScope' = IF r.next = "property_owner" THEN Filled(ownerScope) ELSE ownerScope
        /\ staffScope' = IF r.next \in NetworkWideRoles \cup {"property_owner"} THEN staffScope ELSE Filled(staffScope)
        /\ UNCHANGED <<users, credentials, networks, role, entitled, counts>>
DropMember(q) ==
    /\ At(q, "drop") /\ End(q)
    /\ role' = [role EXCEPT ![request[q].network][request[q].user] = "none"]
    /\ UNCHANGED <<users, credentials, networks, staffScope, ownerScope, entitled, counts>>

-----------------------------------------------------------------------------
AccountStep(q) ==
    \/ SignUpEmail(q) \/ InsertNetwork(q) \/ InsertAdmin(q) \/ InsertEntitlements(q)
    \/ InviteUser(q) \/ InvitePassword(q) \/ InsertMember(q)
    \/ FindMember(q) \/ CountAdmins(q) \/ WriteRole(q)
    \/ ClearStaff(q) \/ ClearOwner(q) \/ FillScope(q) \/ DropMember(q)
AccountsNext ==
    \E q \in Requests :
        \/ AccountStep(q) \/ Breaks(q)
        \/ \E u \in Users : SignUp(q, u)
        \/ \E n \in networks, u \in Users :
            \/ AskNetwork(q, n, u) \/ AskRemoval(q, n, u)
            \/ \E next \in Roles, scope \in SUBSET Properties :
                 Invite(q, n, u, next, scope) \/ Update(q, n, u, next, scope)
AccountsSpec == AccountsInit /\ [][AccountsNext]_accountVars

-----------------------------------------------------------------------------
(* Properties.                                                             *)

\* "Cannot demote the last organization admin": a network that has members has an admin,
\* after any sequence of requests of which any may break off between two statements.
AdminRemains == \A n \in networks : (\E u \in Users : role[n][u] # "none") => Admins(n) # {}
=============================================================================
