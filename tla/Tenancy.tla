--------------------------------- MODULE Tenancy ---------------------------------
(***************************************************************************)
(* How a network gets its Channex properties: the key and the group it     *)
(* uses, what a process reads at the first touch of a network, the import  *)
(* of the catalog, and the requests that create a property.                *)
(*                                                                         *)
(*   apps/web/server/utils/sync.ts                hydration, import        *)
(*   apps/web/server/utils/channex-onboarding.ts  the group, a property    *)
(*   apps/web/server/utils/channex-connect-ota.ts, channex-channels.ts     *)
(*   apps/web/server/utils/integrations.ts        keys                     *)
(*   packages/sync/src/jobs/import-catalog.ts     what an import keeps     *)
(*                                                                         *)
(* The commercial edition has one key, which sees the properties of all    *)
(* tenants, and a Channex group for each; in the community edition each    *)
(* network has a key of its own account.                                   *)
(***************************************************************************)
EXTENDS Naturals, Sequences, FiniteSets

CONSTANTS
    Tenants,        \* networks
    Calls,          \* requests that run at once
    NoTenant,
    Estate,         \* Channex property -> its account, for properties that no tenant has
    MaxGroups, MaxProperties, MaxCalls, MaxOutages  \* bounds: groups and properties
                    \* made, requests, calls that fail and restarts

VARIABLES
    commercial,     \* the edition of this installation
    groupOf,        \* networks.channex_group_id, 0 for none
    keyRow,         \* network_secrets: the account of the network's key, 0 for none
    secret,         \* the same in the memory of the process
    hydrated, importTried,  \* the flags of the process
    listed,         \* the properties in the memory of each network
    groups, properties,     \* at Channex: groups made, property -> [account, group]
    call,           \* requests under way
    named, keyed, answered, \* history: groups and keys each network has had,
                            \* properties whose creation was answered
    asked, outages
tenancyVars == <<commercial, groupOf, keyRow, secret, hydrated, importTried, listed, groups,
                 properties, call, named, keyed, answered, asked, outages>>

Platform == 1       \* the account of the platform's key
Accounts == {2, 3}  \* accounts of tenants
\* Properties are numbered.
ASSUME EstateAssumption ==
    NoTenant \notin Tenants /\ Estate \in Seq({Platform} \cup Accounts)
NoCall == [op |-> "none", at |-> "idle", of |-> NoTenant, then |-> "end", goal |-> "end", id |-> 0, seen |-> 0, ids |-> {}]

TenancyInit ==
    /\ commercial \in BOOLEAN
    /\ groupOf = [n \in Tenants |-> 0] /\ keyRow = groupOf /\ secret = groupOf
    /\ hydrated = {} /\ importTried = {} /\ listed = [n \in Tenants |-> {}]
    /\ groups = 0 /\ properties = [p \in DOMAIN Estate |-> [account |-> Estate[p], group |-> 0]]
    /\ call = [c \in Calls |-> NoCall]
    /\ named = [n \in Tenants |-> {}] /\ keyed = named /\ answered = named /\ asked = 0 /\ outages = 0

rows == <<groupOf, keyRow>>
memory == <<secret, hydrated, importTried, listed>>
channex == <<groups, properties>>
history == <<named, keyed, answered>>
bounds == <<asked, outages>>

Goes(c, r) == call' = [call EXCEPT ![c] = IF r.at = "end" THEN NoCall ELSE r]
To(c, at) == Goes(c, [call[c] EXCEPT !.at = at])
Is(c, at) == call[c].at = at
\* What follows a hydration, at once when the network is hydrated; what follows an import.
Hydrate(c, r, then) ==
    Goes(c, IF r.of \in hydrated THEN [r EXCEPT !.at = then] ELSE [r EXCEPT !.at = "secrets", !.then = then])
Resume(c) ==
    Goes(c, [call[c] EXCEPT !.at = call[c].then, !.then = "end"])
Key(n) == IF commercial THEN Platform ELSE secret[n]

-----------------------------------------------------------------------------
(* Requests.                                                               *)

Asks(c, op, n) ==
    /\ call[c] = NoCall /\ asked < MaxCalls /\ asked' = asked + 1
    /\ op # "import" => (commercial <=> op # "key")
    /\ UNCHANGED <<commercial, rows, memory, channex, history, outages>>
For(op, n) == [NoCall EXCEPT !.op = op, !.of = n]
AskImport(c, n) == Asks(c, "import", n) /\ Hydrate(c, For("import", n), "scope")
AskOnboard(c, n) ==
    Asks(c, "onboard", n) /\ Goes(c, [For("onboard", n) EXCEPT !.at = "group", !.goal = "create"])
AskConnect(c, n) == Asks(c, "connect", n) /\ Hydrate(c, For("connect", n), "choose")
\* A session for a property that the page shows.
AskSession(c, n) == Asks(c, "session", n) /\ Hydrate(c, For("session", n), "choose")
AskKey(c, n) ==
    /\ Asks(c, "key", n)
    /\ \E a \in Accounts : Goes(c, [For("key", n) EXCEPT !.at = "keyRow", !.id = a])

\* ensureSecretsHydrated.  The rows are read, and more tables after them; the flag is set when
\* all have been read, before the first import.
ReadSecrets(c) ==
    /\ Is(c, "secrets")
    /\ Goes(c, [call[c] EXCEPT !.at = "seed", !.seen = keyRow[call[c].of]])
    /\ UNCHANGED <<commercial, rows, memory, channex, history, bounds>>
Seed(c) ==
    LET n == call[c].of
    IN  /\ Is(c, "seed") /\ To(c, "hydrated")
        /\ secret' = [secret EXCEPT ![n] = IF call[c].seen = 0 THEN @ ELSE call[c].seen]
        /\ UNCHANGED <<commercial, rows, hydrated, importTried, listed, channex, history, bounds>>
SetHydrated(c) ==
    LET n == call[c].of
    IN  /\ Is(c, "hydrated") /\ hydrated' = hydrated \cup {n} /\ importTried' = importTried \cup {n}
        /\ IF n \in importTried \/ listed[n] # {} THEN Resume(c) ELSE To(c, "scope")
        /\ UNCHANGED <<commercial, rows, secret, listed, channex, history, bounds>>

-----------------------------------------------------------------------------
(* runInternalImport.  An import of a hydration that fails is passed over. *)

\* getNetworkChannexGroupId, and listGroupPropertyIds with what it found.
InGroup(g) == {p \in DOMAIN properties : properties[p].group = g}
Visible(n) == {p \in DOMAIN properties : properties[p].account = Key(n)}
Scope(c) ==
    LET n == call[c].of
        r == call[c]
    IN  /\ Is(c, "scope")
        /\ CASE Key(n) = 0 \/ (commercial /\ groupOf[n] = 0) -> Resume(c)
             [] commercial /\ groupOf[n] # 0 -> Goes(c, [r EXCEPT !.at = "ids", !.seen = groupOf[n]])
             [] ~commercial /\ Key(n) # 0 -> Goes(c, [r EXCEPT !.at = "list", !.ids = Visible(n)])
        /\ UNCHANGED <<commercial, rows, memory, channex, history, bounds>>
\* The lease: another import of this network that is under way makes this one skip, unless
\* both took the holder's name in the same millisecond.
OtherImports(c) == \E d \in Calls \ {c} : call[d].of = call[c].of /\ Is(d, "list")
Ids(c) ==
    /\ Is(c, "ids")
    /\ \/ Goes(c, [call[c] EXCEPT !.at = "list", !.ids = InGroup(call[c].seen)])
       \/ OtherImports(c) /\ Resume(c)
    /\ UNCHANGED <<commercial, rows, memory, channex, history, bounds>>
Slip_EmptyIsAll(n, ids) == IF ids = {} THEN Visible(n) ELSE Visible(n) \cap ids
\* importProperties: the pages of the properties with these ids, none for an empty list.
Imported(n, ids) == Visible(n) \cap ids
List(c) ==
    LET n == call[c].of
    IN  /\ Is(c, "list") /\ Resume(c)
        /\ listed' = [listed EXCEPT ![n] = @ \cup Imported(n, call[c].ids)]
        /\ UNCHANGED <<commercial, rows, secret, hydrated, importTried, channex, history, bounds>>

-----------------------------------------------------------------------------
(* Properties of a tenant, and the sessions of its channels.               *)

\* connectOtaChannel takes the first property it knows, or makes one; a session finds its
\* property or ends.
Choose(c) ==
    LET known == listed[call[c].of] # {}
    IN  /\ Is(c, "choose")
        /\ \/ known /\ Goes(c, [call[c] EXCEPT !.at = "group", !.goal = "token"])
           \/ /\ ~known /\ call[c].op = "connect"
              /\ Goes(c, [call[c] EXCEPT !.at = "group", !.goal = "create"])
           \/ ~known /\ call[c].op = "session" /\ To(c, "end")
        /\ UNCHANGED <<commercial, rows, memory, channex, history, bounds>>
\* ensureNetworkChannexGroup: the row's group, or a new one that is then written to the row.
ReadGroup(c) ==
    LET n == call[c].of
        r == [call[c] EXCEPT !.id = groupOf[n]]
    IN  /\ Is(c, "group") /\ Hydrate(c, r, IF r.id # 0 THEN r.goal ELSE "newGroup")
        /\ UNCHANGED <<commercial, rows, memory, channex, history, bounds>>
CreateGroup(c) ==
    /\ Is(c, "newGroup") /\ groups < MaxGroups /\ groups' = groups + 1
    /\ Goes(c, [call[c] EXCEPT !.at = "keepGroup", !.id = groups'])
    /\ UNCHANGED <<commercial, rows, memory, properties, history, bounds>>
Slip_NotWritten(n, g) == groupOf
GroupWritten(n, g) == [groupOf EXCEPT ![n] = g]
KeepGroup(c) ==
    LET n == call[c].of
        g == call[c].id
    IN  /\ Is(c, "keepGroup") /\ groupOf' = GroupWritten(n, g) /\ To(c, call[c].goal)
        /\ named' = [named EXCEPT ![n] = @ \cup {g}]
        /\ UNCHANGED <<commercial, keyRow, memory, channex, keyed, answered, bounds>>
\* createProperty in the group; its answer puts the property into the catalog.
CreateProperty(c) ==
    LET p == Cardinality(DOMAIN properties) + 1
    IN  /\ Is(c, "create") /\ p <= MaxProperties
        /\ properties' = [q \in DOMAIN properties \cup {p} |->
                            IF q = p THEN [account |-> Platform, group |-> call[c].id] ELSE properties[q]]
        /\ Goes(c, [call[c] EXCEPT !.at = "created", !.ids = {p}])
        /\ UNCHANGED <<commercial, rows, memory, groups, history, bounds>>
Created(c) ==
    LET n == call[c].of
    IN  /\ Is(c, "created") /\ listed' = [listed EXCEPT ![n] = @ \cup call[c].ids]
        /\ answered' = [answered EXCEPT ![n] = @ \cup call[c].ids]
        /\ To(c, IF call[c].op = "connect" THEN "furnish" ELSE "end")
        /\ UNCHANGED <<commercial, rows, secret, hydrated, importTried, channex, named, keyed, bounds>>
\* createRoomType, then createRatePlan; each may fail, and the property stays.
Furnish(c) ==
    /\ \/ Is(c, "furnish") /\ To(c, "rate")
       \/ Is(c, "rate") /\ Goes(c, [call[c] EXCEPT !.at = "group", !.goal = "token"])
    /\ UNCHANGED <<commercial, rows, memory, channex, history, bounds>>
\* createOneTimeToken: the answer ends the request.
Token(c) ==
    /\ Is(c, "token") /\ To(c, "end")
    /\ UNCHANGED <<commercial, rows, memory, channex, history, bounds>>

\* saveNetworkSecret: the row, then the memory.
SaveKeyRow(c) ==
    LET n == call[c].of
    IN  /\ Is(c, "keyRow") /\ keyRow' = [keyRow EXCEPT ![n] = call[c].id] /\ To(c, "keyMemory")
        /\ keyed' = [keyed EXCEPT ![n] = @ \cup {call[c].id}]
        /\ UNCHANGED <<commercial, groupOf, memory, channex, named, answered, bounds>>
SaveKey(c) ==
    /\ Is(c, "keyMemory") /\ To(c, "end")
    /\ secret' = [secret EXCEPT ![call[c].of] = call[c].id]
    /\ UNCHANGED <<commercial, rows, hydrated, importTried, listed, channex, history, bounds>>

-----------------------------------------------------------------------------
(* Faults.                                                                 *)

Outage == outages < MaxOutages /\ outages' = outages + 1
\* A call or its answer fails.  In a hydration that is passed over, elsewhere it ends the
\* request.
CallFails(c) ==
    /\ Outage
    /\ \/ Is(c, "secrets") /\ To(c, "hydrated")
       \/ call[c].at \in {"ids", "list"} /\ Resume(c)
       \/ /\ call[c].at \in {"newGroup", "keepGroup", "create", "created", "furnish", "rate", "token",
                             "keyRow"}
          /\ To(c, "end")
    /\ UNCHANGED <<commercial, rows, memory, channex, history, asked>>
TenancyRestart ==
    /\ Outage /\ call' = [c \in Calls |-> NoCall]
    /\ secret' = [n \in Tenants |-> 0] /\ hydrated' = {} /\ importTried' = {}
    /\ listed' = [n \in Tenants |-> {}]
    /\ UNCHANGED <<commercial, rows, channex, history, asked>>

TenancyNext ==
    \/ \E c \in Calls :
        \/ \E n \in Tenants :
            AskImport(c, n) \/ AskOnboard(c, n) \/ AskConnect(c, n) \/ AskSession(c, n) \/ AskKey(c, n)
        \/ ReadSecrets(c) \/ Seed(c) \/ SetHydrated(c) \/ Scope(c) \/ Ids(c) \/ List(c)
        \/ Choose(c) \/ ReadGroup(c) \/ CreateGroup(c) \/ KeepGroup(c)
        \/ CreateProperty(c) \/ Created(c) \/ Furnish(c) \/ Token(c)
        \/ SaveKeyRow(c) \/ SaveKey(c) \/ CallFails(c)
    \/ TenancyRestart
TenancySpec == TenancyInit /\ [][TenancyNext]_tenancyVars

-----------------------------------------------------------------------------
(* Properties.                                                             *)

\* "the import MUST be scoped to this tenant's Channex group — otherwise every property leaks
\* into the network": a network lists only properties of groups it has had (of accounts whose
\* key it has had, in the community edition).
OwnPropertiesOnly ==
    \A n \in Tenants : \A p \in listed[n] :
        IF commercial THEN properties[p].group \in named[n] ELSE properties[p].account \in keyed[n]

\* A property whose creation was answered is in the group that the network's row names, where
\* the next import finds it, whatever failed or restarted before or since; two requests that
\* made a group each are the exception.
OnboardedReturns ==
    \A n \in Tenants : Cardinality(named[n]) <= 1 =>
        \A p \in answered[n] : properties[p].group = groupOf[n]
=============================================================================
