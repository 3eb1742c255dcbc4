------------------------------ MODULE FrontDeskProofs ------------------------------
(***************************************************************************)
(* What the front desk's server keeps, for any number of networks, notes,  *)
(* requests and faults:                                                    *)
(*                                                                         *)
(*   Tenancy        a network lists only its own properties, and finds     *)
(*                  again the ones it was told are made                    *)
(*   CalendarNotes  a note in memory and its row are of the same note, as  *)
(*                  long as no two notes have gone by one id               *)
(*   Billing        the items of the subscription bill the counts of the   *)
(*                  catalog after a view that nothing came in the way of   *)
(*   Accounts       a network with members has an administrator, if one    *)
(*                  request is answered before the next comes              *)
(*   Proposals      what an accept reports as queued is durable            *)
(*   PhysicalRooms  an import ends with the counts, for any room types,    *)
(*                  counts and names, whatever came before                 *)
(***************************************************************************)
EXTENDS Proposals, Tenancy, CalendarNotes, Billing, Accounts, PhysicalRooms, FiniteSetTheorems,
        SequenceTheorems, WellFoundedInduction, TLAPS

-----------------------------------------------------------------------------
(* Tenants.                                                                *)

Hydrating == {"secrets", "seed", "hydrated", "scope", "ids", "list"}
CommunitySteps == {"idle", "secrets", "seed", "hydrated", "scope", "list", "keyRow", "keyMemory"}
CallSteps == Hydrating \cup CommunitySteps \cup
    {"group", "choose", "newGroup", "keepGroup", "create", "created", "furnish", "rate", "token"}
Continuations == {"end", "scope", "choose", "newGroup", "create", "token"}
CallRecord ==
    [op : {"none", "import", "onboard", "connect", "session", "key"}, at : CallSteps,
     of : Tenants \cup {NoTenant}, then : Continuations, goal : {"end", "create", "token"},
     id : Nat, seen : Nat, ids : SUBSET Nat]

\* The properties in groups that a network has had, and those of accounts whose key it has had.
OwnOf == [n \in Tenants |-> {p \in DOMAIN properties : properties[p].group \in named[n]}]
KeyedOf == [n \in Tenants |-> {p \in DOMAIN properties : properties[p].account \in keyed[n]}]

\* What a request r works with when nm are the groups and ky the keys that networks have had, own
\* the properties in their groups, g the groups made: a group that is asked for properties, or is
\* to get one, is a group of the network; so are the properties that are to be listed.
Fits(r, com, nm, ky, own, g) ==
    /\ r \in CallRecord /\ (r.at # "idle" => r.of \in Tenants)
    /\ r.at \notin Hydrating => r.then = "end"
    /\ r.at = "ids" => r.seen \in nm[r.of]
    /\ r.at = "list" /\ com => r.ids \subseteq own[r.of]
    /\ r.at = "keepGroup" => r.id \in 1..g
    /\ r.at = "create" \/ r.then = "create" => r.id \in nm[r.of]
    /\ r.at = "created" => r.ids \subseteq own[r.of]
    /\ r.at = "seed" => r.seen \in ky[r.of] \cup {0}
    /\ r.at = "keyRow" => r.id \in Accounts
    /\ r.at = "keyMemory" => r.id \in ky[r.of]
    /\ ~com => r.at \in CommunitySteps /\ r.then \in {"end", "scope"}

PropertyRecord == [account : {Platform} \cup Accounts, group : Nat]
TenancyTypeOK ==
    /\ commercial \in BOOLEAN /\ groups \in Nat
    /\ \E k \in Nat : properties \in [1..k -> PropertyRecord]
    /\ groupOf \in [Tenants -> Nat] /\ keyRow \in [Tenants -> Nat] /\ secret \in [Tenants -> Nat]
    /\ named \in [Tenants -> SUBSET (1..groups)] /\ keyed \in [Tenants -> SUBSET Accounts]
    /\ listed \in [Tenants -> SUBSET Nat] /\ answered \in [Tenants -> SUBSET Nat]
    /\ call \in [Calls -> CallRecord]
\* The rows and the memory name groups and keys of the network, and only its own properties.
TenantsApart ==
    \A n \in Tenants :
        /\ groupOf[n] \in named[n] \/ (groupOf[n] = 0 /\ named[n] = {})
        /\ keyRow[n] \in keyed[n] \cup {0} /\ secret[n] \in keyed[n] \cup {0}
        /\ listed[n] \subseteq (IF commercial THEN OwnOf[n] ELSE KeyedOf[n])
        /\ answered[n] \subseteq OwnOf[n]
CallsFit == \A c \in Calls : Fits(call[c], commercial, named, keyed, OwnOf, groups)
TenancyInv == TenancyTypeOK /\ TenantsApart /\ CallsFit

LEMMA NoCallFits ==
    ASSUME NEW com, NEW nm, NEW ky, NEW own, NEW g
    PROVE  Fits(NoCall, com, nm, ky, own, g) /\ NoCall.at = "idle" /\ NoCall \in CallRecord
<1>1. NoCall \in CallRecord
  BY DEF NoCall, CallRecord, CallSteps, CommunitySteps, Continuations
<1> QED
  BY <1>1 DEF Fits, NoCall, Hydrating, CommunitySteps

\* What a request works with stays what it is when more groups, keys and properties come.
LEMMA FitsStays ==
    ASSUME NEW r, NEW com, NEW nm, NEW ky, NEW own, NEW g \in Nat, NEW nm2, NEW ky2, NEW own2, NEW g2 \in Nat,
           Fits(r, com, nm, ky, own, g),
           \A n \in Tenants : nm[n] \subseteq nm2[n] /\ ky[n] \subseteq ky2[n] /\ own[n] \subseteq own2[n],
           g <= g2
    PROVE  Fits(r, com, nm2, ky2, own2, g2)
<1>1. r \in CallRecord /\ (r.at # "idle" => r.of \in Tenants)
  BY DEF Fits
<1>2. r.at = "keepGroup" => r.id \in 1..g2
  BY DEF Fits
<1>3. r.then = "create" => r.of \in Tenants
  <2>1. "idle" \notin Hydrating
    BY DEF Hydrating
  <2> QED
    BY <2>1 DEF Fits
<1> QED
  BY <1>1, <1>2, <1>3 DEF Fits

\* A step of one request, when what the others work with only grows.
LEMMA CallsStayFit ==
    ASSUME TenancyTypeOK, CallsFit, NEW c \in Calls, NEW r, Goes(c, r), groups' \in Nat,
           commercial' = commercial, groups <= groups',
           \A n \in Tenants : /\ named[n] \subseteq named'[n] /\ keyed[n] \subseteq keyed'[n]
                              /\ OwnOf[n] \subseteq OwnOf'[n],
           r.at # "end" => Fits(r, commercial, named', keyed', OwnOf', groups')
    PROVE  call' \in [Calls -> CallRecord] /\ CallsFit'
<1> DEFINE e == IF r.at = "end" THEN NoCall ELSE r
<1>1. Fits(e, commercial, named', keyed', OwnOf', groups')
  BY NoCallFits
<1>2. call \in [Calls -> CallRecord] /\ groups \in Nat /\ call' = [call EXCEPT ![c] = e]
  BY DEF TenancyTypeOK, Goes
<1> HIDE DEF e
<1>3. /\ call' \in [Calls -> CallRecord] /\ call'[c] = e
      /\ \A d \in Calls : d # c => call'[d] = call[d]
  BY <1>1, <1>2 DEF Fits
<1>4. ASSUME NEW d \in Calls PROVE Fits(call'[d], commercial, named', keyed', OwnOf', groups')
  <2>1. CASE d = c
    BY <1>1, <1>3, <2>1
  <2>2. CASE d # c
    <3>1. Fits(call[d], commercial, named, keyed, OwnOf, groups)
      BY DEF CallsFit
    <3>2. Fits(call[d], commercial, named', keyed', OwnOf', groups')
      BY <1>2, <3>1, FitsStays
    <3> QED
      BY <1>3, <2>2, <3>2
  <2> QED
    BY <2>1, <2>2
<1> QED
  BY <1>3, <1>4 DEF CallsFit

\* A step that changes nothing else.
LEMMA OnlyCall ==
    ASSUME TenancyInv, UNCHANGED <<commercial, rows, memory, channex, history>>,
           NEW c \in Calls, NEW r, Goes(c, r),
           r.at # "end" => Fits(r, commercial, named, keyed, OwnOf, groups)
    PROVE  TenancyInv'
<1>1. TenancyTypeOK /\ TenantsApart /\ CallsFit /\ groups \in Nat
  BY DEF TenancyInv, TenancyTypeOK
<1>2. UNCHANGED <<commercial, groupOf, keyRow, secret, listed, groups, properties, named, keyed, answered>>
  BY DEF rows, memory, channex, history
<1>3. OwnOf' = OwnOf /\ KeyedOf' = KeyedOf
  BY <1>2 DEF OwnOf, KeyedOf
<1>4. call' \in [Calls -> CallRecord] /\ CallsFit'
  BY <1>1, <1>2, <1>3, CallsStayFit
<1>5. TenancyTypeOK'
  BY <1>1, <1>2, <1>4 DEF TenancyTypeOK
<1>6. TenantsApart'
  BY <1>1, <1>2, <1>3 DEF TenantsApart
<1> QED
  BY <1>4, <1>5, <1>6 DEF TenancyInv

\* A request that begins, or waits, may go on after a hydration.
LEMMA HydrateFits ==
    ASSUME TenancyInv, NEW c \in Calls, NEW r \in CallRecord, NEW x \in Continuations,
           r.of \in Tenants, r.then = "end", x = "create" => r.id \in named[r.of],
           ~commercial => x = "scope", Hydrate(c, r, x),
           UNCHANGED <<commercial, rows, memory, channex, history>>
    PROVE  TenancyInv'
<1> DEFINE a == [r EXCEPT !.at = x]
           b == [r EXCEPT !.at = "secrets", !.then = x]
<1>1. (x # "end" => x \in CallSteps) /\ "secrets" \in CallSteps /\ x # "idle"
  BY DEF Continuations, CallSteps, Hydrating
<1>2. /\ (x # "end" => a \in CallRecord) /\ a.at = x /\ a.of = r.of /\ a.then = "end" /\ a.id = r.id
      /\ b \in CallRecord /\ b.at = "secrets" /\ b.of = r.of /\ b.then = x /\ b.id = r.id
  <2> HIDE DEF CallSteps, Continuations
  <2> QED
    BY <1>1 DEF CallRecord
<1> HIDE DEF a, b
<1>3. /\ x # "end" => Fits(a, commercial, named, keyed, OwnOf, groups)
      /\ Fits(b, commercial, named, keyed, OwnOf, groups)
  BY <1>1, <1>2 DEF Fits, Continuations, Hydrating, CommunitySteps
<1>4. Goes(c, IF r.of \in hydrated THEN a ELSE b)
  BY DEF Hydrate, a, b
<1> QED
  BY <1>2, <1>3, <1>4, OnlyCall

\* After a hydration or an import a request goes on with what it waited with.
LEMMA ResumeFits ==
    ASSUME NEW r, NEW com, NEW nm, NEW ky, NEW own, NEW g, Fits(r, com, nm, ky, own, g), r.at # "idle"
    PROVE  LET e == [r EXCEPT !.at = r.then, !.then = "end"]
           IN  e.at # "end" => Fits(e, com, nm, ky, own, g)
<1> DEFINE e == [r EXCEPT !.at = r.then, !.then = "end"]
<1> SUFFICES ASSUME r.then # "end" PROVE Fits(e, com, nm, ky, own, g)
  BY DEF Fits, CallRecord
<1>1. r \in CallRecord /\ r.then \in Continuations \ {"end"}
  BY DEF Fits, CallRecord
<1>2. r.then \in CallSteps /\ "end" \in Continuations
  BY <1>1 DEF Continuations, CallSteps, Hydrating
<1>3. e \in CallRecord /\ e.at = r.then /\ e.then = "end" /\ e.of = r.of /\ e.id = r.id
  <2> HIDE DEF CallSteps, Continuations
  <2> QED
    BY <1>1, <1>2 DEF CallRecord
<1> HIDE DEF e
<1> QED
  BY <1>1, <1>2, <1>3 DEF Fits, Continuations, CommunitySteps

\* A request at a step is one of a network, and fits.
LEMMA AtWorkFits ==
    ASSUME TenancyInv, NEW c \in Calls
    PROVE  /\ call[c] \in CallRecord /\ Fits(call[c], commercial, named, keyed, OwnOf, groups)
           /\ call[c].at # "idle" => call[c].of \in Tenants
BY DEF TenancyInv, CallsFit, Fits

LEMMA TenancyInitInv ==
    ASSUME TenancyInit PROVE TenancyInv
<1>1. \E k \in Nat : properties \in [1..k -> PropertyRecord]
  <2>1. Len(Estate) \in Nat /\ DOMAIN Estate = 1..Len(Estate)
        /\ \A p \in 1..Len(Estate) : Estate[p] \in {Platform} \cup Accounts
    BY EstateAssumption
  <2>2. properties \in [1..Len(Estate) -> PropertyRecord]
    BY <2>1 DEF TenancyInit, PropertyRecord
  <2> QED
    BY <2>1, <2>2
<1>2. TenancyTypeOK
  BY <1>1, NoCallFits DEF TenancyInit, TenancyTypeOK
<1>3. TenantsApart
  BY DEF TenancyInit, TenantsApart
<1>4. CallsFit
  BY NoCallFits DEF TenancyInit, CallsFit
<1> QED
  BY <1>2, <1>3, <1>4 DEF TenancyInv

LEMMA AskSteps ==
    ASSUME TenancyInv, NEW c \in Calls, NEW n \in Tenants,
           AskImport(c, n) \/ AskOnboard(c, n) \/ AskConnect(c, n) \/ AskSession(c, n) \/ AskKey(c, n)
    PROVE  TenancyInv'
<1>1. UNCHANGED <<commercial, rows, memory, channex, history>>
  BY DEF AskImport, AskOnboard, AskConnect, AskSession, AskKey, Asks
<1>2. NoCall \in CallRecord /\ NoCall.then = "end"
  BY NoCallFits DEF NoCall
<1>3. ASSUME NEW o \in {"none", "import", "onboard", "connect", "session", "key"}
      PROVE  /\ For(o, n) \in CallRecord /\ For(o, n).of = n /\ For(o, n).then = "end" /\ For(o, n).op = o
  BY <1>2 DEF For, CallRecord
<1>4. CASE AskImport(c, n)
  BY <1>1, <1>3, <1>4, HydrateFits DEF AskImport, Continuations
<1>5. CASE AskConnect(c, n) \/ AskSession(c, n)
  <2>1. commercial
    BY <1>5 DEF AskConnect, AskSession, Asks
  <2> QED
    BY <1>1, <1>3, <1>5, <2>1, HydrateFits DEF AskConnect, AskSession, Continuations
<1>6. CASE AskOnboard(c, n)
  <2> DEFINE r == For("onboard", n)
             e == [r EXCEPT !.at = "group", !.goal = "create"]
  <2>1. Goes(c, e) /\ commercial
    BY <1>6 DEF AskOnboard, Asks
  <2>2. r \in CallRecord /\ r.of = n /\ r.then = "end"
    BY <1>3
  <2> HIDE DEF r
  <2>3. e \in CallRecord /\ e.at = "group" /\ e.of = n /\ e.then = "end"
    BY <2>2 DEF CallRecord, CallSteps
  <2> HIDE DEF e
  <2>4. Fits(e, commercial, named, keyed, OwnOf, groups)
    BY <2>1, <2>3 DEF Fits
  <2> QED
    BY <1>1, <2>1, <2>4, OnlyCall
<1>7. CASE AskKey(c, n)
  <2> DEFINE r == For("key", n)
  <2>1. PICK a \in Accounts : Goes(c, [r EXCEPT !.at = "keyRow", !.id = a])
    BY <1>7 DEF AskKey
  <2> DEFINE e == [r EXCEPT !.at = "keyRow", !.id = a]
  <2>2. r \in CallRecord /\ r.of = n /\ r.then = "end" /\ a \in Nat
    BY <1>3 DEF Accounts
  <2> HIDE DEF r
  <2>3. e \in CallRecord /\ e.at = "keyRow" /\ e.of = n /\ e.then = "end" /\ e.id = a
    BY <2>2 DEF CallRecord, CallSteps, CommunitySteps
  <2> HIDE DEF e
  <2>4. Fits(e, commercial, named, keyed, OwnOf, groups)
    BY <2>3 DEF Fits, CommunitySteps
  <2>5. Goes(c, e)
    BY <2>1 DEF e
  <2> QED
    BY <1>1, <2>4, <2>5, OnlyCall
<1> QED
  BY <1>4, <1>5, <1>6, <1>7

\* The key is read from the row, or not if the read fails.
LEMMA ReadSecretsStep ==
    ASSUME TenancyInv, NEW c \in Calls, ReadSecrets(c)
    PROVE  TenancyInv'
<1> DEFINE e == [call[c] EXCEPT !.at = "seed", !.seen = keyRow[call[c].of]]
<1>1. Goes(c, e) /\ UNCHANGED <<commercial, rows, memory, channex, history>> /\ call[c].at = "secrets"
  BY DEF ReadSecrets, Is, bounds
<1>2. /\ call[c] \in CallRecord /\ Fits(call[c], commercial, named, keyed, OwnOf, groups)
      /\ call[c].of \in Tenants
  BY <1>1, AtWorkFits
<1>3. keyRow[call[c].of] \in Nat /\ keyRow[call[c].of] \in keyed[call[c].of] \cup {0}
  BY <1>2 DEF TenancyInv, TenancyTypeOK, TenantsApart
<1>4. /\ e \in CallRecord /\ e.at = "seed" /\ e.of = call[c].of /\ e.then = call[c].then
      /\ e.id = call[c].id /\ e.seen = keyRow[call[c].of]
  BY <1>2, <1>3 DEF CallRecord, CallSteps, CommunitySteps
<1> HIDE DEF e
<1>5. Fits(e, commercial, named, keyed, OwnOf, groups)
  BY <1>1, <1>2, <1>3, <1>4 DEF Fits, Hydrating, CommunitySteps
<1> QED
  BY <1>1, <1>5, OnlyCall

\* A request at x, of those that need nothing but a network, from one of the steps of a hydration
\* or of the others.
LEMMA GoesOn ==
    ASSUME TenancyInv, NEW c \in Calls, NEW x \in {"hydrated", "scope", "furnish", "rate"},
           call[c].at # "idle", call[c].at \in Hydrating <=> x \in {"hydrated", "scope"},
           ~commercial => x \in {"hydrated", "scope"}
    PROVE  Fits([call[c] EXCEPT !.at = x], commercial, named, keyed, OwnOf, groups)
<1> DEFINE e == [call[c] EXCEPT !.at = x]
<1>1. /\ call[c] \in CallRecord /\ Fits(call[c], commercial, named, keyed, OwnOf, groups)
      /\ call[c].of \in Tenants
  BY AtWorkFits
<1>2. /\ e \in CallRecord /\ e.at = x /\ e.of = call[c].of /\ e.then = call[c].then /\ e.id = call[c].id
  BY <1>1 DEF CallRecord, CallSteps, CommunitySteps
<1> HIDE DEF e
<1>3. Fits(e, commercial, named, keyed, OwnOf, groups)
  BY <1>1, <1>2 DEF Fits, Hydrating, CommunitySteps
<1> QED
  BY <1>3 DEF e

\* Memory gets the key that was read, which is one that the network has had.
LEMMA SeedStep ==
    ASSUME TenancyInv, NEW c \in Calls, Seed(c)
    PROVE  TenancyInv'
<1> DEFINE n == call[c].of
           e == [call[c] EXCEPT !.at = "hydrated"]
<1>1. /\ call[c].at = "seed" /\ Goes(c, e)
      /\ secret' = [secret EXCEPT ![n] = IF call[c].seen = 0 THEN @ ELSE call[c].seen]
      /\ UNCHANGED <<commercial, groupOf, keyRow, listed, groups, properties, named, keyed, answered>>
  BY DEF Seed, Is, To, rows, channex, history, bounds
<1>2. /\ call[c] \in CallRecord /\ Fits(call[c], commercial, named, keyed, OwnOf, groups) /\ n \in Tenants
  BY <1>1, AtWorkFits
<1>3. call[c].seen \in keyed[n] \cup {0} /\ call[c].seen \in Nat
  BY <1>1, <1>2 DEF Fits, CallRecord
<1>4. Fits(e, commercial, named, keyed, OwnOf, groups)
  BY <1>1, GoesOn DEF Hydrating
<1>5. TenancyTypeOK /\ TenantsApart /\ CallsFit /\ groups \in Nat
  BY DEF TenancyInv, TenancyTypeOK
<1>6. OwnOf' = OwnOf /\ KeyedOf' = KeyedOf
  BY <1>1 DEF OwnOf, KeyedOf
<1> HIDE DEF e
<1>7. call' \in [Calls -> CallRecord] /\ CallsFit'
  BY <1>1, <1>4, <1>5, <1>6, CallsStayFit
<1>8. /\ secret' \in [Tenants -> Nat] /\ \A m \in Tenants : secret'[m] \in keyed[m] \cup {0}
  <2> HIDE DEF n
  <2> QED
    BY <1>1, <1>2, <1>3, <1>5 DEF TenancyTypeOK, TenantsApart
<1>9. TenancyTypeOK'
  BY <1>1, <1>5, <1>7, <1>8 DEF TenancyTypeOK
<1>10. TenantsApart'
  BY <1>1, <1>5, <1>6, <1>8 DEF TenantsApart
<1> QED
  BY <1>7, <1>9, <1>10 DEF TenancyInv

LEMMA SetHydratedStep ==
    ASSUME TenancyInv, NEW c \in Calls, SetHydrated(c)
    PROVE  TenancyInv'
<1>1. /\ call[c].at = "hydrated" /\ (Resume(c) \/ To(c, "scope"))
      /\ UNCHANGED <<commercial, groupOf, keyRow, secret, listed, groups, properties, named, keyed, answered>>
  BY DEF SetHydrated, Is, rows, channex, history, bounds
<1>2. Fits(call[c], commercial, named, keyed, OwnOf, groups)
  BY AtWorkFits
<1>3. PICK r : Goes(c, r) /\ (r.at # "end" => Fits(r, commercial, named, keyed, OwnOf, groups))
  <2>1. CASE Resume(c)
    BY <1>1, <1>2, <2>1, ResumeFits DEF Resume
  <2>2. CASE To(c, "scope")
    BY <1>1, <2>2, GoesOn DEF To, Hydrating
  <2> QED
    BY <1>1, <2>1, <2>2
<1>4. TenancyTypeOK /\ TenantsApart /\ CallsFit /\ groups \in Nat
  BY DEF TenancyInv, TenancyTypeOK
<1>5. OwnOf' = OwnOf /\ KeyedOf' = KeyedOf
  BY <1>1 DEF OwnOf, KeyedOf
<1>6. call' \in [Calls -> CallRecord] /\ CallsFit'
  BY <1>1, <1>3, <1>4, <1>5, CallsStayFit
<1>7. TenancyTypeOK'
  BY <1>1, <1>4, <1>6 DEF TenancyTypeOK
<1>8. TenantsApart'
  BY <1>1, <1>4, <1>5 DEF TenantsApart
<1> QED
  BY <1>6, <1>7, <1>8 DEF TenancyInv

\* An import asks for the properties of a group that the network has had, or, with a key of the
\* network, for what the key sees.
LEMMA ScopeStep ==
    ASSUME TenancyInv, NEW c \in Calls, Scope(c)
    PROVE  TenancyInv'
<1> DEFINE n == call[c].of
           a == [call[c] EXCEPT !.at = "ids", !.seen = groupOf[n]]
           b == [call[c] EXCEPT !.at = "list", !.ids = Visible(n)]
<1>1. /\ call[c].at = "scope" /\ UNCHANGED <<commercial, rows, memory, channex, history>>
      /\ \/ Resume(c)
         \/ commercial /\ groupOf[n] # 0 /\ Goes(c, a)
         \/ ~commercial /\ Goes(c, b)
  BY DEF Scope, Is, bounds
<1>2. /\ call[c] \in CallRecord /\ Fits(call[c], commercial, named, keyed, OwnOf, groups) /\ n \in Tenants
  BY <1>1, AtWorkFits
<1>3. CASE Resume(c)
  BY <1>1, <1>2, <1>3, ResumeFits, OnlyCall DEF Resume
<1>4. CASE commercial /\ groupOf[n] # 0 /\ Goes(c, a)
  <2>1. groupOf[n] \in Nat /\ groupOf[n] \in named[n]
    BY <1>2, <1>4 DEF TenancyInv, TenancyTypeOK, TenantsApart
  <2>2. /\ a \in CallRecord /\ a.at = "ids" /\ a.of = n /\ a.then = call[c].then
        /\ a.id = call[c].id /\ a.seen = groupOf[n]
    BY <1>2, <2>1 DEF CallRecord, CallSteps, Hydrating
  <2> HIDE DEF a
  <2>3. Fits(a, commercial, named, keyed, OwnOf, groups)
    BY <1>1, <1>2, <1>4, <2>1, <2>2 DEF Fits, Hydrating
  <2> QED
    BY <1>1, <1>4, <2>3, OnlyCall
<1>5. CASE ~commercial /\ Goes(c, b)
  <2>1. Visible(n) \subseteq Nat
    <3>1. PICK k \in Nat : properties \in [1..k -> PropertyRecord]
      BY DEF TenancyInv, TenancyTypeOK
    <3> QED
      BY <3>1 DEF Visible
  <2> HIDE DEF n
  <2>2. /\ b \in CallRecord /\ b.at = "list" /\ b.of = call[c].of /\ b.then = call[c].then /\ b.id = call[c].id
    BY <1>2, <2>1 DEF CallRecord, CallSteps, Hydrating
  <2> HIDE DEF b
  <2>3. Fits(b, commercial, named, keyed, OwnOf, groups)
    BY <1>1, <1>2, <1>5, <2>2 DEF Fits, Hydrating, CommunitySteps
  <2> QED
    BY <1>1, <1>5, <2>3, OnlyCall
<1> QED
  BY <1>1, <1>3, <1>4, <1>5

LEMMA IdsStep ==
    ASSUME TenancyInv, NEW c \in Calls, Ids(c)
    PROVE  TenancyInv'
<1> DEFINE n == call[c].of
           a == [call[c] EXCEPT !.at = "list", !.ids = InGroup(call[c].seen)]
<1>1. /\ call[c].at = "ids" /\ UNCHANGED <<commercial, rows, memory, channex, history>>
      /\ Goes(c, a) \/ Resume(c)
  BY DEF Ids, Is, bounds
<1>2. /\ call[c] \in CallRecord /\ Fits(call[c], commercial, named, keyed, OwnOf, groups) /\ n \in Tenants
  BY <1>1, AtWorkFits
<1>3. CASE Resume(c)
  BY <1>1, <1>2, <1>3, ResumeFits, OnlyCall DEF Resume
<1>4. CASE Goes(c, a)
  <2>1. call[c].seen \in named[n]
    BY <1>1, <1>2 DEF Fits
  <2>2. InGroup(call[c].seen) \subseteq OwnOf[n] /\ InGroup(call[c].seen) \subseteq Nat
    <3>1. PICK k \in Nat : properties \in [1..k -> PropertyRecord]
      BY DEF TenancyInv, TenancyTypeOK
    <3> QED
      BY <1>2, <2>1, <3>1 DEF InGroup, OwnOf
  <2>3. /\ a \in CallRecord /\ a.at = "list" /\ a.of = n /\ a.then = call[c].then
        /\ a.id = call[c].id /\ a.ids = InGroup(call[c].seen)
    <3> DEFINE g == InGroup(call[c].seen)
    <3> HIDE DEF g
    <3> QED
      BY <1>2, <2>2 DEF CallRecord, CallSteps, Hydrating, g
  <2> HIDE DEF a
  <2>4. commercial
    BY <1>1, <1>2 DEF Fits, CommunitySteps, TenancyInv, TenancyTypeOK
  <2>5. Fits(a, commercial, named, keyed, OwnOf, groups)
    BY <1>1, <1>2, <1>4, <2>2, <2>3, <2>4 DEF Fits, Hydrating
  <2> QED
    BY <1>1, <1>4, <2>5, OnlyCall
<1> QED
  BY <1>1, <1>3, <1>4

\* What memory lists are properties of the network's groups; with keys of networks, of the
\* account whose key is in memory.
LEMMA ListStep ==
    ASSUME TenancyInv, NEW c \in Calls, List(c)
    PROVE  TenancyInv'
<1> DEFINE n == call[c].of
           new == Imported(n, call[c].ids)
<1>1. /\ call[c].at = "list" /\ Resume(c) /\ listed' = [listed EXCEPT ![n] = @ \cup new]
      /\ UNCHANGED <<commercial, groupOf, keyRow, secret, groups, properties, named, keyed, answered>>
  BY DEF List, Is, rows, channex, history, bounds
<1>2. /\ call[c] \in CallRecord /\ Fits(call[c], commercial, named, keyed, OwnOf, groups) /\ n \in Tenants
  BY <1>1, AtWorkFits
<1>3. TenancyTypeOK /\ TenantsApart /\ CallsFit /\ groups \in Nat
  BY DEF TenancyInv, TenancyTypeOK
<1>4. new \subseteq (IF commercial THEN OwnOf[n] ELSE KeyedOf[n])
  <2>1. CASE commercial
    BY <1>1, <1>2, <2>1 DEF Fits, Imported
  <2>2. CASE ~commercial
    <3>1. PICK k \in Nat : properties \in [1..k -> PropertyRecord]
      BY <1>3 DEF TenancyTypeOK
    <3>2. \A p \in DOMAIN properties : properties[p].account # 0
      BY <3>1 DEF PropertyRecord, Platform, Accounts
    <3>3. secret[n] \in keyed[n] \cup {0}
      BY <1>2, <1>3 DEF TenantsApart
    <3> QED
      BY <1>2, <2>2, <3>2, <3>3 DEF Imported, Visible, Key, KeyedOf
  <2> QED
    BY <2>1, <2>2
<1>5. OwnOf' = OwnOf /\ KeyedOf' = KeyedOf
  BY <1>1 DEF OwnOf, KeyedOf
<1>6. new \subseteq Nat
  <2>1. PICK k \in Nat : properties \in [1..k -> PropertyRecord]
    BY <1>3 DEF TenancyTypeOK
  <2> QED
    BY <2>1 DEF Imported, Visible
<1> DEFINE e == [call[c] EXCEPT !.at = call[c].then, !.then = "end"]
<1>7. Goes(c, e) /\ (e.at # "end" => Fits(e, commercial, named, keyed, OwnOf, groups))
  BY <1>1, <1>2, ResumeFits DEF Resume
<1> HIDE DEF e, new
<1>8. call' \in [Calls -> CallRecord] /\ CallsFit'
  BY <1>1, <1>3, <1>5, <1>7, CallsStayFit
<1>9. listed' \in [Tenants -> SUBSET Nat]
  BY <1>1, <1>2, <1>3, <1>6 DEF TenancyTypeOK
<1>10. TenancyTypeOK'
  BY <1>1, <1>3, <1>8, <1>9 DEF TenancyTypeOK
<1>11. TenantsApart'
  <2>1. \A m \in Tenants : listed'[m] = IF m = n THEN listed[m] \cup new ELSE listed[m]
    BY <1>1, <1>3 DEF TenancyTypeOK
  <2> QED
    BY <1>1, <1>3, <1>4, <1>5, <2>1 DEF TenantsApart
<1> QED
  BY <1>8, <1>10, <1>11 DEF TenancyInv

\* The next step of an onboarding outside the hydration needs only to be one.
LEMMA OnboardingFits ==
    ASSUME TenancyInv, NEW c \in Calls, commercial, call[c].at # "idle", call[c].at \notin Hydrating,
           NEW x \in {"group", "furnish", "rate", "newGroup", "token"}, NEW g \in {"end", "create", "token"}
    PROVE  LET e == [call[c] EXCEPT !.at = x, !.goal = g]
           IN  Fits(e, commercial, named, keyed, OwnOf, groups)
<1> DEFINE e == [call[c] EXCEPT !.at = x, !.goal = g]
<1>1. /\ call[c] \in CallRecord /\ Fits(call[c], commercial, named, keyed, OwnOf, groups)
      /\ call[c].of \in Tenants
  BY AtWorkFits
<1>2. e \in CallRecord /\ e.at = x /\ e.of = call[c].of /\ e.then = call[c].then /\ e.id = call[c].id
  BY <1>1 DEF CallRecord, CallSteps, CommunitySteps
<1> HIDE DEF e
<1>3. Fits(e, commercial, named, keyed, OwnOf, groups)
  BY <1>1, <1>2 DEF Fits, Hydrating
<1> QED
  BY <1>3 DEF e

\* Only the commercial edition takes these steps.
LEMMA Onboards ==
    ASSUME TenancyInv, NEW c \in Calls,
           call[c].at \in {"choose", "group", "newGroup", "keepGroup", "create", "created", "furnish",
                           "rate", "token"}
    PROVE  commercial /\ call[c].at # "idle" /\ call[c].at \notin Hydrating /\ call[c].then = "end"
BY AtWorkFits DEF Fits, CommunitySteps, Hydrating, TenancyInv, TenancyTypeOK

LEMMA ChooseStep ==
    ASSUME TenancyInv, NEW c \in Calls, Choose(c)
    PROVE  TenancyInv'
<1>1. /\ call[c].at = "choose" /\ UNCHANGED <<commercial, rows, memory, channex, history>>
      /\ \/ Goes(c, [call[c] EXCEPT !.at = "group", !.goal = "token"])
         \/ Goes(c, [call[c] EXCEPT !.at = "group", !.goal = "create"])
         \/ To(c, "end")
  BY DEF Choose, Is, bounds
<1>2. commercial /\ call[c].at # "idle" /\ call[c].at \notin Hydrating
  BY <1>1, Onboards
<1>3. CASE To(c, "end")
  <2>1. [call[c] EXCEPT !.at = "end"].at = "end"
    BY AtWorkFits DEF CallRecord
  <2> QED
    BY <1>1, <1>3, <2>1, OnlyCall DEF To
<1> QED
  BY <1>1, <1>2, <1>3, OnboardingFits, OnlyCall

\* The group of the row is one that the network has had.
LEMMA ReadGroupStep ==
    ASSUME TenancyInv, NEW c \in Calls, ReadGroup(c)
    PROVE  TenancyInv'
<1> DEFINE n == call[c].of
           r == [call[c] EXCEPT !.id = groupOf[n]]
           x == IF r.id # 0 THEN r.goal ELSE "newGroup"
<1>1. /\ call[c].at = "group" /\ UNCHANGED <<commercial, rows, memory, channex, history>>
      /\ Hydrate(c, r, x)
  BY DEF ReadGroup, Is, bounds
<1>2. /\ call[c] \in CallRecord /\ n \in Tenants /\ commercial /\ call[c].then = "end"
  BY <1>1, AtWorkFits, Onboards
<1>3. groupOf[n] \in Nat /\ (groupOf[n] # 0 => groupOf[n] \in named[n])
  BY <1>2 DEF TenancyInv, TenancyTypeOK, TenantsApart
<1>4. /\ r \in CallRecord /\ r.of = n /\ r.then = "end" /\ r.id = groupOf[n]
      /\ r.goal \in {"end", "create", "token"}
  BY <1>2, <1>3 DEF CallRecord
<1> HIDE DEF r
<1>5. x \in Continuations /\ (x = "create" => r.id \in named[n])
  BY <1>3, <1>4 DEF Continuations
<1> HIDE DEF x
<1> QED
  BY <1>1, <1>2, <1>4, <1>5, HydrateFits


LEMMA CreateGroupStep ==
    ASSUME TenancyInv, NEW c \in Calls, CreateGroup(c)
    PROVE  TenancyInv'
<1> DEFINE e == [call[c] EXCEPT !.at = "keepGroup", !.id = groups']
<1>1. /\ call[c].at = "newGroup" /\ groups' = groups + 1 /\ Goes(c, e)
      /\ UNCHANGED <<commercial, groupOf, keyRow, secret, listed, properties, named, keyed, answered>>
  BY DEF CreateGroup, Is, rows, memory, history, bounds
<1>2. /\ call[c] \in CallRecord /\ call[c].of \in Tenants /\ commercial /\ call[c].then = "end"
  BY <1>1, AtWorkFits, Onboards
<1>3. TenancyTypeOK /\ TenantsApart /\ CallsFit /\ groups \in Nat
  BY DEF TenancyInv, TenancyTypeOK
<1>4. groups' \in Nat /\ groups' \in 1..groups' /\ groups <= groups' /\ 1..groups \subseteq 1..groups'
  BY <1>1, <1>3
<1>5. OwnOf' = OwnOf /\ KeyedOf' = KeyedOf
  BY <1>1 DEF OwnOf, KeyedOf
<1>6. /\ e \in CallRecord /\ e.at = "keepGroup" /\ e.of = call[c].of /\ e.then = "end" /\ e.id = groups'
  <2> DEFINE g == groups'
  <2> HIDE DEF g
  <2> QED
    BY <1>2, <1>4 DEF CallRecord, CallSteps, g
<1> HIDE DEF e
<1>7. Fits(e, commercial, named', keyed', OwnOf', groups')
  BY <1>2, <1>4, <1>6 DEF Fits, Hydrating
<1>8. call' \in [Calls -> CallRecord] /\ CallsFit'
  BY <1>1, <1>3, <1>4, <1>5, <1>7, CallsStayFit
<1>9. named' \in [Tenants -> SUBSET (1..groups')]
  BY <1>1, <1>3, <1>4 DEF TenancyTypeOK
<1>10. TenancyTypeOK'
  BY <1>1, <1>3, <1>4, <1>8, <1>9 DEF TenancyTypeOK
<1>11. TenantsApart'
  BY <1>1, <1>3, <1>5 DEF TenantsApart
<1> QED
  BY <1>8, <1>10, <1>11 DEF TenancyInv

\* The row gets a group, which the network has had from then on.
LEMMA KeepGroupStep ==
    ASSUME TenancyInv, NEW c \in Calls, KeepGroup(c)
    PROVE  TenancyInv'
<1> DEFINE n == call[c].of
           g == call[c].id
           e == [call[c] EXCEPT !.at = call[c].goal]
<1>1. /\ call[c].at = "keepGroup" /\ groupOf' = [groupOf EXCEPT ![n] = g]
      /\ named' = [named EXCEPT ![n] = @ \cup {g}] /\ Goes(c, e)
      /\ UNCHANGED <<commercial, keyRow, secret, listed, groups, properties, keyed, answered>>
  BY DEF KeepGroup, GroupWritten, To, Is, memory, channex, bounds
<1>2. /\ call[c] \in CallRecord /\ Fits(call[c], commercial, named, keyed, OwnOf, groups)
      /\ n \in Tenants /\ commercial /\ call[c].then = "end"
  BY <1>1, AtWorkFits, Onboards
<1>3. TenancyTypeOK /\ TenantsApart /\ CallsFit /\ groups \in Nat
  BY DEF TenancyInv, TenancyTypeOK
<1>4. g \in 1..groups /\ g \in Nat
  BY <1>1, <1>2 DEF Fits, CallRecord
<1>5. /\ e.at = call[c].goal /\ e.of = n /\ e.id = g /\ e.then = "end"
      /\ call[c].goal \in {"end", "create", "token"} /\ (e.at # "end" => e \in CallRecord)
  BY <1>2 DEF CallRecord, CallSteps
<1> HIDE DEF e, n, g
<1>6. /\ named' \in [Tenants -> SUBSET (1..groups)] /\ groupOf' \in [Tenants -> Nat] /\ g \in named'[n]
      /\ groupOf'[n] = g /\ \A m \in Tenants : named[m] \subseteq named'[m]
      /\ \A m \in Tenants : m # n => groupOf'[m] = groupOf[m] /\ named'[m] = named[m]
  BY <1>1, <1>2, <1>3, <1>4 DEF TenancyTypeOK
<1>7. KeyedOf' = KeyedOf /\ \A m \in Tenants : OwnOf[m] \subseteq OwnOf'[m]
  BY <1>1, <1>6 DEF OwnOf, KeyedOf
<1>8. e.at # "end" => Fits(e, commercial, named', keyed', OwnOf', groups')
  BY <1>2, <1>5, <1>6 DEF Fits, Hydrating
<1>9. call' \in [Calls -> CallRecord] /\ CallsFit'
  <2>1. groups' \in Nat /\ groups <= groups' /\ commercial' = commercial
    BY <1>1, <1>3
  <2>2. \A m \in Tenants : /\ named[m] \subseteq named'[m] /\ keyed[m] \subseteq keyed'[m]
                          /\ OwnOf[m] \subseteq OwnOf'[m]
    BY <1>1, <1>6, <1>7
  <2> QED
    BY <1>1, <1>3, <1>8, <2>1, <2>2, CallsStayFit
<1>10. TenancyTypeOK'
  BY <1>1, <1>3, <1>6, <1>9 DEF TenancyTypeOK
<1>11. TenantsApart'
  <2>1. ASSUME NEW m \in Tenants
        PROVE  groupOf'[m] \in named'[m] \/ (groupOf'[m] = 0 /\ named'[m] = {})
    BY <1>3, <1>6 DEF TenantsApart
  <2>2. ASSUME NEW m \in Tenants
        PROVE  /\ listed[m] \subseteq (IF commercial THEN OwnOf'[m] ELSE KeyedOf'[m])
               /\ answered[m] \subseteq OwnOf'[m]
    BY <1>2, <1>3, <1>7 DEF TenantsApart
  <2> QED
    BY <1>1, <1>3, <2>1, <2>2 DEF TenantsApart
<1> QED
  BY <1>9, <1>10, <1>11 DEF TenancyInv

\* A property is made in a group of the network.
LEMMA CreatePropertyStep ==
    ASSUME TenancyInv, NEW c \in Calls, CreateProperty(c)
    PROVE  TenancyInv'
<1> DEFINE n == call[c].of
           p == Cardinality(DOMAIN properties) + 1
           e == [call[c] EXCEPT !.at = "created", !.ids = {p}]
<1>1. /\ call[c].at = "create" /\ Goes(c, e)
      /\ properties' = [q \in DOMAIN properties \cup {p} |->
                          IF q = p THEN [account |-> Platform, group |-> call[c].id] ELSE properties[q]]
      /\ UNCHANGED <<commercial, groupOf, keyRow, secret, listed, groups, named, keyed, answered>>
  BY DEF CreateProperty, Is, rows, memory, history, bounds
<1>2. /\ call[c] \in CallRecord /\ Fits(call[c], commercial, named, keyed, OwnOf, groups)
      /\ n \in Tenants /\ commercial /\ call[c].then = "end"
  BY <1>1, AtWorkFits, Onboards
<1>3. TenancyTypeOK /\ TenantsApart /\ CallsFit /\ groups \in Nat
  BY DEF TenancyInv, TenancyTypeOK
<1>4. PICK k \in Nat : properties \in [1..k -> PropertyRecord]
  BY <1>3 DEF TenancyTypeOK
<1>5. p = k + 1 /\ DOMAIN properties = 1..k
  BY <1>4, FS_Interval
<1>6. e \in CallRecord /\ e.at = "created" /\ e.of = n /\ e.then = "end" /\ e.ids = {p}
  <2>1. {p} \in SUBSET Nat
    BY <1>4, <1>5
  <2> HIDE DEF p
  <2> QED
    BY <1>2, <2>1 DEF CallRecord, CallSteps
<1> HIDE DEF e, n, p
<1>7. call[c].id \in Nat /\ call[c].id \in named[n]
  BY <1>1, <1>2 DEF Fits, CallRecord, n
<1>8. /\ properties' \in [1..(k + 1) -> PropertyRecord] /\ properties'[p].group = call[c].id
      /\ p \in DOMAIN properties' /\ \A q \in DOMAIN properties : q \in DOMAIN properties' /\ properties'[q] = properties[q]
  <2> DEFINE new == [account |-> Platform, group |-> call[c].id]
  <2>1. new \in PropertyRecord /\ new.group = call[c].id
    BY <1>7 DEF PropertyRecord
  <2>2. properties' = [q \in DOMAIN properties \cup {p} |-> IF q = p THEN new ELSE properties[q]]
    BY <1>1
  <2> HIDE DEF new
  <2>3. 1..(k + 1) = 1..k \cup {k + 1} /\ (k + 1) \notin 1..k
    BY <1>4
  <2> QED
    BY <1>4, <1>5, <2>1, <2>2, <2>3
<1>9. p \in OwnOf'[n] /\ \A m \in Tenants : OwnOf[m] \subseteq OwnOf'[m] /\ KeyedOf[m] \subseteq KeyedOf'[m]
  BY <1>1, <1>2, <1>7, <1>8 DEF OwnOf, KeyedOf
<1>10. Fits(e, commercial, named', keyed', OwnOf', groups')
  BY <1>2, <1>6, <1>9 DEF Fits, Hydrating
<1>11. call' \in [Calls -> CallRecord] /\ CallsFit'
  BY <1>1, <1>3, <1>9, <1>10, CallsStayFit
<1>12. TenancyTypeOK'
  <2>1. \E j \in Nat : properties' \in [1..j -> PropertyRecord]
    BY <1>4, <1>8
  <2> QED
    BY <1>1, <1>3, <1>11, <2>1 DEF TenancyTypeOK
<1>13. TenantsApart'
  <2>1. ASSUME NEW m \in Tenants
        PROVE  /\ listed[m] \subseteq (IF commercial THEN OwnOf'[m] ELSE KeyedOf'[m])
               /\ answered[m] \subseteq OwnOf'[m]
    BY <1>2, <1>3, <1>9 DEF TenantsApart
  <2> QED
    BY <1>1, <1>3, <2>1 DEF TenantsApart
<1> QED
  BY <1>11, <1>12, <1>13 DEF TenancyInv


\* The answer puts the property into the memory of the network in whose group it was made.
LEMMA CreatedStep ==
    ASSUME TenancyInv, NEW c \in Calls, Created(c)
    PROVE  TenancyInv'
<1> DEFINE n == call[c].of
           new == call[c].ids
           x == IF call[c].op = "connect" THEN "furnish" ELSE "end"
           e == [call[c] EXCEPT !.at = x]
<1>1. /\ call[c].at = "created" /\ Goes(c, e) /\ listed' = [listed EXCEPT ![n] = @ \cup new]
      /\ answered' = [answered EXCEPT ![n] = @ \cup new]
      /\ UNCHANGED <<commercial, groupOf, keyRow, secret, groups, properties, named, keyed>>
  BY DEF Created, Is, To, rows, channex, bounds
<1>2. /\ call[c] \in CallRecord /\ Fits(call[c], commercial, named, keyed, OwnOf, groups)
      /\ n \in Tenants /\ commercial /\ call[c].at # "idle" /\ call[c].at \notin Hydrating
  BY <1>1, AtWorkFits, Onboards
<1>3. TenancyTypeOK /\ TenantsApart /\ CallsFit /\ groups \in Nat
  BY DEF TenancyInv, TenancyTypeOK
<1>4. new \subseteq OwnOf[n] /\ new \subseteq Nat
  BY <1>1, <1>2 DEF Fits, CallRecord
<1>5. OwnOf' = OwnOf /\ KeyedOf' = KeyedOf
  BY <1>1 DEF OwnOf, KeyedOf
<1>6. e.at # "end" => Fits(e, commercial, named, keyed, OwnOf, groups)
  <2>1. CASE x = "furnish"
    BY <1>2, <2>1, GoesOn
  <2>2. CASE x = "end"
    BY <1>2, <2>2 DEF CallRecord
  <2> QED
    BY <2>1, <2>2
<1> HIDE DEF e, n, new
<1>7. call' \in [Calls -> CallRecord] /\ CallsFit'
  BY <1>1, <1>3, <1>5, <1>6, CallsStayFit
<1>8. /\ listed' \in [Tenants -> SUBSET Nat] /\ answered' \in [Tenants -> SUBSET Nat]
      /\ \A m \in Tenants : /\ listed'[m] = IF m = n THEN listed[m] \cup new ELSE listed[m]
                            /\ answered'[m] = IF m = n THEN answered[m] \cup new ELSE answered[m]
  BY <1>1, <1>2, <1>3, <1>4 DEF TenancyTypeOK
<1>9. TenancyTypeOK'
  BY <1>1, <1>3, <1>7, <1>8 DEF TenancyTypeOK
<1>10. TenantsApart'
  BY <1>1, <1>2, <1>3, <1>4, <1>5, <1>8 DEF TenantsApart
<1> QED
  BY <1>7, <1>9, <1>10 DEF TenancyInv

LEMMA FurnishTokenSteps ==
    ASSUME TenancyInv, NEW c \in Calls, Furnish(c) \/ Token(c)
    PROVE  TenancyInv'
<1>1. /\ UNCHANGED <<commercial, rows, memory, channex, history>>
      /\ call[c].at \in {"furnish", "rate", "token"}
      /\ \/ To(c, "rate")
         \/ Goes(c, [call[c] EXCEPT !.at = "group", !.goal = "token"])
         \/ To(c, "end")
  BY DEF Furnish, Token, Is, bounds
<1>2. commercial /\ call[c].at # "idle" /\ call[c].at \notin Hydrating
  BY <1>1, Onboards
<1>3. CASE To(c, "rate")
  BY <1>1, <1>2, <1>3, GoesOn, OnlyCall DEF To
<1>4. CASE Goes(c, [call[c] EXCEPT !.at = "group", !.goal = "token"])
  BY <1>1, <1>2, <1>4, OnboardingFits, OnlyCall
<1>5. CASE To(c, "end")
  <2>1. [call[c] EXCEPT !.at = "end"].at = "end"
    BY AtWorkFits DEF CallRecord
  <2> QED
    BY <1>1, <1>5, <2>1, OnlyCall DEF To
<1> QED
  BY <1>1, <1>3, <1>4, <1>5

\* The row gets a key, which the network has had from then on.
LEMMA SaveKeyRowStep ==
    ASSUME TenancyInv, NEW c \in Calls, SaveKeyRow(c)
    PROVE  TenancyInv'
<1> DEFINE n == call[c].of
           a == call[c].id
           e == [call[c] EXCEPT !.at = "keyMemory"]
<1>1. /\ call[c].at = "keyRow" /\ keyRow' = [keyRow EXCEPT ![n] = a]
      /\ keyed' = [keyed EXCEPT ![n] = @ \cup {a}] /\ Goes(c, e)
      /\ UNCHANGED <<commercial, groupOf, secret, listed, groups, properties, named, answered>>
  BY DEF SaveKeyRow, To, Is, memory, channex, bounds
<1>2. /\ call[c] \in CallRecord /\ Fits(call[c], commercial, named, keyed, OwnOf, groups) /\ n \in Tenants
  BY <1>1, AtWorkFits
<1>3. TenancyTypeOK /\ TenantsApart /\ CallsFit /\ groups \in Nat
  BY DEF TenancyInv, TenancyTypeOK
<1>4. a \in Accounts /\ a \in Nat
  BY <1>1, <1>2 DEF Fits, CallRecord
<1>5. /\ e \in CallRecord /\ e.at = "keyMemory" /\ e.of = n /\ e.id = a /\ e.then = call[c].then
  BY <1>2 DEF CallRecord, CallSteps, CommunitySteps
<1> HIDE DEF e, n, a
<1>6. /\ keyed' \in [Tenants -> SUBSET Accounts] /\ keyRow' \in [Tenants -> Nat] /\ a \in keyed'[n]
      /\ keyRow'[n] = a /\ \A m \in Tenants : keyed[m] \subseteq keyed'[m]
      /\ \A m \in Tenants : m # n => keyRow'[m] = keyRow[m] /\ keyed'[m] = keyed[m]
  BY <1>1, <1>2, <1>3, <1>4 DEF TenancyTypeOK
<1>7. OwnOf' = OwnOf /\ \A m \in Tenants : KeyedOf[m] \subseteq KeyedOf'[m]
  BY <1>1, <1>6 DEF OwnOf, KeyedOf
<1>8. Fits(e, commercial, named', keyed', OwnOf', groups')
  BY <1>1, <1>2, <1>5, <1>6 DEF Fits, Hydrating, CommunitySteps
<1>9. call' \in [Calls -> CallRecord] /\ CallsFit'
  <2>1. groups' \in Nat /\ groups <= groups' /\ commercial' = commercial
    BY <1>1, <1>3
  <2>2. \A m \in Tenants : /\ named[m] \subseteq named'[m] /\ keyed[m] \subseteq keyed'[m]
                          /\ OwnOf[m] \subseteq OwnOf'[m]
    BY <1>1, <1>6, <1>7
  <2> QED
    BY <1>1, <1>3, <1>8, <2>1, <2>2, CallsStayFit
<1>10. TenancyTypeOK'
  BY <1>1, <1>3, <1>6, <1>9 DEF TenancyTypeOK
<1>11. TenantsApart'
  <2>1. ASSUME NEW m \in Tenants
        PROVE  keyRow'[m] \in keyed'[m] \cup {0} /\ secret[m] \in keyed'[m] \cup {0}
    BY <1>3, <1>6 DEF TenantsApart
  <2>2. ASSUME NEW m \in Tenants
        PROVE  listed[m] \subseteq (IF commercial THEN OwnOf'[m] ELSE KeyedOf'[m])
    BY <1>3, <1>7 DEF TenantsApart
  <2> QED
    BY <1>1, <1>3, <1>7, <2>1, <2>2 DEF TenantsApart
<1> QED
  BY <1>9, <1>10, <1>11 DEF TenancyInv

\* Memory gets the key that the row got.
LEMMA SaveKeyStep ==
    ASSUME TenancyInv, NEW c \in Calls, SaveKey(c)
    PROVE  TenancyInv'
<1> DEFINE n == call[c].of
           e == [call[c] EXCEPT !.at = "end"]
<1>1. /\ call[c].at = "keyMemory" /\ Goes(c, e) /\ secret' = [secret EXCEPT ![n] = call[c].id]
      /\ UNCHANGED <<commercial, groupOf, keyRow, listed, groups, properties, named, keyed, answered>>
  BY DEF SaveKey, Is, To, rows, channex, history, bounds
<1>2. /\ call[c] \in CallRecord /\ Fits(call[c], commercial, named, keyed, OwnOf, groups) /\ n \in Tenants
  BY <1>1, AtWorkFits
<1>3. TenancyTypeOK /\ TenantsApart /\ CallsFit /\ groups \in Nat
  BY DEF TenancyInv, TenancyTypeOK
<1>4. call[c].id \in keyed[n] /\ call[c].id \in Nat /\ e.at = "end"
  BY <1>1, <1>2 DEF Fits, CallRecord
<1>5. OwnOf' = OwnOf /\ KeyedOf' = KeyedOf
  BY <1>1 DEF OwnOf, KeyedOf
<1> HIDE DEF e, n
<1>6. call' \in [Calls -> CallRecord] /\ CallsFit'
  BY <1>1, <1>3, <1>4, <1>5, CallsStayFit
<1>7. secret' \in [Tenants -> Nat] /\ \A m \in Tenants : secret'[m] \in keyed[m] \cup {0}
  BY <1>1, <1>2, <1>3, <1>4 DEF TenancyTypeOK, TenantsApart
<1>8. TenancyTypeOK'
  BY <1>1, <1>3, <1>6, <1>7 DEF TenancyTypeOK
<1>9. TenantsApart'
  BY <1>1, <1>3, <1>5, <1>7 DEF TenantsApart
<1> QED
  BY <1>6, <1>8, <1>9 DEF TenancyInv

LEMMA CallFailsStep ==
    ASSUME TenancyInv, NEW c \in Calls, CallFails(c)
    PROVE  TenancyInv'
<1>1. /\ UNCHANGED <<commercial, rows, memory, channex, history>>
      /\ \/ call[c].at = "secrets" /\ To(c, "hydrated")
         \/ call[c].at \in {"ids", "list"} /\ Resume(c)
         \/ To(c, "end")
  BY DEF CallFails, Is
<1>2. call[c] \in CallRecord /\ Fits(call[c], commercial, named, keyed, OwnOf, groups)
  BY AtWorkFits
<1>3. CASE call[c].at = "secrets" /\ To(c, "hydrated")
  <2>1. Fits([call[c] EXCEPT !.at = "hydrated"], commercial, named, keyed, OwnOf, groups)
    BY <1>3, GoesOn DEF Hydrating
  <2> QED
    BY <1>1, <1>3, <2>1, OnlyCall DEF To
<1>4. CASE call[c].at \in {"ids", "list"} /\ Resume(c)
  BY <1>1, <1>2, <1>4, ResumeFits, OnlyCall DEF Resume
<1>5. CASE To(c, "end")
  <2>1. [call[c] EXCEPT !.at = "end"].at = "end"
    BY <1>2 DEF CallRecord
  <2> QED
    BY <1>1, <1>5, <2>1, OnlyCall DEF To
<1> QED
  BY <1>1, <1>3, <1>4, <1>5

\* A restart forgets the requests and the memory; the rows and Channex keep theirs.
LEMMA TenancyRestartStep ==
    ASSUME TenancyInv, TenancyRestart
    PROVE  TenancyInv'
<1>1. /\ call' = [c \in Calls |-> NoCall] /\ secret' = [n \in Tenants |-> 0]
      /\ listed' = [n \in Tenants |-> {}]
      /\ UNCHANGED <<commercial, groupOf, keyRow, groups, properties, named, keyed, answered>>
  BY DEF TenancyRestart, rows, channex, history
<1>2. TenancyTypeOK /\ TenantsApart
  BY DEF TenancyInv
<1>3. TenancyTypeOK'
  BY <1>1, <1>2, NoCallFits DEF TenancyTypeOK
<1>4. OwnOf' = OwnOf
  BY <1>1 DEF OwnOf
<1>5. TenantsApart'
  BY <1>1, <1>2, <1>4 DEF TenantsApart
<1>6. CallsFit'
  BY <1>1, NoCallFits DEF CallsFit
<1> QED
  BY <1>3, <1>5, <1>6 DEF TenancyInv

LEMMA TenancyStutters ==
    ASSUME TenancyInv, UNCHANGED tenancyVars
    PROVE  TenancyInv'
<1>1. UNCHANGED <<commercial, groupOf, keyRow, secret, listed, groups, properties, call, named, keyed, answered>>
  BY DEF tenancyVars
<1>2. OwnOf' = OwnOf /\ KeyedOf' = KeyedOf
  BY <1>1 DEF OwnOf, KeyedOf
<1>3. TenancyTypeOK' /\ TenantsApart' /\ CallsFit'
  BY <1>1, <1>2 DEF TenancyInv, TenancyTypeOK, TenantsApart, CallsFit
<1> QED
  BY <1>3 DEF TenancyInv

LEMMA TenancySteps ==
    ASSUME TenancyInv, [TenancyNext]_tenancyVars
    PROVE  TenancyInv'
<1>1. ASSUME NEW c \in Calls, NEW n \in Tenants,
             AskImport(c, n) \/ AskOnboard(c, n) \/ AskConnect(c, n) \/ AskSession(c, n) \/ AskKey(c, n)
      PROVE  TenancyInv'
  BY <1>1, AskSteps
<1>2. ASSUME NEW c \in Calls,
             \/ ReadSecrets(c) \/ Seed(c) \/ SetHydrated(c) \/ Scope(c) \/ Ids(c) \/ List(c)
      PROVE  TenancyInv'
  BY <1>2, ReadSecretsStep, SeedStep, SetHydratedStep, ScopeStep, IdsStep, ListStep
<1>3. ASSUME NEW c \in Calls,
             \/ Choose(c) \/ ReadGroup(c) \/ CreateGroup(c) \/ KeepGroup(c)
             \/ CreateProperty(c) \/ Created(c) \/ Furnish(c) \/ Token(c)
      PROVE  TenancyInv'
  BY <1>3, ChooseStep, ReadGroupStep, CreateGroupStep, KeepGroupStep, CreatePropertyStep, CreatedStep,
     FurnishTokenSteps
<1>4. ASSUME NEW c \in Calls, SaveKeyRow(c) \/ SaveKey(c) \/ CallFails(c)
      PROVE  TenancyInv'
  BY <1>4, SaveKeyRowStep, SaveKeyStep, CallFailsStep
<1> QED
  BY <1>1, <1>2, <1>3, <1>4, TenancyRestartStep, TenancyStutters DEF TenancyNext

LEMMA TenancyInvariant == TenancySpec => []TenancyInv
BY TenancyInitInv, TenancySteps, PTL DEF TenancySpec

\* What a network lists was made in a group that the network has had or, in the edition where
\* networks have keys, belongs to an account whose key it has had: for any number of networks and
\* of requests at once, whatever calls fail and whenever the process restarts
\* (sync.ts runInternalImport, channex-onboarding.ts).
THEOREM NetworksListTheirOwn == TenancySpec => []OwnPropertiesOnly
<1>1. TenancyInv => OwnPropertiesOnly
  BY DEF TenancyInv, TenantsApart, OwnOf, KeyedOf, OwnPropertiesOnly
<1> QED
  BY <1>1, TenancyInvariant, PTL

\* A property whose creation was answered is in the group that the row of its network names,
\* unless the network has had several groups (channex-onboarding.ts ensureNetworkChannexGroup).
THEOREM AnsweredIsFoundAgain == TenancySpec => []OnboardedReturns
<1>1. ASSUME TenancyInv, NEW n \in Tenants, Cardinality(named[n]) <= 1, NEW p \in answered[n]
      PROVE  properties[p].group = groupOf[n]
  <2>1. groups \in Nat /\ named[n] \in SUBSET (1..groups)
    BY <1>1 DEF TenancyInv, TenancyTypeOK
  <2>2. properties[p].group \in named[n]
    BY <1>1 DEF TenancyInv, TenantsApart, OwnOf
  <2>3. groupOf[n] \in named[n]
    BY <1>1, <2>2 DEF TenancyInv, TenantsApart
  <2>4. IsFiniteSet(named[n])
    <3>1. IsFiniteSet(1..groups)
      BY <2>1, FS_Interval
    <3> QED
      BY <2>1, <3>1, FS_Subset
  <2>5. Cardinality(named[n]) \in Nat /\ Cardinality(named[n]) # 0
    BY <2>2, <2>4, FS_CardinalityType, FS_EmptySet
  <2>6. Cardinality(named[n]) = 1
    BY <1>1, <2>5
  <2>7. \E x : named[n] = {x}
    BY <2>4, <2>6, FS_Singleton
  <2> QED
    BY <2>2, <2>3, <2>7
<1>2. TenancyInv => OnboardedReturns
  BY <1>1 DEF OnboardedReturns
<1> QED
  BY <1>2, TenancyInvariant, PTL

-----------------------------------------------------------------------------
(* Calendar notes.                                                         *)

NoteRecord == [id : Nat, text : Nat]
NoteRow == [id : Nat, of : Notes, text : Nat]
NoteSteps == {"idle", "insert", "answer", "update", "delete"}
NotesTypeOK ==
    /\ note \in [Notes -> NoteRecord] /\ list \in Seq(Notes)
    /\ saved \subseteq 1..created
    /\ noteRows \subseteq NoteRow /\ serial \in Nat /\ counter \in Nat
    /\ writing \in [Writers -> [at : NoteSteps, of : 0..MaxNotes, id : Nat, text : Nat]]
    /\ created \in 0..MaxNotes /\ edits \in Nat

\* No two notes have one id now, neither of memory nor of a row.
OneIdEach ==
    /\ \A j, k \in Notes : (note[j].id = note[k].id /\ note[k].id # 0) => j = k
    /\ \A r \in noteRows, k \in Notes : (note[k].id = r.id /\ r.id # 0) => k = r.of
Numbered == \A k \in Notes : created < k => note[k].id = 0
\* What memory has given since the start, the serial has passed or a note still has.
Passed == \A m \in 1..counter : m <= serial \/ \E k \in Notes : note[k].id = m
Listed ==
    /\ \A i, j \in DOMAIN list : list[i] = list[j] => i = j
    /\ \A k \in ToSet(list) : note[k].id # 0
RowsOfNotes ==
    /\ \A r \in noteRows : 0 < r.id /\ r.id <= serial /\ r.of \in 1..created
    /\ \A r, s \in noteRows : r.of = s.of \/ r.id = s.id => r = s
\* A note whose request is at its insert has an id of memory and no row; when its row is in, it
\* has the id of that row by chance or takes it next, and a row that went was of a note taken off.
Waiting(q) == writing[q].at \in {"insert", "answer"}
HasRow(k, id) == \E r \in noteRows : r.of = k /\ r.id = id
Answers(q) ==
    LET k == writing[q].of
    IN  /\ writing[q].id <= serial
        /\ note[k].id = writing[q].id \/ (counter < writing[q].id /\ HasRow(k, writing[q].id))
        /\ HasRow(k, writing[q].id) \/ k \notin ToSet(list)
Inserts ==
    /\ \A q \in Writers : Waiting(q) =>
        /\ writing[q].of \in 1..created
        /\ note[writing[q].of].id # 0 /\ note[writing[q].of].id <= counter
    /\ \A q, p \in Writers : (Waiting(q) /\ Waiting(p) /\ writing[q].of = writing[p].of) => q = p
    /\ \A q \in Writers : writing[q].at = "insert" => \A r \in noteRows : r.of # writing[q].of
    /\ \A q \in Writers : writing[q].at = "answer" => Answers(q)
\* What is deleted by an id is a note of that id that is listed no more, or no row has the id,
\* and none will.
Deletes ==
    \A q \in Writers : writing[q].at = "delete" =>
        \/ \E k \in Notes : k \notin ToSet(list) /\ note[k].id = writing[q].id
        \/ writing[q].id <= serial /\ \A r \in noteRows : r.id # writing[q].id
\* The row of a saved note that is listed has its id.
SavedHaveRows ==
    \A k \in saved \cap ToSet(list) : HasRow(k, note[k].id)
NotesApart ==
    /\ NotesTypeOK /\ OneIdEach /\ Numbered /\ Passed /\ Listed /\ RowsOfNotes /\ Inserts /\ Deletes
    /\ SavedHaveRows
NotesInv == ~met => NotesApart

\* What the history says of the ids after a step.
LEMMA ApartNext ==
    ASSUME NotesTypeOK', ~Meets' PROVE OneIdEach'
<1>1. \A k \in Notes : note'[k].id # 0 => note'[k].id \in IdsOf(k)'
  BY DEF IdsOf
<1>2. \A r \in noteRows' : r.of \in Notes /\ r.id \in IdsOf(r.of)'
  BY DEF IdsOf, NotesTypeOK, NoteRow
<1>3. \A j, k \in Notes : j # k => IdsOf(j)' \cap IdsOf(k)' = {}
  BY DEF Meets
<1> QED
  BY <1>1, <1>2, <1>3, Zenon DEF OneIdEach

\* findNote finds a listed note of the id.
LEMMA FoundIsListed ==
    ASSUME NotesTypeOK, NEW id \in ListedIds
    PROVE  /\ FirstIndex(id) \in 1..Len(list) /\ FirstWith(id) \in Notes \cap ToSet(list)
           /\ note[FirstWith(id)].id = id
<1> DEFINE S == {i \in DOMAIN list : note[list[i]].id = id}
           R == OpToRel(<, Nat)
<1>1. S \subseteq Nat /\ S # {} /\ DOMAIN list = 1..Len(list) /\ \A i \in 1..Len(list) : list[i] \in Notes
  BY DEF NotesTypeOK, ListedIds, ToSet
<1>2. IsWellFoundedOn(R, Nat)
  BY NatLessThanWellFounded
<1>3. PICK x \in S : \A y \in S : ~(<<y, x>> \in R)
  <2> HIDE DEF S, R
  <2> QED
    BY <1>1, <1>2, WFMin
<1>4. \A y \in S : <<y, x>> \in R <=> y < x
  <2>1. \A a, b \in Nat : <<a, b>> \in R <=> a < b
    BY Zenon DEF OpToRel
  <2> HIDE DEF S, R
  <2> QED
    BY <1>1, <1>3, <2>1
<1>5. \A y \in S : x <= y
  <2> HIDE DEF S, R
  <2>1. \A y \in S : ~(y < x)
    BY <1>3, <1>4, Zenon
  <2>2. x \in Nat /\ \A y \in S : y \in Nat
    BY <1>1, <1>3
  <2> QED
    BY <2>1, <2>2
<1>6. FirstIndex(id) \in S
  <2>1. FirstIndex(id) = CHOOSE z \in S : \A y \in S : z <= y
    BY DEF FirstIndex, Min
  <2> HIDE DEF S, R
  <2> QED
    BY <1>3, <1>5, <2>1
<1> QED
  BY <1>1, <1>6 DEF FirstWith, ToSet

\* splice takes the element at its index out, and keeps the others in order.
LEMMA SplicedList ==
    ASSUME NEW S, NEW s \in Seq(S), NEW i \in 1..Len(s),
           \A a, b \in DOMAIN s : s[a] = s[b] => a = b
    PROVE  LET t == RemoveAt(s, i)
           IN  /\ t \in Seq(S) /\ ToSet(t) = ToSet(s) \ {s[i]}
               /\ \A a, b \in DOMAIN t : t[a] = t[b] => a = b
<1> DEFINE t == RemoveAt(s, i)
<1>1. /\ t \in Seq(S) /\ Len(t) = Len(s) - 1
      /\ \A j \in 1..(Len(s) - 1) : t[j] = s[IF j < i THEN j ELSE j + 1]
  <2> DEFINE a == SubSeq(s, 1, i - 1)
             b == SubSeq(s, i + 1, Len(s))
  <2>1. i \in Nat /\ Len(s) \in Nat /\ 1 <= i /\ i <= Len(s)
    OBVIOUS
  <2>2. a \in Seq(S) /\ Len(a) = i - 1 /\ \A j \in 1..(i - 1) : a[j] = s[j]
    BY <2>1
  <2>3. b \in Seq(S) /\ Len(b) = Len(s) - i /\ \A j \in 1..(Len(s) - i) : b[j] = s[i + j]
    BY <2>1
  <2>4. t = a \o b
    BY DEF RemoveAt
  <2> HIDE DEF a, b, t
  <2>5. t \in Seq(S) /\ Len(t) = Len(s) - 1
    BY <2>1, <2>2, <2>3, <2>4, SMTT(30)
  <2>6. ASSUME NEW j \in 1..(Len(s) - 1) PROVE t[j] = s[IF j < i THEN j ELSE j + 1]
    <3>1. CASE j < i
      <4>1. t[j] = a[j]
        BY <2>1, <2>2, <2>3, <2>4, <3>1
      <4> QED
        BY <2>1, <2>2, <3>1, <4>1
    <3>2. CASE ~(j < i)
      <4>1. t[j] = b[j - (i - 1)]
        BY <2>1, <2>2, <2>3, <2>4, <3>2
      <4>2. b[j - (i - 1)] = s[i + (j - (i - 1))]
        BY <2>1, <2>3, <3>2
      <4>3. i + (j - (i - 1)) = j + 1
        BY <2>1
      <4> QED
        BY <3>2, <4>1, <4>2, <4>3
    <3> QED
      BY <3>1, <3>2
  <2> QED
    BY <2>5, <2>6
<1>2. DOMAIN t = 1..(Len(s) - 1) /\ DOMAIN s = 1..Len(s) /\ Len(s) \in Nat
  BY <1>1
<1>3. ASSUME NEW a \in DOMAIN t, NEW b \in DOMAIN t, t[a] = t[b] PROVE a = b
  <2> HIDE DEF t
  <2>1. a \in 1..(Len(s) - 1) /\ b \in 1..(Len(s) - 1) /\ Len(s) \in Nat /\ i \in Nat
    BY <1>2
  <2>2. s[IF a < i THEN a ELSE a + 1] = s[IF b < i THEN b ELSE b + 1]
    BY <1>1, <1>3, <2>1
  <2>3. (IF a < i THEN a ELSE a + 1) \in DOMAIN s /\ (IF b < i THEN b ELSE b + 1) \in DOMAIN s
    BY <1>2, <2>1
  <2>4. (IF a < i THEN a ELSE a + 1) = (IF b < i THEN b ELSE b + 1)
    BY <2>2, <2>3
  <2> QED
    BY <2>1, <2>4
<1>4. ToSet(t) \subseteq ToSet(s) \ {s[i]}
  BY <1>1, <1>2, SMTT(30) DEF ToSet
<1>5. ASSUME NEW k \in DOMAIN s, k # i PROVE s[k] \in ToSet(t)
  <2> DEFINE j == IF k < i THEN k ELSE k - 1
  <2>1. j \in DOMAIN t /\ t[j] = s[k]
    BY <1>1, <1>2, <1>5
  <2> HIDE DEF t
  <2> QED
    BY <2>1 DEF ToSet
<1>6. ToSet(t) = ToSet(s) \ {s[i]}
  <2> HIDE DEF t
  <2> QED
    <3>1. ASSUME NEW x \in ToSet(s), x # s[i] PROVE x \in ToSet(t)
      <4>1. PICK k \in DOMAIN s : x = s[k]
        BY DEF ToSet
      <4> QED
        BY <1>5, <3>1, <4>1
    <3> QED
      BY <1>4, <3>1
<1> QED
  BY <1>1, <1>3, <1>6

LEMMA NotesInitInv ==
    ASSUME NotesInit PROVE NotesInv
<1> USE NotesAssumption DEF NotesInit
<1>0. serial \in Nat
  OBVIOUS
<1>1. NotesTypeOK
  BY <1>0 DEF NotesTypeOK, NoteRecord, NoteRow, NoteSteps, NotWriting, Notes
<1>2. OneIdEach /\ Numbered /\ Passed /\ Listed /\ RowsOfNotes
  BY DEF OneIdEach, Numbered, Passed, Listed, RowsOfNotes, ToSet
<1>3. Inserts /\ Deletes /\ SavedHaveRows
  BY DEF Inserts, Waiting, Deletes, SavedHaveRows, NotWriting
<1> QED
  BY <1>1, <1>2, <1>3 DEF NotesInv, NotesApart

\* No other note has the new id, so no row of another has it either: an insert that is answered
\* with the id of a row of its own is not disturbed.
LEMMA CreateNoteStep ==
    ASSUME NotesApart, ~Meets', NEW q \in Writers, CreateNote(q)
    PROVE  NotesApart'
<1> USE NotesAssumption DEF NotesApart, CreateNote, Await, Notes
<1>1. /\ created' \in 1..MaxNotes /\ created' = created + 1 /\ counter' = counter + 1 /\ counter' \in Nat
      /\ note' \in [Notes -> NoteRecord]
      /\ note'[created'].id = counter' /\ note[created'].id = 0
      /\ \A k \in Notes : k # created' => note'[k] = note[k]
  <2>1. created \in Nat /\ counter \in Nat /\ created < MaxNotes /\ MaxNotes \in Nat
    BY DEF NotesTypeOK
  <2>2. created' \in 1..MaxNotes /\ created' = created + 1 /\ counter' = counter + 1 /\ counter' \in Nat
    BY <2>1
  <2>3. note' = [note EXCEPT ![created'] = [id |-> counter', text |-> 0]]
    OBVIOUS
  <2>4. note \in [1..MaxNotes -> NoteRecord] /\ [id |-> counter', text |-> 0] \in NoteRecord
    BY <2>2 DEF NotesTypeOK, NoteRecord
  <2>5. note[created'].id = 0
    BY <2>1, <2>2 DEF Numbered
  <2> QED
    BY <2>2, <2>3, <2>4, <2>5
<1>2. /\ list' \in Seq(Notes) /\ Len(list') = Len(list) + 1 /\ DOMAIN list' = 1..(Len(list) + 1)
      /\ \A i \in 1..Len(list) : list'[i] = list[i]
      /\ list'[Len(list) + 1] = created'
      /\ DOMAIN list = 1..Len(list) /\ Len(list) \in Nat
  BY <1>1 DEF NotesTypeOK
<1>3. ToSet(list) \subseteq Notes /\ created' \notin ToSet(list) /\ ToSet(list') = ToSet(list) \cup {created'}
  <2>1. ToSet(list) \subseteq Notes
    BY DEF NotesTypeOK, ToSet
  <2>2. created' \notin ToSet(list)
    BY <1>1 DEF Listed
  <2> QED
    BY <1>2, <2>1, <2>2, SMTT(30) DEF ToSet
<1>4. writing' = [writing EXCEPT ![q] = [at |-> "insert", of |-> created', id |-> 0, text |-> 0]]
  OBVIOUS
<1>5. NotesTypeOK'
  <2>1. note' \in [Notes -> NoteRecord] /\ list' \in Seq(Notes) /\ created' \in 0..MaxNotes
    BY <1>1, <1>2
  <2>2. writing' \in [Writers -> [at : NoteSteps, of : 0..MaxNotes, id : Nat, text : Nat]]
    <3>1. [at |-> "insert", of |-> created', id |-> 0, text |-> 0]
            \in [at : NoteSteps, of : 0..MaxNotes, id : Nat, text : Nat]
      BY <2>1 DEF NoteSteps
    <3> QED
      BY <1>4, <3>1 DEF NotesTypeOK
  <2>3. /\ saved' = saved /\ noteRows' = noteRows /\ serial' = serial /\ edits' = edits
        /\ saved \subseteq 1..created /\ noteRows \subseteq NoteRow /\ serial \in Nat /\ edits \in Nat
        /\ counter \in Nat /\ created \in Nat
    BY DEF NotesTypeOK
  <2>4. saved' \subseteq 1..created'
    BY ONLY <1>1, <2>3
  <2> QED
    BY <1>1, <2>1, <2>2, <2>3, <2>4 DEF NotesTypeOK
<1>6. OneIdEach'
  BY <1>5, ApartNext
<1>7. Numbered' /\ Passed'
  <2>1. \A k \in Notes : created' < k => note'[k].id = 0
    BY <1>1 DEF Numbered, NotesTypeOK
  <2>2. ASSUME NEW m \in 1..counter' PROVE m <= serial \/ \E k \in Notes : note'[k].id = m
    <3>1. CASE m = counter'
      BY <1>1, <3>1
    <3>2. CASE m # counter'
      <4>1. m \in 1..counter /\ m # 0
        BY <1>1, <3>2 DEF NotesTypeOK
      <4>2. CASE m <= serial
        BY <4>2
      <4>3. CASE \E k \in Notes : note[k].id = m
        BY <1>1, <4>1, <4>3
      <4> QED
        BY <4>1, <4>2, <4>3 DEF Passed
    <3> QED
      BY <3>1, <3>2
  <2> QED
    BY <2>1, <2>2 DEF Numbered, Passed
<1>8. Listed'
  <2>1. \A i, j \in DOMAIN list' : list'[i] = list'[j] => i = j
    <3>1. \A i \in 1..Len(list) : list'[i] # created'
      BY <1>2, <1>3 DEF ToSet
    <3>2. \A i, j \in 1..Len(list) : list'[i] = list'[j] => i = j
      BY <1>2 DEF Listed
    <3>3. \A i \in DOMAIN list' : i \in 1..Len(list) \/ i = Len(list) + 1
      BY <1>2
    <3> QED
      BY <1>2, <3>1, <3>2, <3>3
  <2>2. \A k \in ToSet(list') : note'[k].id # 0
    BY <1>1, <1>3 DEF Listed, NotesTypeOK
  <2> QED
    BY <2>1, <2>2 DEF Listed
<1>9. RowsOfNotes'
  BY <1>1, SMTT(30) DEF RowsOfNotes, NotesTypeOK, NoteRow
<1>10. Inserts'
  <2>1. /\ writing'[q].at = "insert" /\ writing'[q].of = created'
        /\ \A p \in Writers : p # q => writing'[p] = writing[p] /\ (Waiting(p)' <=> Waiting(p))
    BY <1>4 DEF NotesTypeOK, Waiting
  <2>2. \A p \in Writers : Waiting(p) =>
          /\ writing[p].of \in 1..created /\ note[writing[p].of].id # 0 /\ note[writing[p].of].id <= counter
    BY DEF Inserts
  <2>3. created \in Nat /\ counter \in Nat /\ MaxNotes \in Nat /\ created <= MaxNotes
        /\ \A k \in Notes : note[k].id \in Nat
    BY DEF NotesTypeOK, NoteRecord
  <2>4. ASSUME NEW p \in Writers, p # q, Waiting(p)'
        PROVE  /\ writing'[p] = writing[p] /\ writing[p].of \in 1..created
               /\ writing[p].of \in Notes /\ writing[p].of # created'
               /\ note'[writing[p].of] = note[writing[p].of]
    <3>1. writing'[p] = writing[p] /\ writing[p].of \in 1..created
      BY <2>1, <2>2, <2>4
    <3>2. writing[p].of \in Notes /\ writing[p].of # created'
      BY <1>1, <2>3, <3>1
    <3> QED
      BY <1>1, <3>1, <3>2
  <2>5. ASSUME NEW p \in Writers, Waiting(p)'
        PROVE  writing'[p].of \in 1..created' /\ note'[writing'[p].of].id # 0 /\ note'[writing'[p].of].id <= counter'
    <3>1. CASE p = q
      BY <1>1, <2>1, <2>3, <3>1
    <3>2. CASE p # q
      <4>1. /\ writing[p].of \in 1..created /\ writing[p].of \in Notes
            /\ note[writing[p].of].id # 0 /\ note[writing[p].of].id <= counter
        BY <2>1, <2>2, <2>4, <2>5, <3>2
      <4>2. writing[p].of \in 1..created' /\ note[writing[p].of].id <= counter'
        BY <1>1, <2>3, <4>1
      <4> QED
        BY <2>4, <2>5, <3>2, <4>1, <4>2
    <3> QED
      BY <3>1, <3>2
  <2>6. \A o, p \in Writers : (Waiting(o)' /\ Waiting(p)' /\ writing'[o].of = writing'[p].of) => o = p
    BY <2>1, <2>4 DEF Inserts
  <2>7. ASSUME NEW r \in noteRows PROVE r.of # created' /\ r.of \in Notes /\ r.id # 0
    <3>1. r.of \in 1..created /\ 0 < r.id /\ r.id \in Nat
      BY DEF RowsOfNotes, NotesTypeOK, NoteRow
    <3> QED
      BY ONLY <1>1, <2>3, <3>1 DEF Notes
  <2>8. \A p \in Writers : writing'[p].at = "insert" => \A r \in noteRows : r.of # writing'[p].of
    BY <2>1, <2>7 DEF Inserts
  <2>9. ASSUME NEW p \in Writers, writing'[p].at = "answer" PROVE Answers(p)'
    <3>1. p # q /\ Waiting(p)' /\ writing'[p] = writing[p]
      BY <2>1, <2>9 DEF Waiting
    <3>2. writing[p].of # created' /\ note'[writing[p].of] = note[writing[p].of] /\ Answers(p)
      BY <2>4, <2>9, <3>1 DEF Inserts
    <3>3. HasRow(writing[p].of, writing[p].id) => writing[p].id # counter'
      BY <1>1, <1>6, <2>7, <3>2 DEF HasRow, OneIdEach
    <3>4. writing[p].id \in Nat /\ counter \in Nat
      BY DEF NotesTypeOK
    <3>5. (counter < writing[p].id /\ writing[p].id # counter') => counter' < writing[p].id
      BY <1>1, <3>4
    <3>6. \A k, i : HasRow(k, i)' <=> HasRow(k, i)
      BY DEF HasRow
    <3>7. writing[p].of \notin ToSet(list) => writing[p].of \notin ToSet(list')
      BY <1>3, <3>2
    <3>8. serial' = serial
      OBVIOUS
    <3> QED
      BY ONLY <3>1, <3>2, <3>3, <3>5, <3>6, <3>7, <3>8, Zenon DEF Answers
  <2> QED
    BY <2>5, <2>6, <2>8, <2>9 DEF Inserts
<1>11. Deletes'
  <2> SUFFICES ASSUME NEW p \in Writers, writing'[p].at = "delete",
                      ~(writing'[p].id <= serial /\ \A r \in noteRows : r.id # writing'[p].id)
               PROVE  \E k \in Notes : k \notin ToSet(list') /\ note'[k].id = writing'[p].id
    BY DEF Deletes
  <2>1. p # q /\ writing'[p] = writing[p] /\ writing[p].id \in Nat
    BY <1>4 DEF NotesTypeOK
  <2>2. PICK k \in Notes : k \notin ToSet(list) /\ note[k].id = writing[p].id
    BY <2>1 DEF Deletes
  <2>3. writing[p].id # 0
    BY <2>1 DEF RowsOfNotes, NotesTypeOK
  <2>4. k # created'
    BY <1>1, <2>2, <2>3
  <2> QED
    BY <1>1, <1>3, <2>1, <2>2, <2>4
<1>12. SavedHaveRows'
  <2>1. created' \notin saved
    BY <1>1 DEF NotesTypeOK
  <2> QED
    BY <1>1, <1>3, <2>1 DEF SavedHaveRows, HasRow
<1> QED
  BY <1>5, <1>6, <1>7, <1>8, <1>9, <1>10, <1>11, <1>12

\* The row's id is new: if memory has given it, the note that has it is the one inserted.
LEMMA NoteInsertedStep ==
    ASSUME NotesApart, ~Meets', NEW q \in Writers, NoteInserted(q)
    PROVE  NotesApart'
<1> USE NotesAssumption DEF NotesApart, NoteInserted, Await, Notes
<1> DEFINE n == writing[q].of
           r == [id |-> serial', of |-> n, text |-> 0]
<1>1. /\ n \in Notes /\ n \in 1..created /\ writing[q].at = "insert" /\ counter \in Nat
      /\ note[n].id # 0 /\ note[n].id <= counter
      /\ serial' = serial + 1 /\ serial \in Nat /\ serial' \in Nat
      /\ noteRows' = noteRows \cup {r} /\ r \in NoteRow /\ r.of = n /\ r.id = serial' /\ r \in noteRows'
      /\ \A s \in noteRows : s \in NoteRow /\ s.of # n /\ s.id <= serial
      /\ \A k \in Notes : note[k].id \in Nat
  <2>1. n \in Notes /\ n \in 1..created /\ note[n].id # 0 /\ note[n].id <= counter
    BY DEF Inserts, Waiting, NotesTypeOK
  <2>2. \A k \in Notes : note[k].id \in Nat
    BY DEF NotesTypeOK, NoteRecord
  <2>3. \A s \in noteRows : s \in NoteRow /\ s.of # n /\ s.id <= serial
    BY DEF Inserts, RowsOfNotes, NotesTypeOK
  <2> QED
    BY <2>1, <2>2, <2>3 DEF NotesTypeOK, NoteRow
<1>2. writing' = [writing EXCEPT ![q] = [writing[q] EXCEPT !.at = "answer", !.id = serial']]
  OBVIOUS
<1>3. /\ writing'[q].at = "answer" /\ writing'[q].of = n /\ writing'[q].id = serial'
      /\ \A p \in Writers : p # q => writing'[p] = writing[p]
      /\ \A p \in Writers : Waiting(p)' <=> Waiting(p)
      /\ \A p \in Writers : writing'[p].of = writing[p].of
      /\ writing' \in [Writers -> [at : NoteSteps, of : 0..MaxNotes, id : Nat, text : Nat]]
  <2>1. /\ writing \in [Writers -> [at : NoteSteps, of : 0..MaxNotes, id : Nat, text : Nat]]
        /\ writing[q] \in [at : NoteSteps, of : 0..MaxNotes, id : Nat, text : Nat]
    BY DEF NotesTypeOK
  <2> DEFINE e == [writing[q] EXCEPT !.at = "answer", !.id = serial']
  <2>2. /\ e \in [at : NoteSteps, of : 0..MaxNotes, id : Nat, text : Nat]
        /\ e.at = "answer" /\ e.of = n /\ e.id = serial'
    BY <1>1, <2>1 DEF NoteSteps
  <2> HIDE DEF e
  <2>3. writing'[q] = e /\ \A p \in Writers : p # q => writing'[p] = writing[p]
    BY <1>2, <2>1 DEF e
  <2>4. writing' \in [Writers -> [at : NoteSteps, of : 0..MaxNotes, id : Nat, text : Nat]]
    BY <1>2, <2>1, <2>2 DEF e
  <2> QED
    BY <1>1, <2>2, <2>3, <2>4 DEF Waiting
<1> HIDE DEF r, n
<1>4. NotesTypeOK'
  BY <1>1, <1>3 DEF NotesTypeOK
<1>5. OneIdEach'
  BY <1>4, ApartNext
<1>6. Numbered' /\ Listed' /\ Passed'
  <2>1. \A m \in 1..counter : m <= serial => m <= serial'
    BY <1>1
  <2> QED
    BY <1>1, <2>1 DEF Numbered, Listed, Passed
<1>7. RowsOfNotes'
  <2>1. \A s \in noteRows' : 0 < s.id /\ s.id <= serial' /\ s.of \in 1..created
    BY <1>1 DEF RowsOfNotes, NoteRow
  <2>2. \A s, t \in noteRows' : s.of = t.of \/ s.id = t.id => s = t
    BY <1>1 DEF RowsOfNotes, NoteRow
  <2> QED
    BY <2>1, <2>2 DEF RowsOfNotes
<1>8. \E s \in noteRows' : s.of = n /\ s.id = serial'
  BY <1>1
<1>9. note[n].id = serial' \/ counter < serial'
  <2> SUFFICES ASSUME ~(counter < serial') PROVE note[n].id = serial'
    OBVIOUS
  <2>1. serial' \in 1..counter /\ ~(serial' <= serial) /\ serial' # 0
    BY <1>1
  <2>2. PICK k \in Notes : note[k].id = serial'
    BY <2>1 DEF Passed
  <2>3. k = n
    BY <1>1, <1>5, <2>1, <2>2 DEF OneIdEach
  <2> QED
    BY <2>2, <2>3
<1>10. Inserts'
  <2>1. \A p \in Writers : Waiting(p)' =>
          writing'[p].of \in 1..created /\ note[writing'[p].of].id # 0 /\ note[writing'[p].of].id <= counter
    BY <1>3 DEF Inserts
  <2>2. \A o, p \in Writers : (Waiting(o)' /\ Waiting(p)' /\ writing'[o].of = writing'[p].of) => o = p
    BY <1>3 DEF Inserts
  <2>3. \A p \in Writers : writing'[p].at = "insert" => \A s \in noteRows' : s.of # writing'[p].of
    <3> SUFFICES ASSUME NEW p \in Writers, writing'[p].at = "insert"
                 PROVE  \A s \in noteRows' : s.of # writing'[p].of
      OBVIOUS
    <3>1. p # q /\ writing'[p] = writing[p] /\ Waiting(p) /\ Waiting(q)
      BY <1>1, <1>3 DEF Waiting
    <3>2. writing[p].of # n
      BY <3>1 DEF Inserts, n
    <3> QED
      BY <1>1, <3>1, <3>2 DEF Inserts
  <2>4. ASSUME NEW p \in Writers, writing'[p].at = "answer" PROVE Answers(p)'
    <3>1. CASE p = q
      <4>1. note' = note /\ list' = list /\ counter' = counter /\ serial' <= serial'
        BY <1>1
      <4> QED
        BY <1>3, <1>8, <1>9, <3>1, <4>1, Zenon DEF Answers, HasRow
    <3>2. CASE p # q
      <4>1. writing'[p] = writing[p] /\ Answers(p) /\ writing[p].id \in Nat
        BY <1>3, <2>4, <3>2 DEF Inserts, NotesTypeOK
      <4>2. writing[p].id <= serial => writing[p].id <= serial'
        BY <1>1, <4>1
      <4>3. \A k, i : HasRow(k, i) => HasRow(k, i)'
        BY <1>1 DEF HasRow
      <4>4. note' = note /\ list' = list /\ counter' = counter
        OBVIOUS
      <4> QED
        BY ONLY <4>1, <4>2, <4>3, <4>4 DEF Answers
    <3> QED
      BY <3>1, <3>2
  <2> QED
    BY <2>1, <2>2, <2>3, <2>4 DEF Inserts
<1>11. Deletes'
  <2> SUFFICES ASSUME NEW p \in Writers, writing'[p].at = "delete",
                      ~\E k \in Notes : k \notin ToSet(list) /\ note[k].id = writing'[p].id
               PROVE  writing'[p].id <= serial' /\ \A s \in noteRows' : s.id # writing'[p].id
    BY DEF Deletes
  <2>1. p # q /\ writing'[p] = writing[p] /\ writing[p].id \in Nat
    BY <1>3 DEF NotesTypeOK
  <2>2. writing[p].id <= serial /\ \A s \in noteRows : s.id # writing[p].id
    BY <2>1 DEF Deletes
  <2> QED
    BY <1>1, <2>1, <2>2
<1>12. SavedHaveRows'
  BY <1>1 DEF SavedHaveRows, HasRow
<1> QED
  BY <1>4, <1>5, <1>6, <1>7, <1>10, <1>11, <1>12

\* The note that is found by the id of memory is the new one, so this one alone is given the
\* id of its row.
LEMMA NoteAnsweredStep ==
    ASSUME NotesApart, ~Meets', NEW q \in Writers, NoteAnswered(q)
    PROVE  NotesApart'
<1> USE NotesAssumption DEF NotesApart, NoteAnswered, Await, Notes
<1> DEFINE n == writing[q].of
           x == writing[q].id
<1>1. /\ n \in Notes /\ n \in 1..created /\ writing[q].at = "answer" /\ Waiting(q)
      /\ note[n].id \in Nat /\ note[n].id # 0 /\ note[n].id <= counter
      /\ x \in Nat /\ x <= serial /\ x # 0 /\ counter \in Nat /\ serial \in Nat
      /\ note[n].id = x \/ (counter < x /\ HasRow(n, x))
      /\ HasRow(n, x) \/ n \notin ToSet(list)
  <2>1. n \in Notes /\ n \in 1..created /\ writing[q].at = "answer" /\ Waiting(q) /\ x \in Nat
    BY DEF Inserts, Waiting, NotesTypeOK
  <2>2. note[n].id \in Nat /\ counter \in Nat /\ serial \in Nat
    BY <2>1 DEF NotesTypeOK, NoteRecord
  <2>3. note[n].id # 0 /\ note[n].id <= counter
    BY <2>1 DEF Inserts
  <2>4. Answers(q)
    BY <2>1 DEF Inserts
  <2>5. /\ x <= serial
        /\ note[n].id = x \/ (counter < x /\ HasRow(n, x))
        /\ HasRow(n, x) \/ n \notin ToSet(list)
    BY <2>4 DEF Answers
  <2>6. x # 0
    BY <2>1, <2>2, <2>3, <2>5
  <2> HIDE DEF n, x
  <2> QED
    BY ONLY <2>1, <2>2, <2>3, <2>5, <2>6, Zenon
<1>2. note[n].id \in ListedIds => FirstWith(note[n].id) = n
  BY <1>1, FoundIsListed DEF OneIdEach
<1>3. note' = [note EXCEPT ![n].id = x]
  <2>1. note' = Renumbered(n, x)
    OBVIOUS
  <2>2. Renumbered(n, x) = [j \in Notes |-> IF j = n THEN [note[j] EXCEPT !.id = x] ELSE note[j]]
    <3> HIDE DEF n, x
    <3> QED
      BY <1>2 DEF Renumbered
  <2>3. note \in [Notes -> NoteRecord]
    BY DEF NotesTypeOK
  <2> HIDE DEF n, x
  <2> QED
    BY <1>1, <2>1, <2>2, <2>3
<1>4. /\ note' \in [Notes -> NoteRecord] /\ note'[n].id = x
      /\ \A k \in Notes : k # n => note'[k] = note[k]
  <2> HIDE DEF n, x
  <2> QED
    BY <1>1, <1>3, ZenonT(30) DEF NotesTypeOK, NoteRecord
<1>5. /\ writing'[q] = NotWriting /\ \A p \in Writers : p # q => writing'[p] = writing[p]
      /\ writing' \in [Writers -> [at : NoteSteps, of : 0..MaxNotes, id : Nat, text : Nat]]
  BY DEF NotesTypeOK, NotWriting, NoteSteps
<1>6. saved' = saved \cup {n}
  OBVIOUS
<1> HIDE DEF n, x
<1>7. NotesTypeOK'
  BY <1>1, <1>4, <1>5, <1>6 DEF NotesTypeOK
<1>8. OneIdEach'
  BY <1>7, ApartNext
<1>9. note[n].id # x => /\ note[n].id <= serial
                        /\ \A r \in noteRows : r.id # note[n].id
  <2> SUFFICES ASSUME note[n].id # x
               PROVE  note[n].id <= serial /\ \A r \in noteRows : r.id # note[n].id
    OBVIOUS
  <2>1. counter < x /\ HasRow(n, x)
    BY <1>1
  <2>2. PICK s \in noteRows : s.of = n /\ s.id = x
    BY <2>1 DEF HasRow
  <2>3. ASSUME NEW r \in noteRows, r.id = note[n].id PROVE FALSE
    <3>1. r.of = n
      BY <1>1, <2>3 DEF OneIdEach
    <3>2. r = s
      BY <2>2, <3>1 DEF RowsOfNotes
    <3> QED
      BY <2>2, <2>3, <3>2
  <2>4. note[n].id <= serial
    BY <1>1, <2>1
  <2> QED
    BY <2>3, <2>4
<1>10. Numbered' /\ Passed'
  <2>1. \A k \in Notes : created < k => note'[k].id = 0
    BY <1>1, <1>4 DEF Numbered, NotesTypeOK
  <2>2. ASSUME NEW m \in 1..counter PROVE m <= serial \/ \E k \in Notes : note'[k].id = m
    <3>1. CASE m <= serial
      BY <3>1
    <3>2. CASE ~(m <= serial)
      <4>1. PICK k \in Notes : note[k].id = m
        BY <3>2 DEF Passed
      <4>2. CASE k = n
        BY <1>4, <1>9, <3>2, <4>1, <4>2
      <4>3. CASE k # n
        BY <1>4, <4>1, <4>3
      <4> QED
        BY <4>2, <4>3
    <3> QED
      BY <3>1, <3>2
  <2> QED
    BY <2>1, <2>2 DEF Numbered, Passed
<1>11. Listed'
  <2>1. ToSet(list) \subseteq 1..MaxNotes
    BY DEF NotesTypeOK, ToSet
  <2> QED
    BY <1>1, <1>4, <2>1 DEF Listed
<1>12. RowsOfNotes'
  BY DEF RowsOfNotes
<1>13. Inserts'
  <2>1. ASSUME NEW p \in Writers, Waiting(p)' PROVE p # q /\ writing'[p] = writing[p] /\ Waiting(p)
    BY <1>5, <2>1 DEF Waiting, NotWriting
  <2>2. ASSUME NEW p \in Writers, Waiting(p)'
        PROVE  writing[p].of # n /\ note'[writing[p].of] = note[writing[p].of]
    <3>1. writing[p].of # n /\ writing[p].of \in Notes
      BY <1>1, <2>1, <2>2 DEF Inserts, n, NotesTypeOK
    <3> QED
      BY <1>4, <3>1
  <2>3. \A p \in Writers : Waiting(p)' =>
          writing'[p].of \in 1..created /\ note'[writing'[p].of].id # 0 /\ note'[writing'[p].of].id <= counter
    BY <2>1, <2>2 DEF Inserts
  <2>4. \A o, p \in Writers : (Waiting(o)' /\ Waiting(p)' /\ writing'[o].of = writing'[p].of) => o = p
    BY <2>1 DEF Inserts
  <2>5. \A p \in Writers : writing'[p].at \in {"insert", "answer"} => Waiting(p)'
    BY DEF Waiting
  <2>6. \A p \in Writers : writing'[p].at = "insert" => \A s \in noteRows : s.of # writing'[p].of
    BY <2>1, <2>5 DEF Inserts
  <2>7. ASSUME NEW p \in Writers, writing'[p].at = "answer" PROVE Answers(p)'
    <3>1. Waiting(p)'
      BY <2>5, <2>7
    <3>2. writing'[p] = writing[p] /\ note'[writing[p].of] = note[writing[p].of]
      BY <2>1, <2>2, <3>1
    <3>3. Answers(p)
      BY <2>7, <3>2 DEF Inserts
    <3>4. list' = list /\ counter' = counter /\ serial' = serial /\ noteRows' = noteRows
      OBVIOUS
    <3> QED
      BY ONLY <3>2, <3>3, <3>4 DEF Answers, HasRow
  <2> QED
    BY <2>3, <2>4, <2>6, <2>7 DEF Inserts
<1>14. Deletes'
  <2> SUFFICES ASSUME NEW p \in Writers, writing'[p].at = "delete",
                      ~(writing'[p].id <= serial /\ \A r \in noteRows : r.id # writing'[p].id)
               PROVE  \E k \in Notes : k \notin ToSet(list) /\ note'[k].id = writing'[p].id
    BY DEF Deletes
  <2>1. p # q /\ writing'[p] = writing[p]
    BY <1>5 DEF NotWriting
  <2>2. PICK k \in Notes : k \notin ToSet(list) /\ note[k].id = writing[p].id
    BY <2>1 DEF Deletes
  <2>3. CASE k = n
    BY <1>4, <1>9, <2>1, <2>2, <2>3
  <2>4. CASE k # n
    BY <1>4, <2>1, <2>2, <2>4
  <2> QED
    BY <2>3, <2>4
<1>15. SavedHaveRows'
  <2>1. ToSet(list) \subseteq Notes
    BY DEF NotesTypeOK, ToSet
  <2> QED
    BY <1>1, <1>4, <1>6, <2>1 DEF SavedHaveRows, HasRow
<1> QED
  BY <1>7, <1>8, <1>10, <1>11, <1>12, <1>13, <1>14, <1>15

\* A request that ends, or waits for another statement, is at no insert before or after.
LEMMA OtherWriters ==
    ASSUME NotesTypeOK, NEW q \in Writers,
           NEW e \in [at : NoteSteps \ {"insert", "answer"}, of : 0..MaxNotes, id : Nat, text : Nat],
           writing' = [writing EXCEPT ![q] = e]
    PROVE  /\ writing' \in [Writers -> [at : NoteSteps, of : 0..MaxNotes, id : Nat, text : Nat]]
           /\ writing'[q] = e /\ \A p \in Writers : p # q => writing'[p] = writing[p]
           /\ \A p \in Writers : Waiting(p)' => p # q /\ Waiting(p)
<1>1. /\ writing \in [Writers -> [at : NoteSteps, of : 0..MaxNotes, id : Nat, text : Nat]]
      /\ e \in [at : NoteSteps, of : 0..MaxNotes, id : Nat, text : Nat]
      /\ e.at \notin {"insert", "answer"}
  BY DEF NotesTypeOK
<1>2. writing'[q] = e /\ \A p \in Writers : p # q => writing'[p] = writing[p]
  BY <1>1
<1>3. writing' \in [Writers -> [at : NoteSteps, of : 0..MaxNotes, id : Nat, text : Nat]]
  BY <1>1
<1> QED
  BY <1>1, <1>2, <1>3 DEF Waiting

\* When ids stay, no insert begins, and rows only go of notes that are off the list and have the
\* row's id, the inserts under way stay as they are.
LEMMA InsertsStay ==
    ASSUME Inserts, \A p \in Writers : Waiting(p)' => Waiting(p) /\ writing'[p] = writing[p],
           NotesTypeOK, \A k \in Notes : note'[k].id = note[k].id,
           created' = created, counter' = counter, serial' = serial, ToSet(list') \subseteq ToSet(list),
           \A r \in noteRows' : \E s \in noteRows : s.of = r.of,
           \A s \in noteRows : \/ \E r \in noteRows' : r.of = s.of /\ r.id = s.id
                               \/ s.of \notin ToSet(list) /\ note[s.of].id = s.id
    PROVE  Inserts'
<1>1. \A p \in Writers : writing'[p].at \in {"insert", "answer"} => Waiting(p)'
  BY DEF Waiting
<1>2. \A p \in Writers : Waiting(p) => writing[p].of \in 1..created /\ writing[p].of \in Notes
  BY DEF Inserts, NotesTypeOK, Notes
<1>3. \A p \in Writers : Waiting(p)' =>
        writing'[p].of \in 1..created' /\ note'[writing'[p].of].id # 0 /\ note'[writing'[p].of].id <= counter'
  BY <1>2 DEF Inserts
<1>4. \A o, p \in Writers : (Waiting(o)' /\ Waiting(p)' /\ writing'[o].of = writing'[p].of) => o = p
  BY DEF Inserts
<1>5. \A p \in Writers : writing'[p].at = "insert" => \A r \in noteRows' : r.of # writing'[p].of
  BY <1>1 DEF Inserts
<1>6. ASSUME NEW p \in Writers, writing'[p].at = "answer"
      PROVE  Answers(p)'
  <2>0. PICK k, x : k = writing[p].of /\ x = writing[p].id
    OBVIOUS
  <2>1. /\ writing'[p] = writing[p] /\ writing[p].at = "answer" /\ Waiting(p)
        /\ writing[p].of = k /\ writing[p].id = x
    BY <1>1, <1>6, <2>0
  <2>2. k \in Notes /\ note'[k].id = note[k].id
    BY <1>2, <2>1
  <2>3. /\ x <= serial
        /\ note[k].id = x \/ (counter < x /\ HasRow(k, x))
        /\ HasRow(k, x) \/ k \notin ToSet(list)
    BY <2>1, Zenon DEF Inserts, Answers
  <2>4. ASSUME HasRow(k, x) PROVE HasRow(k, x)' \/ (k \notin ToSet(list) /\ note[k].id = x)
    <3>1. PICK s \in noteRows : s.of = k /\ s.id = x
      BY <2>4 DEF HasRow
    <3>2. CASE \E r \in noteRows' : r.of = s.of /\ r.id = s.id
      BY <3>1, <3>2 DEF HasRow
    <3>3. CASE s.of \notin ToSet(list) /\ note[s.of].id = s.id
      BY <3>1, <3>3
    <3> QED
      BY <3>2, <3>3
  <2>5. k \notin ToSet(list) => k \notin ToSet(list')
    OBVIOUS
  <2>6. /\ x <= serial
        /\ note'[k].id = x \/ (counter < x /\ HasRow(k, x)')
        /\ HasRow(k, x)' \/ k \notin ToSet(list')
    BY ONLY <2>2, <2>3, <2>4, <2>5, Zenon
  <2>7. writing'[p].of = k /\ writing'[p].id = x /\ serial' = serial /\ counter' = counter
    BY <2>1
  <2> QED
    BY ONLY <2>6, <2>7 DEF Answers, HasRow
<1> QED
  BY <1>3, <1>4, <1>5, <1>6 DEF Inserts

LEMMA EditNoteStep ==
    ASSUME NotesApart, NEW q \in Writers, NEW i \in ListedIds, EditNote(q, i)
    PROVE  NotesApart'
<1> DEFINE k == FirstWith(i)
           e == [at |-> "update", of |-> k, id |-> i, text |-> edits']
<1>0. /\ NotesTypeOK /\ OneIdEach /\ Numbered /\ Passed /\ Listed /\ RowsOfNotes /\ Inserts /\ Deletes
      /\ SavedHaveRows
  BY DEF NotesApart
<1>1. k \in Notes /\ note[k].id = i /\ note[k] \in NoteRecord /\ i \in Nat
  BY <1>0, FoundIsListed DEF NotesTypeOK, NoteRecord
<1>2. /\ note' = [note EXCEPT ![k].text = edits'] /\ edits' = edits + 1
      /\ writing' = [writing EXCEPT ![q] = e]
      /\ UNCHANGED <<list, saved, noteRows, serial, counter, created>>
  BY DEF EditNote, Await
<1>3. edits' \in Nat /\ [note[k] EXCEPT !.text = edits'] \in NoteRecord
  <2> HIDE DEF k
  <2>1. edits' \in Nat
    BY <1>0, <1>2 DEF NotesTypeOK
  <2> QED
    BY <1>1, <2>1 DEF NoteRecord
<1>4. note' \in [Notes -> NoteRecord] /\ \A j \in Notes : note'[j].id = note[j].id
  <2> HIDE DEF k
  <2>1. note \in [Notes -> NoteRecord]
    BY <1>0 DEF NotesTypeOK
  <2> QED
    BY <1>1, <1>2, <1>3, <2>1 DEF NoteRecord
<1>5. e \in [at : NoteSteps \ {"insert", "answer"}, of : 0..MaxNotes, id : Nat, text : Nat]
  <2> HIDE DEF k
  <2> QED
    BY <1>1, <1>3, NotesAssumption DEF NoteSteps, Notes
<1>6. e.at = "update"
  OBVIOUS
<1> HIDE DEF k, e
<1>7. /\ writing' \in [Writers -> [at : NoteSteps, of : 0..MaxNotes, id : Nat, text : Nat]]
      /\ writing'[q].at = "update" /\ \A p \in Writers : p # q => writing'[p] = writing[p]
      /\ \A p \in Writers : Waiting(p)' => p # q /\ Waiting(p)
  BY <1>0, <1>2, <1>5, <1>6, OtherWriters
<1>8. NotesTypeOK'
  BY <1>0, <1>2, <1>3, <1>4, <1>7 DEF NotesTypeOK
<1>9. ToSet(list') = ToSet(list) /\ ToSet(list) \subseteq Notes
  BY <1>0, <1>2 DEF NotesTypeOK, ToSet
<1>10. OneIdEach' /\ Numbered' /\ Passed' /\ Listed' /\ RowsOfNotes'
  BY <1>0, <1>2, <1>4, <1>9 DEF OneIdEach, Numbered, Passed, Listed, RowsOfNotes
<1>11. Inserts'
  <2>1. \A r \in noteRows : \E s \in noteRows : s.of = r.of /\ s.id = r.id
    OBVIOUS
  <2> QED
    BY <1>0, <1>2, <1>4, <1>7, <1>9, <2>1, InsertsStay
<1>12. Deletes'
  BY <1>0, <1>2, <1>4, <1>7, <1>9 DEF Deletes
<1>13. SavedHaveRows'
  BY <1>0, <1>2, <1>4, <1>9 DEF SavedHaveRows, HasRow
<1> QED
  BY <1>8, <1>10, <1>11, <1>12, <1>13 DEF NotesApart

\* A request ends, and rows keep the ids and the notes they have.
LEMMA RequestEnds ==
    ASSUME NotesApart, NEW q \in Writers, Await(q, NotWriting),
           UNCHANGED <<note, list, saved, serial, counter, created, edits>>,
           noteRows' \subseteq NoteRow,
           \A r \in noteRows : \E s \in noteRows' : s.id = r.id /\ s.of = r.of,
           \A s \in noteRows' : \E r \in noteRows : s.id = r.id /\ s.of = r.of,
           \A r, s \in noteRows' : (r.id = s.id /\ r.of = s.of) => r = s
    PROVE  NotesApart'
<1>0. /\ NotesTypeOK /\ OneIdEach /\ Numbered /\ Passed /\ Listed /\ RowsOfNotes /\ Inserts /\ Deletes
      /\ SavedHaveRows
  BY DEF NotesApart
<1>1. NotWriting \in [at : NoteSteps \ {"insert", "answer"}, of : 0..MaxNotes, id : Nat, text : Nat]
  BY NotesAssumption DEF NotWriting, NoteSteps
<1>2. NotWriting.at = "idle"
  BY DEF NotWriting
<1>3. /\ writing' \in [Writers -> [at : NoteSteps, of : 0..MaxNotes, id : Nat, text : Nat]]
      /\ writing'[q].at = "idle" /\ \A p \in Writers : p # q => writing'[p] = writing[p]
      /\ \A p \in Writers : Waiting(p)' => p # q /\ Waiting(p)
  BY <1>0, <1>1, <1>2, OtherWriters DEF Await
<1>4. NotesTypeOK'
  BY <1>0, <1>3 DEF NotesTypeOK
<1>5. Numbered' /\ Passed' /\ Listed' /\ ToSet(list') = ToSet(list)
  BY <1>0 DEF Numbered, Passed, Listed
<1>6. OneIdEach' /\ RowsOfNotes'
  <2>1. \A r \in noteRows' : 0 < r.id /\ r.id <= serial /\ r.of \in 1..created
    BY <1>0 DEF RowsOfNotes
  <2>2. \A r, s \in noteRows' : r.of = s.of \/ r.id = s.id => r.of = s.of /\ r.id = s.id
    BY <1>0 DEF RowsOfNotes
  <2>3. \A r \in noteRows', k \in Notes : (note[k].id = r.id /\ r.id # 0) => k = r.of
    BY <1>0 DEF OneIdEach
  <2> QED
    BY <1>0, <2>1, <2>2, <2>3 DEF OneIdEach, RowsOfNotes
<1>7. Inserts'
  BY <1>0, <1>3, <1>5, InsertsStay
<1>8. Deletes'
  BY <1>0, <1>3, <1>5 DEF Deletes
<1>9. SavedHaveRows'
  <2> SUFFICES ASSUME NEW k \in saved \cap ToSet(list)
               PROVE  \E s \in noteRows' : s.of = k /\ s.id = note[k].id
    BY <1>5 DEF SavedHaveRows, HasRow
  <2>1. PICK r \in noteRows : r.of = k /\ r.id = note[k].id
    BY <1>0 DEF SavedHaveRows, HasRow
  <2> QED
    BY <2>1
<1> QED
  BY <1>4, <1>5, <1>6, <1>7, <1>8, <1>9 DEF NotesApart

LEMMA RowUpdatedStep ==
    ASSUME NotesApart, NEW q \in Writers, RowUpdated(q)
    PROVE  NotesApart'
<1> DEFINE Now(r) == IF r.id = writing[q].id THEN [r EXCEPT !.text = writing[q].text] ELSE r
<1>1. /\ noteRows \subseteq NoteRow /\ writing[q].text \in Nat
      /\ \A r, s \in noteRows : r.of = s.of \/ r.id = s.id => r = s
  BY DEF NotesApart, NotesTypeOK, RowsOfNotes
<1>2. noteRows' = {Now(r) : r \in noteRows}
  BY DEF RowUpdated
<1>3. \A r \in noteRows : Now(r) \in NoteRow /\ Now(r).id = r.id /\ Now(r).of = r.of
  BY <1>1 DEF NoteRow
<1>4. /\ Await(q, NotWriting) /\ UNCHANGED <<note, list, saved, serial, counter, created, edits>>
  BY DEF RowUpdated
<1> HIDE DEF Now
<1>5. noteRows' \subseteq NoteRow
  BY <1>2, <1>3
<1>6. \A r \in noteRows : \E s \in noteRows' : s.id = r.id /\ s.of = r.of
  BY <1>2, <1>3
<1>7. \A s \in noteRows' : \E r \in noteRows : s.id = r.id /\ s.of = r.of
  BY <1>2, <1>3
<1>8. \A r, s \in noteRows' : (r.id = s.id /\ r.of = s.of) => r = s
  BY <1>1, <1>2, <1>3
<1> QED
  BY <1>4, <1>5, <1>6, <1>7, <1>8, RequestEnds

LEMMA StatementFailsStep ==
    ASSUME NotesApart, NEW q \in Writers, StatementFails(q)
    PROVE  NotesApart'
<1>1. /\ noteRows' = noteRows /\ noteRows \subseteq NoteRow
      /\ \A r, s \in noteRows : r.of = s.of \/ r.id = s.id => r = s
      /\ Await(q, NotWriting) /\ UNCHANGED <<note, list, saved, serial, counter, created, edits>>
  BY DEF NotesApart, NotesTypeOK, RowsOfNotes, StatementFails
<1> QED
  BY <1>1, RequestEnds

\* The note that is taken off the list has the id that its row will be deleted by.
LEMMA DeleteNoteStep ==
    ASSUME NotesApart, NEW q \in Writers, NEW i \in ListedIds, DeleteNote(q, i)
    PROVE  NotesApart'
<1> DEFINE k == FirstWith(i)
           e == [at |-> "delete", of |-> k, id |-> i, text |-> 0]
<1>0. /\ NotesTypeOK /\ OneIdEach /\ Numbered /\ Passed /\ Listed /\ RowsOfNotes /\ Inserts /\ Deletes
      /\ SavedHaveRows
  BY DEF NotesApart
<1>1. FirstIndex(i) \in 1..Len(list) /\ k \in Notes /\ note[k].id = i /\ i \in Nat
  BY <1>0, FoundIsListed DEF NotesTypeOK, NoteRecord
<1>2. /\ list' = RemoveAt(list, FirstIndex(i)) /\ writing' = [writing EXCEPT ![q] = e]
      /\ UNCHANGED <<note, saved, noteRows, serial, counter, created, edits>>
  BY DEF DeleteNote, Await
<1>3. /\ list' \in Seq(Notes) /\ ToSet(list') = ToSet(list) \ {k}
      /\ \A a, b \in DOMAIN list' : list'[a] = list'[b] => a = b
  <2>1. list \in Seq(Notes) /\ \A a, b \in DOMAIN list : list[a] = list[b] => a = b
    BY <1>0 DEF NotesTypeOK, Listed
  <2> QED
    BY <1>1, <1>2, <2>1, SplicedList DEF FirstWith
<1>4. e \in [at : NoteSteps \ {"insert", "answer"}, of : 0..MaxNotes, id : Nat, text : Nat]
  <2> HIDE DEF k
  <2> QED
    BY <1>1, NotesAssumption DEF NoteSteps, Notes
<1>5. e.at = "delete" /\ e.id = i
  OBVIOUS
<1> HIDE DEF k, e
<1>6. /\ writing' \in [Writers -> [at : NoteSteps, of : 0..MaxNotes, id : Nat, text : Nat]]
      /\ writing'[q] = e /\ \A p \in Writers : p # q => writing'[p] = writing[p]
      /\ \A p \in Writers : Waiting(p)' => p # q /\ Waiting(p)
  BY <1>0, <1>2, <1>4, OtherWriters
<1>7. NotesTypeOK'
  BY <1>0, <1>2, <1>3, <1>6 DEF NotesTypeOK
<1>8. OneIdEach' /\ Numbered' /\ Passed' /\ RowsOfNotes'
  BY <1>0, <1>2 DEF OneIdEach, Numbered, Passed, RowsOfNotes
<1>9. Listed'
  BY <1>0, <1>2, <1>3 DEF Listed
<1>10. Inserts'
  <2>1. /\ \A r \in noteRows : \E s \in noteRows : s.of = r.of /\ s.id = r.id
        /\ ToSet(list') \subseteq ToSet(list)
    BY <1>3
  <2> QED
    BY <1>0, <1>2, <1>6, <2>1, InsertsStay
<1>11. Deletes'
  <2> SUFFICES ASSUME NEW p \in Writers, writing'[p].at = "delete",
                      ~(writing'[p].id <= serial /\ \A r \in noteRows : r.id # writing'[p].id)
               PROVE  \E j \in Notes : j \notin ToSet(list') /\ note[j].id = writing'[p].id
    BY <1>2 DEF Deletes
  <2>1. CASE p = q
    BY <1>1, <1>3, <1>5, <1>6, <2>1
  <2>2. CASE p # q
    BY <1>0, <1>3, <1>6, <2>2 DEF Deletes
  <2> QED
    BY <2>1, <2>2
<1>12. SavedHaveRows'
  BY <1>0, <1>2, <1>3 DEF SavedHaveRows, HasRow
<1> QED
  BY <1>7, <1>8, <1>9, <1>10, <1>11, <1>12 DEF NotesApart

\* The row that is deleted is of a note that is listed no more and has the row's id.
LEMMA RowDeletedStep ==
    ASSUME NotesApart, NEW q \in Writers, RowDeleted(q)
    PROVE  NotesApart'
<1>0. /\ NotesTypeOK /\ OneIdEach /\ Numbered /\ Passed /\ Listed /\ RowsOfNotes /\ Inserts /\ Deletes
      /\ SavedHaveRows
  BY DEF NotesApart
<1> DEFINE x == writing[q].id
<1>1. /\ noteRows' = {r \in noteRows : r.id # x} /\ writing[q].at = "delete"
      /\ writing' = [writing EXCEPT ![q] = NotWriting]
      /\ UNCHANGED <<note, list, saved, serial, counter, created, edits>>
  BY DEF RowDeleted, Await
<1>2. ASSUME NEW r \in noteRows, r.id = x
      PROVE  r.of \notin ToSet(list) /\ r.of \in Notes /\ note[r.of].id = x
  <2>1. r \in NoteRow /\ r.id # 0
    BY <1>0 DEF NotesTypeOK, RowsOfNotes, NoteRow
  <2>2. PICK k \in Notes : k \notin ToSet(list) /\ note[k].id = x
    BY <1>0, <1>1, <1>2 DEF Deletes
  <2>3. k = r.of
    BY <1>0, <1>2, <2>1, <2>2 DEF OneIdEach
  <2> QED
    BY <2>2, <2>3
<1>3. NotWriting \in [at : NoteSteps \ {"insert", "answer"}, of : 0..MaxNotes, id : Nat, text : Nat]
  BY NotesAssumption DEF NotWriting, NoteSteps
<1>4. NotWriting.at = "idle"
  BY DEF NotWriting
<1> HIDE DEF x
<1>5. /\ writing' \in [Writers -> [at : NoteSteps, of : 0..MaxNotes, id : Nat, text : Nat]]
      /\ writing'[q].at = "idle" /\ \A p \in Writers : p # q => writing'[p] = writing[p]
      /\ \A p \in Writers : Waiting(p)' => p # q /\ Waiting(p)
  BY <1>0, <1>1, <1>3, <1>4, OtherWriters
<1>6. NotesTypeOK'
  BY <1>0, <1>1, <1>5 DEF NotesTypeOK
<1>7. OneIdEach' /\ Numbered' /\ Passed' /\ Listed' /\ RowsOfNotes' /\ ToSet(list') = ToSet(list)
  BY <1>0, <1>1 DEF OneIdEach, Numbered, Passed, Listed, RowsOfNotes
<1>8. Inserts'
  <2>1. \A s \in noteRows : \/ \E r \in noteRows' : r.of = s.of /\ r.id = s.id
                            \/ s.of \notin ToSet(list) /\ note[s.of].id = s.id
    BY <1>1, <1>2
  <2>2. \A r \in noteRows' : \E s \in noteRows : s.of = r.of
    BY <1>1
  <2> QED
    BY <1>0, <1>1, <1>5, <1>7, <2>1, <2>2, InsertsStay
<1>9. Deletes'
  BY <1>0, <1>1, <1>5, <1>7 DEF Deletes
<1>10. SavedHaveRows'
  BY <1>0, <1>1, <1>2, <1>7 DEF SavedHaveRows, HasRow
<1> QED
  BY <1>6, <1>7, <1>8, <1>9, <1>10 DEF NotesApart

\* What is listed after a restart are the notes that have a row, each under the row's id.
LEMMA NotesRestartStep ==
    ASSUME NotesApart, NotesRestart
    PROVE  NotesApart'
<1>0. NotesTypeOK /\ Numbered /\ RowsOfNotes
  BY DEF NotesApart
<1> DEFINE RowOf(k) == CHOOSE r \in noteRows : r.of = k
           kept == {r.of : r \in noteRows}
<1>1. /\ writing' = [q \in Writers |-> NotWriting] /\ counter' = 0
      /\ note' = [k \in Notes |-> IF k \in kept THEN [id |-> RowOf(k).id, text |-> RowOf(k).text]
                                   ELSE [id |-> 0, text |-> 0]]
      /\ list' \in Bijection(1..Cardinality(kept), kept) /\ saved' = kept
      /\ UNCHANGED <<noteRows, serial, created, edits>>
  BY DEF NotesRestart
<1>2. \A r \in noteRows : r \in NoteRow /\ r.of \in Notes /\ r.of \in 1..created /\ r.id # 0 /\ r.id <= serial
  BY <1>0 DEF NotesTypeOK, RowsOfNotes, NoteRow
<1>3. \A r \in noteRows : RowOf(r.of) = r
  BY <1>0 DEF RowsOfNotes
<1>4. \A k \in kept : \E r \in noteRows : r.of = k /\ RowOf(k) = r
  BY <1>3
<1>5. kept \subseteq Notes /\ kept \subseteq 1..created
  BY <1>2
<1>6. Cardinality(kept) \in Nat
  <2>1. IsFiniteSet(Notes)
    BY NotesAssumption, FS_Interval DEF Notes
  <2> QED
    BY <1>5, <2>1, FS_Subset, FS_CardinalityType
<1> HIDE DEF RowOf
<1>7. note' \in [Notes -> NoteRecord]
  BY <1>1, <1>2, <1>4 DEF NoteRow, NoteRecord
<1>8. /\ \A r \in noteRows : note'[r.of].id = r.id
      /\ \A k \in Notes : k \notin kept => note'[k].id = 0
      /\ \A k \in kept : k \in Notes /\ \E r \in noteRows : r.of = k /\ note'[k].id = r.id
  BY <1>1, <1>2, <1>3, <1>4, <1>5
<1>9. /\ list' \in Seq(Notes) /\ ToSet(list') \subseteq kept
      /\ \A a, b \in DOMAIN list' : list'[a] = list'[b] => a = b
  <2> HIDE DEF kept
  <2>1. list' \in [1..Cardinality(kept) -> kept] /\ \A a, b \in DOMAIN list' : list'[a] = list'[b] => a = b
    BY <1>1 DEF Bijection, Injection, IsInjective
  <2>2. list' \in [1..Cardinality(kept) -> Notes]
    BY <1>5, <2>1
  <2> QED
    BY <1>6, <2>1, <2>2 DEF ToSet
<1> HIDE DEF kept
<1>10. NotWriting \in [at : NoteSteps, of : 0..MaxNotes, id : Nat, text : Nat] /\ NotWriting.at = "idle"
  BY NotesAssumption DEF NotWriting, NoteSteps
<1>11. \A q \in Writers : writing'[q].at = "idle"
  BY <1>1, <1>10
<1>12. NotesTypeOK'
  BY <1>0, <1>1, <1>5, <1>7, <1>9, <1>10 DEF NotesTypeOK
<1>13. Numbered' /\ Passed'
  <2>1. ASSUME NEW k \in Notes, created' < k PROVE note'[k].id = 0
    <3>1. k \notin 1..created
      BY <1>0, <1>1, <2>1, NotesAssumption DEF NotesTypeOK, Notes
    <3> QED
      BY <1>5, <1>8, <3>1
  <2> QED
    BY <1>1, <2>1 DEF Numbered, Passed
<1>14. OneIdEach'
  <2>1. \A j, k \in Notes : (note'[j].id = note'[k].id /\ note'[k].id # 0) => j = k
    <3> SUFFICES ASSUME NEW j \in Notes, NEW k \in Notes, note'[j].id = note'[k].id, note'[k].id # 0
                 PROVE  j = k
      OBVIOUS
    <3>1. j \in kept /\ k \in kept
      BY <1>8
    <3> QED
      BY <1>0, <1>8, <3>1 DEF RowsOfNotes
  <2>2. \A r \in noteRows, k \in Notes : (note'[k].id = r.id /\ r.id # 0) => k = r.of
    <3> SUFFICES ASSUME NEW r \in noteRows, NEW k \in Notes, note'[k].id = r.id, r.id # 0
                 PROVE  k = r.of
      OBVIOUS
    <3>1. k \in kept
      BY <1>8
    <3>2. PICK s \in noteRows : s.of = k /\ note'[k].id = s.id
      BY <1>8, <3>1
    <3> QED
      BY <1>0, <3>2 DEF RowsOfNotes
  <2> QED
    BY <1>1, <2>1, <2>2 DEF OneIdEach
<1>15. Listed'
  BY <1>2, <1>8, <1>9 DEF Listed
<1>16. RowsOfNotes' /\ Inserts' /\ Deletes'
  BY <1>0, <1>1, <1>11 DEF RowsOfNotes, Inserts, Waiting, Deletes
<1>17. SavedHaveRows'
  BY <1>1, <1>8, ZenonT(30) DEF SavedHaveRows, HasRow
<1> QED
  BY <1>12, <1>13, <1>14, <1>15, <1>16, <1>17 DEF NotesApart

LEMMA NotesNextInv ==
    ASSUME NotesInv, [NotesNext]_noteVars
    PROVE  NotesInv'
<1> SUFFICES ASSUME ~met' PROVE NotesApart'
  BY DEF NotesInv
<1>1. CASE UNCHANGED noteVars
  <2>1. NotesApart
    BY <1>1 DEF NotesInv, noteVars
  <2> QED
    BY <1>1, <2>1 DEF noteVars, NotesApart, NotesTypeOK, OneIdEach, Numbered, Passed, Listed, RowsOfNotes,
       Inserts, Waiting, Answers, HasRow, Deletes, SavedHaveRows
<1>2. ASSUME NEW q \in Writers, CreateNote(q) \/ NoteInserted(q) \/ NoteAnswered(q) PROVE NotesApart'
  <2>1. NotesApart /\ ~Meets'
    BY <1>2, Zenon DEF NotesInv, CreateNote, NoteInserted, NoteAnswered, SeesIds
  <2> QED
    BY <1>2, <2>1, CreateNoteStep, NoteInsertedStep, NoteAnsweredStep, Zenon
<1>3. ASSUME NEW q \in Writers, RowUpdated(q) \/ RowDeleted(q) \/ StatementFails(q) PROVE NotesApart'
  <2>1. NotesApart
    BY <1>3 DEF NotesInv, RowUpdated, RowDeleted, StatementFails
  <2> QED
    BY <1>3, <2>1, RowUpdatedStep, RowDeletedStep, StatementFailsStep, Zenon
<1>4. ASSUME NEW q \in Writers, NEW i \in ListedIds, EditNote(q, i) \/ DeleteNote(q, i) PROVE NotesApart'
  <2>1. NotesApart
    BY <1>4 DEF NotesInv, EditNote, DeleteNote
  <2> QED
    BY <1>4, <2>1, EditNoteStep, DeleteNoteStep, Zenon
<1>5. CASE NotesRestart
  <2>1. NotesApart
    BY <1>5, Zenon DEF NotesInv, NotesRestart, SeesIds
  <2> QED
    BY <1>5, <2>1, NotesRestartStep
<1> QED
  BY <1>1, <1>2, <1>3, <1>4, <1>5, Zenon DEF NotesNext

\* A saved note that is listed has the id of its own row, for any number of writers, mishaps and
\* restarts and wherever the serial begins, as long as no two notes have gone by one id.
THEOREM NotesKeepTheirRows == NotesSpec => []ApartNotesFollowRows
<1>1. NotesInv => ApartNotesFollowRows
  BY DEF NotesInv, NotesApart, SavedHaveRows, HasRow, NotesFollowRows, ApartNotesFollowRows
<1> QED
  BY <1>1, NotesInitInv, NotesNextInv, PTL DEF NotesSpec

-----------------------------------------------------------------------------
(* Billing.                                                                *)

\* "trialing" is no state of a subscription that a checkout of this code makes.
BillingStatuses == {"none", "active", "past_due", "canceled"}
SubscriptionRecord == [status : BillingStatuses, items : SUBSET Kinds, quantity : [Kinds -> Nat]]
EventRecord == [type : {"none", "completed", "updated", "deleted", "paid", "failed"},
                of : SubscriptionIds, status : BillingStatuses]
PatchRecord == [customer : Nat, subscription : 0..MaxSubscriptions, status : BillingStatuses \cup {"keep"}]
TaskRecord == [op : {"none", "view", "checkout", "webhook"},
               at : {"idle", "retrieve", "end", "customer", "session", "read", "write", "subscription"},
               counts : [Kinds -> Nat], of : 0..MaxSubscriptions, existing : PatchRecord,
               patch : PatchRecord, event : EventRecord \cup {NoEvent}, todo : SUBSET Kinds, clean : BOOLEAN]
BillingTypeOK ==
    /\ catalog \in [Kinds -> Nat] /\ imported \in BOOLEAN /\ row \in PatchRecord
    /\ customers \in Nat /\ sessions \subseteq [Kinds -> Nat] /\ events \subseteq EventRecord
    /\ subscriptions \in [SubscriptionIds -> SubscriptionRecord]
    /\ task \in [Tasks -> TaskRecord] /\ undisturbed \in BOOLEAN

\* There are no items before a subscription is paid for.
PaidForItems == \A i \in SubscriptionIds : subscriptions[i].status = "none" => subscriptions[i].items = {}
\* A view is at its question or after it.  One that nothing came in the way of has the row's
\* subscription and the counts of now, and each item it will not update is right.
\* What asks for a subscription has the event that names it.
TaskTells(r) ==
    /\ r.at = "subscription" => r.event \in EventRecord
    /\ r.op = "view" =>
        /\ r.at \in {"retrieve", "end"}
        /\ r.at = "retrieve" \/ r.todo # {} => r.of # 0
        /\ r.clean =>
            /\ r.of = row.subscription /\ r.counts = Counts
            /\ (r.at = "end" /\ RowAgrees) =>
                \A k \in Billed.items : k \in r.todo \/ Billed.quantity[k] = r.counts[k]
BillingInv ==
    BillingTypeOK /\ PaidForItems /\ (\A t \in Tasks : TaskTells(task[t])) /\ ItemsBillCounts

\* Records that requests begin with.
LEMMA BillingConstants ==
    /\ Keep \in PatchRecord /\ NoTask \in TaskRecord
    /\ NoSubscription \in SubscriptionRecord /\ NoSubscription.status = "none" /\ NoSubscription.items = {}
    /\ NoTask.op = "none" /\ NoTask.at = "idle"
<1> USE BillingAssumption DEF PatchRecord, EventRecord, SubscriptionRecord, BillingStatuses
<1>1. Keep \in PatchRecord
  BY DEF Keep
<1>2. NoSubscription \in SubscriptionRecord /\ NoSubscription.status = "none" /\ NoSubscription.items = {}
  BY DEF NoSubscription
<1>3. NoTask \in TaskRecord /\ NoTask.op = "none" /\ NoTask.at = "idle"
  <2> HIDE DEF PatchRecord, EventRecord
  <2> QED
    BY <1>1 DEF NoTask, TaskRecord
<1> QED
  BY <1>1, <1>2, <1>3

LEMMA PatchExcept ==
    ASSUME NEW p \in PatchRecord, NEW s \in BillingStatuses
    PROVE  /\ [p EXCEPT !.status = s] \in PatchRecord
           /\ \A i \in SubscriptionIds : [p EXCEPT !.subscription = i, !.status = s] \in PatchRecord
<1>1. s \in BillingStatuses \cup {"keep"} /\ SubscriptionIds \subseteq 0..MaxSubscriptions
  BY BillingAssumption DEF SubscriptionIds
<1> HIDE DEF BillingStatuses
<1> QED
  BY <1>1 DEF PatchRecord

LEMMA CountsType ==
    ASSUME BillingTypeOK PROVE Counts \in [Kinds -> Nat]
BY DEF BillingTypeOK, Counts

\* A step of one request is in the way of every other.
LEMMA StepTells ==
    ASSUME BillingTypeOK, NEW t \in Tasks, NEW e \in TaskRecord, Step(t, e),
           \A u \in Tasks : TaskTells(task[u]), TaskTells(task[t])'
    PROVE  /\ task' \in [Tasks -> TaskRecord] /\ undisturbed' = FALSE
           /\ \A u \in Tasks : TaskTells(task[u])'
<1>1. task \in [Tasks -> TaskRecord]
  BY DEF BillingTypeOK
<1>2. \A u \in Tasks : u # t => /\ task'[u] \in TaskRecord /\ task'[u].clean = FALSE
                                /\ task'[u].op = task[u].op /\ task'[u].at = task[u].at /\ task'[u].of = task[u].of
                                 /\ task'[u].todo = task[u].todo /\ task'[u].event = task[u].event
  BY <1>1 DEF Step, TaskRecord
<1>3. task'[t] = e
  BY DEF Step
<1>4. task' \in [Tasks -> TaskRecord]
  BY <1>2, <1>3 DEF Step
<1>5. ASSUME NEW u \in Tasks, u # t PROVE TaskTells(task[u])'
  <2>1. task'[u].op = "view" => /\ task'[u].at \in {"retrieve", "end"}
                                /\ task'[u].at = "retrieve" \/ task'[u].todo # {} => task'[u].of # 0
    BY <1>2, <1>5 DEF TaskTells
  <2> QED
    BY <1>2, <1>5, <2>1 DEF TaskTells
<1> QED
  BY <1>3, <1>4, <1>5 DEF Step

\* What others do is in the way of all views.
LEMMA DisturbTells ==
    ASSUME BillingTypeOK, Disturb({}), \A u \in Tasks : TaskTells(task[u])
    PROVE  /\ task' \in [Tasks -> TaskRecord] /\ undisturbed' = FALSE
           /\ \A u \in Tasks : TaskTells(task[u])'
<1>1. task \in [Tasks -> TaskRecord]
  BY DEF BillingTypeOK
<1>2. \A u \in Tasks : /\ task'[u] \in TaskRecord /\ task'[u].clean = FALSE
                       /\ task'[u].op = task[u].op /\ task'[u].at = task[u].at /\ task'[u].of = task[u].of
                       /\ task'[u].todo = task[u].todo /\ task'[u].event = task[u].event
  BY <1>1, ZenonT(30) DEF Disturb, TaskRecord
<1>3. task' \in [Tasks -> TaskRecord]
  BY <1>2 DEF Disturb
<1>4. ASSUME NEW u \in Tasks PROVE TaskTells(task[u])'
  <2>1. task'[u].op = "view" => /\ task'[u].at \in {"retrieve", "end"}
                                /\ task'[u].at = "retrieve" \/ task'[u].todo # {} => task'[u].of # 0
    BY <1>2 DEF TaskTells
  <2> QED
    BY <1>2, <2>1 DEF TaskTells
<1> QED
  BY <1>3, <1>4 DEF Disturb

\* A step that changes no subscription and is no view, with what it may write to the row.
LEMMA PlainStep ==
    ASSUME BillingInv, NEW t \in Tasks, NEW e \in TaskRecord, Step(t, e), e.op # "view",
           e.at = "subscription" => e.event \in EventRecord,
           catalog' \in [Kinds -> Nat], imported' \in BOOLEAN, row' \in PatchRecord, customers' \in Nat,
           sessions' \subseteq [Kinds -> Nat], events' \subseteq EventRecord,
           subscriptions' = subscriptions
    PROVE  BillingInv'
<1>1. TaskTells(task[t])'
  BY DEF Step, TaskTells, BillingInv, BillingTypeOK
<1>2. /\ task' \in [Tasks -> TaskRecord] /\ undisturbed' = FALSE
      /\ \A u \in Tasks : TaskTells(task[u])'
  BY <1>1, StepTells DEF BillingInv
<1> QED
  BY <1>2 DEF BillingInv, BillingTypeOK, PaidForItems, ItemsBillCounts

\* What happens around the requests.
LEMMA PlainDisturb ==
    ASSUME BillingInv, Disturb({}),
           catalog' \in [Kinds -> Nat], imported' \in BOOLEAN, row' \in PatchRecord, customers' \in Nat,
           sessions' \subseteq [Kinds -> Nat], events' \subseteq EventRecord,
           subscriptions' \in [SubscriptionIds -> SubscriptionRecord],
           PaidForItems'
    PROVE  BillingInv'
BY DisturbTells DEF BillingInv, BillingTypeOK, ItemsBillCounts

\* A field of a record of a type may take a value of the field's type.
LEMMA TaskAt ==
    ASSUME NEW o \in TaskRecord, NEW x
    PROVE  [o EXCEPT !.at = x].at = x
<1> HIDE DEF PatchRecord, EventRecord
<1> QED
  BY DEF TaskRecord

LEMMA TaskExcept ==
    ASSUME NEW o \in TaskRecord
    PROVE  /\ \A x \in {"idle", "retrieve", "end", "customer", "session", "read", "write", "subscription"} :
                 [o EXCEPT !.at = x] \in TaskRecord /\ [o EXCEPT !.at = x].op = o.op
           /\ \A x \in PatchRecord : /\ [o EXCEPT !.at = "read", !.patch = x] \in TaskRecord
                                     /\ [o EXCEPT !.at = "read", !.patch = x].op = o.op
                                     /\ [o EXCEPT !.at = "read", !.patch = x].at = "read"
           /\ \A x \in PatchRecord : /\ [o EXCEPT !.at = "write", !.existing = x] \in TaskRecord
                                     /\ [o EXCEPT !.at = "write", !.existing = x].op = o.op
                                     /\ [o EXCEPT !.at = "write", !.existing = x].at = "write"
           /\ \A x \in SUBSET Kinds : [o EXCEPT !.todo = x] \in TaskRecord
           /\ \A x \in SUBSET Kinds : [o EXCEPT !.at = "end", !.todo = x] \in TaskRecord
<1> HIDE DEF PatchRecord, EventRecord
<1> QED
  BY DEF TaskRecord

LEMMA BillingInitInv ==
    ASSUME BillingInit PROVE BillingInv
<1>1. catalog \in [Kinds -> Nat] /\ imported \in BOOLEAN /\ row \in PatchRecord
  BY BillingAssumption DEF BillingInit, PatchRecord, BillingStatuses
<1>2. subscriptions \in [SubscriptionIds -> SubscriptionRecord] /\ PaidForItems
  BY BillingConstants DEF BillingInit, PaidForItems
<1>3. task \in [Tasks -> TaskRecord] /\ \A t \in Tasks : TaskTells(task[t])
  BY BillingConstants DEF BillingInit, TaskTells
<1> QED
  BY <1>1, <1>2, <1>3 DEF BillingInit, BillingInv, BillingTypeOK, ItemsBillCounts

\* A view begins with the counts of now; one of a subscription that is not to be brought up to
\* date finds no items, or a row that does not agree.
LEMMA ViewStep ==
    ASSUME BillingInv, NEW t \in Tasks, View(t)
    PROVE  BillingInv'
<1> DEFINE x == IF row.subscription # 0 /\ Syncable(row.status) THEN "retrieve" ELSE "end"
           e == [NoTask EXCEPT !.op = "view", !.counts = Counts, !.of = row.subscription, !.at = x]
<1>1. BillingTypeOK /\ PaidForItems /\ \A u \in Tasks : TaskTells(task[u])
  BY DEF BillingInv
<1>2. /\ Step(t, e)
      /\ UNCHANGED <<catalog, imported, row, customers, sessions, subscriptions, events>>
  BY DEF View, limits
<1>3. /\ Counts \in [Kinds -> Nat] /\ row.subscription \in 0..MaxSubscriptions /\ x \in {"retrieve", "end"}
  BY <1>1, CountsType DEF BillingTypeOK, PatchRecord
<1>4. /\ e \in TaskRecord /\ e.op = "view" /\ e.counts = Counts /\ e.of = row.subscription
      /\ e.at = x /\ e.todo = {}
  <2> HIDE DEF x, PatchRecord, EventRecord
  <2>1. NoTask \in TaskRecord /\ NoTask.todo = {}
    BY BillingConstants DEF NoTask
  <2> QED
    BY <1>3, <2>1 DEF TaskRecord
<1>5. RowAgrees => Billed.items = {} \/ x = "retrieve"
  <2> SUFFICES ASSUME RowAgrees, x # "retrieve" PROVE Billed.items = {}
    OBVIOUS
  <2>1. row.subscription \in SubscriptionIds
    BY <1>3, BillingAssumption DEF RowAgrees, SubscriptionIds
  <2>2. Billed.status \in BillingStatuses /\ row.status = Billed.status /\ row.status # "canceled"
    BY <1>1, <2>1 DEF RowAgrees, Billed, BillingTypeOK, SubscriptionRecord
  <2>3. Billed.status = "none"
    BY <2>2 DEF RowAgrees, Syncable, BillingStatuses
  <2> QED
    BY <1>1, <2>1, <2>3 DEF PaidForItems, Billed
<1>6. x = "retrieve" => row.subscription # 0
  OBVIOUS
<1> HIDE DEF e, x
<1>7. Counts' = Counts /\ RowAgrees' = RowAgrees /\ Billed' = Billed
  BY <1>2 DEF Counts, RowAgrees, Billed
<1>8. TaskTells(task[t])'
  <2>1. task'[t] = e
    BY <1>1, <1>2 DEF Step, BillingTypeOK
  <2> QED
    BY <1>2, <1>3, <1>4, <1>5, <1>6, <1>7, <2>1 DEF TaskTells
<1>9. /\ task' \in [Tasks -> TaskRecord] /\ undisturbed' = FALSE
      /\ \A u \in Tasks : TaskTells(task[u])'
  BY <1>1, <1>2, <1>4, <1>8, StepTells
<1> QED
  BY <1>1, <1>2, <1>9 DEF BillingInv, BillingTypeOK, PaidForItems, ItemsBillCounts

\* What is to be updated are the items that differ.
LEMMA RetrieveStep ==
    ASSUME BillingInv, NEW t \in Tasks, Retrieve(t)
    PROVE  BillingInv'
<1> DEFINE s == subscriptions[task[t].of]
           d == {k \in s.items : s.quantity[k] # task[t].counts[k]}
           e == [task[t] EXCEPT !.at = "end", !.todo = d]
<1>1. BillingTypeOK /\ PaidForItems /\ \A u \in Tasks : TaskTells(task[u])
  BY DEF BillingInv
<1>2. /\ Step(t, e) /\ task[t].op = "view" /\ task[t].at = "retrieve"
      /\ UNCHANGED <<catalog, imported, row, customers, sessions, subscriptions, events>>
  BY DEF Retrieve, limits
<1>3. task[t] \in TaskRecord
  BY <1>1 DEF BillingTypeOK
<1>4. /\ Counts' = Counts /\ RowAgrees' = RowAgrees /\ Billed' = Billed
  BY <1>2 DEF Counts, RowAgrees, Billed
<1>5. CASE task[t].of \in SubscriptionIds
  <2>1. d \subseteq Kinds
    BY <1>1, <1>5 DEF BillingTypeOK, SubscriptionRecord
  <2>2. /\ e \in TaskRecord /\ e.at = "end" /\ e.todo = d /\ e.op = task[t].op /\ e.of = task[t].of
        /\ e.counts = task[t].counts /\ e.clean = task[t].clean
    <3> HIDE DEF d
    <3>1. e \in TaskRecord
      BY <1>3, <2>1, TaskExcept
    <3> QED
      BY <1>3, <3>1 DEF TaskRecord
  <2>3. task[t].clean => task[t].of = row.subscription /\ task[t].counts = Counts
    BY <1>1, <1>2 DEF TaskTells
  <2>4. task[t].clean => \A k \in Billed.items : k \in d \/ Billed.quantity[k] = task[t].counts[k]
    BY <2>3 DEF Billed
  <2> HIDE DEF e, d
  <2>5. TaskTells(task[t])'
    <3>1. task'[t] = e
      BY <1>1, <1>2 DEF Step, BillingTypeOK
    <3>2. task[t].of # 0
      BY <1>5 DEF SubscriptionIds
    <3> QED
      BY <1>2, <1>4, <2>2, <2>3, <2>4, <3>1, <3>2 DEF TaskTells
  <2>6. /\ task' \in [Tasks -> TaskRecord] /\ undisturbed' = FALSE
        /\ \A u \in Tasks : TaskTells(task[u])'
    BY <1>1, <1>2, <2>2, <2>5, StepTells
  <2> QED
    BY <1>1, <1>2, <2>6 DEF BillingInv, BillingTypeOK, PaidForItems, ItemsBillCounts
<1>6. task[t].of \in SubscriptionIds
  BY <1>1, <1>2, <1>3, BillingAssumption DEF TaskTells, TaskRecord, SubscriptionIds
<1> QED
  BY <1>5, <1>6

\* The item that is updated bills the counts of the view; the others stay as they were.
LEMMA UpdateItemStep ==
    ASSUME BillingInv, NEW t \in Tasks, NEW k \in Kinds, UpdateItem(t, k)
    PROVE  BillingInv'
<1> DEFINE i == task[t].of
           e == [task[t] EXCEPT !.todo = @ \ {k}]
           v == [type |-> "updated", of |-> i, status |-> subscriptions[i].status]
<1>1. BillingTypeOK /\ PaidForItems /\ \A u \in Tasks : TaskTells(task[u])
  BY DEF BillingInv
<1>2. /\ Step(t, e) /\ task[t].op = "view" /\ k \in task[t].todo /\ events' = events \cup {v}
      /\ subscriptions' = [subscriptions EXCEPT ![i].quantity[k] = task[t].counts[k]]
      /\ UNCHANGED <<catalog, imported, row, customers, sessions>>
  BY DEF UpdateItem, limits
<1>3. /\ task[t] \in TaskRecord /\ task[t].counts \in [Kinds -> Nat] /\ task[t].todo \subseteq Kinds
      /\ i \in 0..MaxSubscriptions
  BY <1>1 DEF BillingTypeOK, TaskRecord
<1>4. /\ e \in TaskRecord /\ e.todo = task[t].todo \ {k} /\ e.op = task[t].op /\ e.of = i
      /\ e.counts = task[t].counts /\ e.clean = task[t].clean /\ e.at = task[t].at
  <2>1. task[t].todo \ {k} \in SUBSET Kinds
    BY <1>3
  <2>2. e \in TaskRecord
    BY <1>3, <2>1, TaskExcept
  <2> QED
    BY <1>3, <2>2 DEF TaskRecord
<1>5. CASE i \in SubscriptionIds
  <2>1. subscriptions[i] \in SubscriptionRecord /\ subscriptions \in [SubscriptionIds -> SubscriptionRecord]
    BY <1>1, <1>5 DEF BillingTypeOK
  <2> DEFINE o == [subscriptions[i] EXCEPT !.quantity[k] = task[t].counts[k]]
  <2>2. /\ o \in SubscriptionRecord /\ o.status = subscriptions[i].status
        /\ o.items = subscriptions[i].items /\ o.quantity[k] = task[t].counts[k]
        /\ \A j \in Kinds : j # k => o.quantity[j] = subscriptions[i].quantity[j]
    <3> HIDE DEF i
    <3> QED
      BY <1>3, <2>1 DEF SubscriptionRecord
  <2>3. subscriptions' = [subscriptions EXCEPT ![i] = o]
    BY <1>2
  <2> HIDE DEF o
  <2>4. /\ subscriptions' \in [SubscriptionIds -> SubscriptionRecord] /\ subscriptions'[i] = o
        /\ \A j \in SubscriptionIds : j # i => subscriptions'[j] = subscriptions[j]
    <3> HIDE DEF i
    <3> QED
      BY <1>5, <2>1, <2>2, <2>3
  <2>5. v \in EventRecord
    <3> HIDE DEF i
    <3> QED
      BY <1>5, <2>1 DEF SubscriptionRecord, EventRecord
  <2>6. PaidForItems'
    BY <1>1, <2>2, <2>4 DEF PaidForItems
  <2>7. Counts' = Counts
    BY <1>2 DEF Counts
  <2>8. task[t].clean => i = row.subscription /\ task[t].counts = Counts
    BY <1>1, <1>2 DEF TaskTells
  <2>9. task[t].clean => /\ RowAgrees' <=> RowAgrees
                         /\ Billed'.items = Billed.items /\ Billed.items \subseteq Kinds
                         /\ Billed'.quantity[k] = task[t].counts[k]
                         /\ \A j \in Kinds : j # k => Billed'.quantity[j] = Billed.quantity[j]
    <3>1. /\ row' = row /\ subscriptions'[i] = o /\ o.status = subscriptions[i].status
          /\ o.items = subscriptions[i].items /\ subscriptions[i].items \subseteq Kinds
      BY <1>2, <2>1, <2>2, <2>4 DEF SubscriptionRecord
    <3> HIDE DEF i
    <3>2. i = row.subscription => RowAgrees' <=> RowAgrees
      BY <3>1 DEF RowAgrees
    <3>3. i = row.subscription => Billed' = o /\ Billed = subscriptions[i]
      BY <3>1 DEF Billed
    <3> QED
      BY <2>2, <2>8, <3>1, <3>2, <3>3
  <2>10. task'[t] = e
    BY <1>1, <1>2 DEF Step, BillingTypeOK
  <2>11. TaskTells(task[t])
    BY <1>1
  <2> HIDE DEF e
  <2>12. TaskTells(task[t])'
    BY <1>2, <1>4, <2>7, <2>8, <2>9, <2>10, <2>11 DEF TaskTells
  <2>13. /\ task' \in [Tasks -> TaskRecord] /\ undisturbed' = FALSE
         /\ \A u \in Tasks : TaskTells(task[u])'
    BY <1>1, <1>2, <1>4, <2>12, StepTells
  <2>14. events' \subseteq EventRecord
    BY <1>1, <1>2, <2>5 DEF BillingTypeOK
  <2>15. BillingTypeOK'
    BY <1>1, <1>2, <2>4, <2>13, <2>14 DEF BillingTypeOK
  <2> QED
    BY <2>6, <2>13, <2>15 DEF BillingInv, ItemsBillCounts
<1>6. i \in SubscriptionIds \/ task[t].todo = {}
  BY <1>1, <1>2, <1>3, BillingAssumption DEF TaskTells, SubscriptionIds, TaskRecord
<1> QED
  BY <1>2, <1>5, <1>6

\* The view that nothing came in the way of leaves each item right.
LEMMA ViewEndsStep ==
    ASSUME BillingInv, NEW t \in Tasks, ViewEnds(t)
    PROVE  BillingInv'
<1>1. /\ BillingTypeOK /\ PaidForItems /\ (\A u \in Tasks : TaskTells(task[u]))
      /\ task[t] \in TaskRecord
  BY DEF BillingInv, BillingTypeOK
<1>2. /\ task[t].op = "view" /\ task[t].at = "end" /\ task[t].todo = {}
      /\ undisturbed' = task[t].clean /\ task' = [task EXCEPT ![t] = NoTask]
      /\ UNCHANGED <<catalog, imported, row, customers, sessions, subscriptions, events>>
  BY DEF ViewEnds, limits
<1>3. Counts' = Counts /\ RowAgrees' = RowAgrees /\ Billed' = Billed
  BY <1>2 DEF Counts, RowAgrees, Billed
<1>4. /\ task' \in [Tasks -> TaskRecord] /\ task'[t] = NoTask
      /\ \A u \in Tasks : u # t => task'[u] = task[u]
  BY <1>1, <1>2, BillingConstants DEF BillingTypeOK
<1>5. \A u \in Tasks : TaskTells(task[u])'
  <2>1. TaskTells(task[t])'
    BY <1>4, BillingConstants DEF TaskTells
  <2>2. ASSUME NEW u \in Tasks, u # t PROVE TaskTells(task[u])'
    <3>1. TaskTells(task[u]) /\ task'[u] = task[u]
      BY <1>1, <1>4, <2>2
    <3> QED
      BY <1>2, <1>3, <3>1 DEF TaskTells
  <2> QED
    BY <2>1, <2>2
<1>6. ItemsBillCounts'
  <2>1. task[t].clean /\ RowAgrees => \A k \in Billed.items : Billed.quantity[k] = Counts[k]
    BY <1>1, <1>2 DEF TaskTells
  <2> QED
    BY <1>2, <1>3, <2>1 DEF ItemsBillCounts
<1>7. BillingTypeOK'
  BY <1>1, <1>2, <1>4 DEF BillingTypeOK, TaskRecord
<1>8. PaidForItems'
  BY <1>1, <1>2 DEF PaidForItems
<1> QED
  BY <1>5, <1>6, <1>7, <1>8 DEF BillingInv

LEMMA TaskFailsStep ==
    ASSUME BillingInv, NEW t \in Tasks, TaskFails(t)
    PROVE  BillingInv'
<1>1. /\ Step(t, NoTask)
      /\ UNCHANGED <<catalog, imported, row, customers, sessions, subscriptions, events>>
  BY DEF TaskFails
<1> QED
  BY <1>1, BillingConstants, PlainStep DEF BillingInv, BillingTypeOK

LEMMA CheckoutSteps ==
    ASSUME BillingInv, NEW t \in Tasks, Checkout(t) \/ CreateCustomer(t) \/ CreateSession(t)
    PROVE  BillingInv'
<1>1. BillingTypeOK /\ task[t] \in TaskRecord /\ (\A u \in Tasks : TaskTells(task[u]))
  BY DEF BillingInv, BillingTypeOK
<1>2. CASE Checkout(t)
  <2> DEFINE x == IF row.customer = 0 THEN "customer" ELSE "session"
             e == [NoTask EXCEPT !.op = "checkout", !.counts = Counts, !.at = x]
  <2>1. Step(t, e) /\ UNCHANGED <<catalog, imported, row, customers, sessions, subscriptions, events>>
    BY <1>2 DEF Checkout, limits
  <2>2. e \in TaskRecord /\ e.op = "checkout" /\ e.at # "subscription"
    <3> HIDE DEF PatchRecord, EventRecord
    <3>1. x \in {"customer", "session"}
      OBVIOUS
    <3> HIDE DEF x
    <3> QED
      BY <1>1, <3>1, BillingConstants, CountsType DEF TaskRecord
  <2> HIDE DEF e
  <2> QED
    BY <1>1, <2>1, <2>2, PlainStep DEF BillingTypeOK
<1>3. CASE CreateCustomer(t)
  <2> DEFINE x == [Keep EXCEPT !.customer = customers']
             e == [task[t] EXCEPT !.at = "read", !.patch = x]
  <2>1. /\ Step(t, e) /\ UNCHANGED <<catalog, imported, row, sessions, subscriptions, events>>
        /\ task[t].at = "customer" /\ customers' = customers + 1
    BY <1>3 DEF CreateCustomer, limits
  <2>2. customers' \in Nat
    BY <1>1, <2>1 DEF BillingTypeOK
  <2>3. x \in PatchRecord
    BY <2>2, BillingConstants DEF PatchRecord
  <2> HIDE DEF x
  <2>4. e \in TaskRecord /\ e.op # "view" /\ e.at = "read"
    <3>1. task[t].op # "view"
      BY <1>1, <2>1 DEF TaskTells
    <3> QED
      BY <1>1, <2>3, <3>1, TaskExcept
  <2> HIDE DEF e
  <2> QED
    BY <1>1, <2>1, <2>2, <2>4, PlainStep DEF BillingTypeOK
<1>4. CASE CreateSession(t)
  <2>1. /\ Step(t, NoTask) /\ sessions' = sessions \cup {task[t].counts}
        /\ UNCHANGED <<catalog, imported, row, customers, subscriptions, events>>
    BY <1>4 DEF CreateSession, limits
  <2>2. sessions' \subseteq [Kinds -> Nat]
    BY <1>1, <2>1 DEF BillingTypeOK, TaskRecord
  <2> QED
    BY <1>1, <2>1, <2>2, BillingConstants, PlainStep DEF BillingTypeOK
<1> QED
  BY <1>2, <1>3, <1>4

LEMMA RowSteps ==
    ASSUME BillingInv, NEW t \in Tasks, ReadRow(t) \/ WriteRow(t)
    PROVE  BillingInv'
<1>1. BillingTypeOK /\ task[t] \in TaskRecord /\ (\A u \in Tasks : TaskTells(task[u]))
  BY DEF BillingInv, BillingTypeOK
<1>2. CASE ReadRow(t)
  <2> DEFINE e == [task[t] EXCEPT !.at = "write", !.existing = row]
  <2>1. /\ Step(t, e) /\ UNCHANGED <<catalog, imported, row, customers, sessions, subscriptions, events>>
        /\ task[t].at = "read"
    BY <1>2 DEF ReadRow, limits
  <2>2. row \in PatchRecord
    BY <1>1 DEF BillingTypeOK
  <2>3. e \in TaskRecord /\ e.op # "view" /\ e.at = "write"
    <3>1. task[t].op # "view"
      BY <1>1, <2>1 DEF TaskTells
    <3> QED
      BY <1>1, <2>2, <3>1, TaskExcept
  <2> HIDE DEF e
  <2> QED
    BY <1>1, <2>1, <2>3, PlainStep DEF BillingTypeOK
<1>3. CASE WriteRow(t)
  <2> DEFINE old == task[t].existing
             new == task[t].patch
             x == IF new.customer = 0 THEN old.customer ELSE new.customer
             y == IF new.subscription = 0 THEN old.subscription ELSE new.subscription
             z == IF new.status = "keep" THEN old.status ELSE new.status
             e == IF task[t].op = "checkout" THEN [task[t] EXCEPT !.at = "session"] ELSE NoTask
  <2>1. /\ Step(t, e) /\ UNCHANGED <<catalog, imported, customers, sessions, subscriptions>>
        /\ row' = [customer |-> x, subscription |-> y, status |-> z]
        /\ events' \subseteq events /\ task[t].at = "write"
    BY <1>3 DEF WriteRow, limits
  <2>2. row' \in PatchRecord
    <3>1. old \in PatchRecord /\ new \in PatchRecord
      BY <1>1 DEF TaskRecord
    <3>2. x \in Nat /\ y \in 0..MaxSubscriptions /\ z \in BillingStatuses \cup {"keep"}
      <4> HIDE DEF old, new
      <4> QED
        BY <3>1 DEF PatchRecord
    <3> HIDE DEF x, y, z
    <3> QED
      BY <2>1, <3>2 DEF PatchRecord
  <2>3. e \in TaskRecord /\ e.op # "view" /\ e.at # "subscription"
    <3>1. CASE task[t].op = "checkout"
      <4>1. e = [task[t] EXCEPT !.at = "session"]
        BY <3>1
      <4> HIDE DEF e, x, y, z, old, new
      <4>2. e \in TaskRecord /\ e.op = task[t].op
        BY <1>1, <4>1, TaskExcept
      <4>3. e.at = "session"
        BY <1>1, <4>1, TaskAt
      <4> QED
        BY <3>1, <4>2, <4>3
    <3>2. CASE task[t].op # "checkout"
      BY <3>2, BillingConstants
    <3> QED
      BY <3>1, <3>2
  <2>4. events' \subseteq EventRecord
    BY <1>1, <2>1 DEF BillingTypeOK
  <2> HIDE DEF e
  <2> QED
    BY <1>1, <2>1, <2>2, <2>3, <2>4, PlainStep DEF BillingTypeOK
<1> QED
  BY <1>2, <1>3

LEMMA HandleStep ==
    ASSUME BillingInv, NEW t \in Tasks, NEW v \in events, Handle(t, v)
    PROVE  BillingInv'
<1>1. /\ BillingTypeOK /\ PaidForItems /\ (\A u \in Tasks : TaskTells(task[u])) /\ ItemsBillCounts
      /\ v \in EventRecord
  BY DEF BillingInv, BillingTypeOK
<1> DEFINE p ==
            CASE v.type \in {"updated", "deleted"} -> [Keep EXCEPT !.subscription = v.of, !.status = v.status]
              [] v.type \in {"paid", "failed"} -> [Keep EXCEPT !.status = v.status]
              [] OTHER -> Keep
           x == IF v.type = "completed" THEN "subscription" ELSE "read"
           e == [NoTask EXCEPT !.op = "webhook", !.event = v, !.patch = p, !.at = x]
<1>2. /\ UNCHANGED <<catalog, imported, row, customers, sessions, subscriptions>>
      /\ \/ events' = events \ {v} /\ UNCHANGED <<task, undisturbed>>
         \/ Step(t, e) /\ UNCHANGED events
  BY DEF Handle, limits
<1>3. p \in PatchRecord
  <2>1. [Keep EXCEPT !.subscription = v.of, !.status = v.status] \in PatchRecord
    BY <1>1, BillingConstants, PatchExcept DEF EventRecord
  <2>2. [Keep EXCEPT !.status = v.status] \in PatchRecord
    BY <1>1, BillingConstants, PatchExcept DEF EventRecord
  <2>3. Keep \in PatchRecord
    BY BillingConstants
  <2> HIDE DEF PatchRecord, EventRecord
  <2> QED
    BY <2>1, <2>2, <2>3
<1>4. x \in {"subscription", "read"}
  OBVIOUS
<1> HIDE DEF p, x
<1>5. e \in TaskRecord /\ e.op = "webhook" /\ e.event = v
  BY <1>1, <1>3, <1>4, BillingConstants DEF TaskRecord
<1> HIDE DEF e
<1>6. CASE events' = events \ {v} /\ UNCHANGED <<task, undisturbed>>
  <2>1. Counts' = Counts /\ RowAgrees' = RowAgrees /\ Billed' = Billed
    BY <1>2 DEF Counts, RowAgrees, Billed
  <2>2. BillingTypeOK' /\ PaidForItems'
    BY <1>1, <1>2, <1>6 DEF BillingTypeOK, PaidForItems
  <2>3. ItemsBillCounts' /\ \A u \in Tasks : TaskTells(task[u])'
    BY <1>1, <1>2, <1>6, <2>1 DEF TaskTells, ItemsBillCounts
  <2> QED
    BY <2>2, <2>3 DEF BillingInv
<1>7. CASE Step(t, e) /\ UNCHANGED events
  BY <1>1, <1>2, <1>5, <1>7, PlainStep DEF BillingTypeOK
<1> QED
  BY <1>2, <1>6, <1>7

LEMMA AskSubscriptionStep ==
    ASSUME BillingInv, NEW t \in Tasks, AskSubscription(t)
    PROVE  BillingInv'
<1>1. /\ BillingTypeOK /\ task[t] \in TaskRecord /\ (\A u \in Tasks : TaskTells(task[u]))
  BY DEF BillingInv, BillingTypeOK
<1> DEFINE i == task[t].event.of
           p == [Keep EXCEPT !.subscription = i, !.status = subscriptions[i].status]
           e == [task[t] EXCEPT !.at = "read", !.patch = p]
<1>2. /\ UNCHANGED <<catalog, imported, row, customers, sessions, subscriptions, events>>
      /\ Step(t, e) /\ task[t].at = "subscription"
  BY DEF AskSubscription, limits
<1>3. i \in SubscriptionIds /\ subscriptions[i].status \in BillingStatuses
  BY <1>1, <1>2 DEF TaskTells, EventRecord, BillingTypeOK, SubscriptionRecord
<1>4. p \in PatchRecord
  BY <1>3, BillingConstants, PatchExcept
<1> HIDE DEF p
<1>5. e \in TaskRecord /\ e.op # "view" /\ e.at = "read"
  <2>1. task[t].op # "view"
    BY <1>1, <1>2 DEF TaskTells
  <2> QED
    BY <1>1, <1>4, <2>1, TaskExcept
<1> HIDE DEF e
<1> QED
  BY <1>1, <1>2, <1>5, PlainStep DEF BillingTypeOK

\* The customer pays, and the subscription is as the session says.
LEMMA PayStep ==
    ASSUME BillingInv, NEW c \in sessions, Pay(c)
    PROVE  BillingInv'
<1>1. BillingTypeOK /\ PaidForItems /\ c \in [Kinds -> Nat]
  BY DEF BillingInv, BillingTypeOK
<1>2. PICK i \in SubscriptionIds :
        /\ subscriptions' = [subscriptions EXCEPT ![i] =
               [status |-> "active", items |-> {k \in Kinds : c[k] > 0}, quantity |-> c]]
        /\ sessions' = sessions \ {c}
        /\ events' = events \cup {[type |-> "completed", of |-> i, status |-> "active"]}
        /\ Disturb({}) /\ UNCHANGED <<catalog, imported, row, customers>>
  BY DEF Pay, limits
<1> DEFINE o == [status |-> "active", items |-> {k \in Kinds : c[k] > 0}, quantity |-> c]
<1>3. o \in SubscriptionRecord /\ o.status = "active"
  BY <1>1 DEF SubscriptionRecord, BillingStatuses
<1> HIDE DEF o
<1>4. /\ subscriptions' \in [SubscriptionIds -> SubscriptionRecord] /\ subscriptions'[i] = o
      /\ \A j \in SubscriptionIds : j # i => subscriptions'[j] = subscriptions[j]
  BY <1>1, <1>2, <1>3 DEF BillingTypeOK, o
<1>5. PaidForItems'
  BY <1>1, <1>3, <1>4 DEF PaidForItems
<1>6. events' \subseteq EventRecord
  BY <1>1, <1>2 DEF BillingTypeOK, EventRecord, BillingStatuses
<1> QED
  BY <1>1, <1>2, <1>4, <1>5, <1>6, PlainDisturb DEF BillingTypeOK

LEMMA TurnStep ==
    ASSUME BillingInv, NEW i \in SubscriptionIds, NEW s \in BillingStatuses \ {"none"},
           NEW told \in SUBSET {"updated", "deleted", "paid", "failed"}, Turn(i, s, told)
    PROVE  BillingInv'
<1>1. BillingTypeOK /\ PaidForItems /\ subscriptions[i] \in SubscriptionRecord
  BY DEF BillingInv, BillingTypeOK
<1> DEFINE o == [subscriptions[i] EXCEPT !.status = s]
<1>2. /\ subscriptions' = [subscriptions EXCEPT ![i] = o]
      /\ events' = events \cup {[type |-> y, of |-> i, status |-> s] : y \in told}
      /\ Disturb({}) /\ UNCHANGED <<catalog, imported, row, customers, sessions>>
  BY DEF Turn
<1>3. o \in SubscriptionRecord /\ o.status # "none"
  BY <1>1 DEF SubscriptionRecord
<1> HIDE DEF o
<1>4. /\ subscriptions' \in [SubscriptionIds -> SubscriptionRecord] /\ subscriptions'[i] = o
      /\ \A j \in SubscriptionIds : j # i => subscriptions'[j] = subscriptions[j]
  BY <1>1, <1>2, <1>3 DEF BillingTypeOK
<1>5. PaidForItems'
  BY <1>1, <1>3, <1>4 DEF PaidForItems
<1>6. events' \subseteq EventRecord
  <2>1. \A y \in told : [type |-> y, of |-> i, status |-> s] \in EventRecord
    BY DEF EventRecord
  <2> QED
    BY <1>1, <1>2, <2>1 DEF BillingTypeOK
<1> QED
  BY <1>1, <1>2, <1>4, <1>5, <1>6, PlainDisturb DEF BillingTypeOK

LEMMA RepeatStep ==
    ASSUME BillingInv, NEW v \in EventRecord, Repeat(v)
    PROVE  BillingInv'
<1>1. /\ BillingTypeOK /\ PaidForItems /\ Disturb({}) /\ events' = events \cup {v}
      /\ UNCHANGED <<catalog, imported, row, customers, sessions, subscriptions>>
  BY DEF BillingInv, Repeat
<1>2. PaidForItems' /\ events' \subseteq EventRecord
  BY <1>1 DEF PaidForItems, BillingTypeOK
<1> QED
  BY <1>1, <1>2, PlainDisturb DEF BillingTypeOK

LEMMA CatalogSteps ==
    ASSUME BillingInv, ImportedAgain \/ \E k \in Kinds, n \in 0..MaxCatalog : Own(k, n)
    PROVE  BillingInv'
<1>1. /\ BillingTypeOK /\ PaidForItems /\ Disturb({})
      /\ UNCHANGED <<row, customers, sessions, subscriptions, events>>
  BY DEF BillingInv, ImportedAgain, Own
<1>2. catalog' \in [Kinds -> Nat] /\ imported' \in BOOLEAN
  <2>1. CASE ImportedAgain
    BY <1>1, <2>1 DEF ImportedAgain, BillingTypeOK
  <2>2. ASSUME NEW k \in Kinds, NEW n \in 0..MaxCatalog, Own(k, n)
        PROVE  catalog' \in [Kinds -> Nat] /\ imported' \in BOOLEAN
    <3>1. n \in Nat /\ catalog' = [catalog EXCEPT ![k] = n] /\ imported' = imported
      BY <2>2, BillingAssumption DEF Own
    <3> QED
      BY <1>1, <3>1 DEF BillingTypeOK
  <2> QED
    BY <2>1, <2>2
<1>3. PaidForItems'
  BY <1>1 DEF PaidForItems
<1> QED
  BY <1>1, <1>2, <1>3, PlainDisturb DEF BillingTypeOK

LEMMA RestartedStep ==
    ASSUME BillingInv, Restarted
    PROVE  BillingInv'
<1>1. /\ BillingTypeOK /\ PaidForItems /\ imported' = FALSE /\ task' = [t \in Tasks |-> NoTask]
      /\ undisturbed' = FALSE
      /\ UNCHANGED <<catalog, row, customers, sessions, subscriptions, events>>
  BY DEF BillingInv, Restarted
<1>2. task' \in [Tasks -> TaskRecord] /\ \A t \in Tasks : TaskTells(task[t])'
  BY <1>1, BillingConstants DEF TaskTells
<1> QED
  BY <1>1, <1>2 DEF BillingInv, BillingTypeOK, PaidForItems, ItemsBillCounts

LEMMA BillingNextInv ==
    ASSUME BillingInv, [BillingNext]_billingVars
    PROVE  BillingInv'
<1>1. ASSUME NEW t \in Tasks,
             \/ View(t) \/ Retrieve(t) \/ (\E k \in Kinds : UpdateItem(t, k)) \/ ViewEnds(t)
             \/ Checkout(t) \/ CreateCustomer(t) \/ CreateSession(t) \/ ReadRow(t) \/ WriteRow(t)
             \/ AskSubscription(t) \/ (\E e \in events : Handle(t, e)) \/ TaskFails(t)
      PROVE  BillingInv'
  BY <1>1, ViewStep, RetrieveStep, UpdateItemStep, ViewEndsStep, CheckoutSteps, RowSteps,
     AskSubscriptionStep, HandleStep, TaskFailsStep
<1>2. ASSUME NEW i \in SubscriptionIds,
             \/ Turn(i, "past_due", {"updated", "failed"}) \/ Turn(i, "active", {"updated", "paid"})
             \/ Turn(i, "canceled", {"deleted"})
      PROVE  BillingInv'
  BY <1>2, TurnStep DEF BillingStatuses
<1>3. ASSUME NEW i \in SubscriptionIds, NEW y \in {"updated", "paid", "deleted"},
             Repeat([type |-> y, of |-> i, status |-> IF y = "deleted" THEN "canceled" ELSE "active"])
      PROVE  BillingInv'
  <2>1. [type |-> y, of |-> i, status |-> IF y = "deleted" THEN "canceled" ELSE "active"] \in EventRecord
    BY DEF EventRecord, BillingStatuses
  <2> QED
    BY <1>3, <2>1, RepeatStep
<1>4. CASE UNCHANGED billingVars
  <2>1. /\ UNCHANGED <<catalog, imported, row, customers, sessions, subscriptions, events, task, undisturbed>>
        /\ BillingTypeOK /\ PaidForItems /\ (\A u \in Tasks : TaskTells(task[u])) /\ ItemsBillCounts
    BY <1>4 DEF billingVars, BillingInv
  <2>2. Counts' = Counts /\ RowAgrees' = RowAgrees /\ Billed' = Billed
    BY <2>1 DEF Counts, RowAgrees, Billed
  <2>3. BillingTypeOK' /\ PaidForItems'
    BY <2>1 DEF BillingTypeOK, PaidForItems
  <2>4. ItemsBillCounts' /\ \A u \in Tasks : TaskTells(task[u])'
    BY <2>1, <2>2 DEF TaskTells, ItemsBillCounts
  <2> QED
    BY <2>3, <2>4 DEF BillingInv
<1>5. CASE BillingNext
  BY <1>1, <1>2, <1>3, <1>5, PayStep, CatalogSteps, RestartedStep DEF BillingNext
<1> QED
  BY <1>4, <1>5

\* A view that nothing came in the way of leaves each item of the subscription with the number that
\* the network has, for any number of requests, subscriptions, events and setbacks.
THEOREM ItemsAreBroughtUp == BillingSpec => []ItemsBillCounts
<1>1. BillingInv => ItemsBillCounts
  BY DEF BillingInv
<1> QED
  BY <1>1, BillingInitInv, BillingNextInv, PTL DEF BillingSpec

-----------------------------------------------------------------------------
(* Accounts.                                                               *)

\* Each request is answered before the next one comes.
OneAtATime == \A q, s \in Requests : q = s

AnyRole == Roles \cup {"none", "org_admin"}
StepsOf(op) ==
    CASE op = "none" -> {"idle"}
      [] op = "signup" -> {"account", "network", "admin", "entitle"}
      [] op = "network" -> {"network", "admin", "entitle"}
      [] op = "invite" -> {"account", "password", "member", "clear", "clearOwner", "fill"}
      [] op = "update" -> {"find", "count", "write", "clear", "clearOwner", "fill"}
      [] op = "remove" -> {"find", "count", "write", "clear", "clearOwner", "drop"}
AccountOps == {"none", "signup", "network", "invite", "update", "remove"}
TeamOps == {"invite", "update", "remove"}
AccountSteps == UNION {StepsOf(op) : op \in AccountOps}
RequestRecord ==
    [op : AccountOps, at : AccountSteps, network : Networks \cup {0}, user : Users \cup {"none"},
     was : AnyRole, next : AnyRole, scope : SUBSET Properties]
AccountsTypeOK ==
    /\ networks \subseteq Networks /\ role \in [Networks -> [Users -> AnyRole]]
    /\ request \in [Requests -> RequestRecord]

\* What a request r counts on when rl are the roles: a request of the team page is of a network with
\* an admin; one that is about to take a role has read it, and leaves an admin.
AdminsOf(rl, n) == {u \in Users : rl[n][u] = "org_admin"}
Deciding(r) == r.at = "write" \/ (r.op = "remove" /\ r.at \in {"clear", "clearOwner", "drop"})
CountsOn(r, rl) ==
    /\ r \in RequestRecord /\ r.at \in StepsOf(r.op)
    /\ r.op # "none" => r.user \in Users
    /\ r.op \in TeamOps \/ r.at = "admin" => r.network \in Networks
    /\ r.op \in TeamOps => AdminsOf(rl, r.network) # {}
    /\ r.op = "remove" => r.next = "none"
    /\ r.at = "count" \/ Deciding(r) => r.was = rl[r.network][r.user]
    /\ Deciding(r) /\ r.was = "org_admin" /\ r.next # "org_admin" =>
           \E v \in AdminsOf(rl, r.network) : v # r.user
MembersHaveAdmin == \A n \in Networks : (\E u \in Users : role[n][u] # "none") => Admins(n) # {}
AccountsInv ==
    AccountsTypeOK /\ MembersHaveAdmin /\ \A q \in Requests : CountsOn(request[q], role)

LEMMA Ops ==
    /\ \A op \in AccountOps : StepsOf(op) \subseteq AccountSteps
    /\ StepsOf("none") = {"idle"}
    /\ StepsOf("signup") = {"account", "network", "admin", "entitle"}
    /\ StepsOf("network") = {"network", "admin", "entitle"}
    /\ StepsOf("invite") = {"account", "password", "member", "clear", "clearOwner", "fill"}
    /\ StepsOf("update") = {"find", "count", "write", "clear", "clearOwner", "fill"}
    /\ StepsOf("remove") = {"find", "count", "write", "clear", "clearOwner", "drop"}
<1>1. \A op \in AccountOps : StepsOf(op) \subseteq AccountSteps
  BY DEF AccountSteps
<1> QED
  BY <1>1 DEF StepsOf

LEMMA NoRequestCounts ==
    ASSUME NEW rl PROVE CountsOn(NoRequest, rl)
<1>1. "idle" \in AccountSteps /\ "none" \in AccountOps /\ StepsOf("none") = {"idle"}
  BY Ops DEF AccountOps
<1>2. NoRequest \in RequestRecord /\ NoRequest.op = "none" /\ NoRequest.at = "idle"
  BY <1>1 DEF NoRequest, RequestRecord, AnyRole
<1> QED
  BY <1>1, <1>2 DEF CountsOn, TeamOps, Deciding

\* The only request goes on as e, while roles change so that every admin of a network leaves one.
LEMMA GoesOnAs ==
    ASSUME AccountsInv, OneAtATime, NEW q \in Requests, NEW e, request' = [request EXCEPT ![q] = e],
           networks' \subseteq Networks, role' \in [Networks -> [Users -> AnyRole]], MembersHaveAdmin',
           CountsOn(e, role')
    PROVE  AccountsInv'
<1>1. request \in [Requests -> RequestRecord] /\ e \in RequestRecord
  BY DEF AccountsInv, AccountsTypeOK, CountsOn
<1>2. request' \in [Requests -> RequestRecord] /\ request'[q] = e
  BY <1>1
<1>3. \A s \in Requests : s = q
  BY DEF OneAtATime
<1>4. AccountsTypeOK'
  BY <1>2 DEF AccountsTypeOK
<1>5. \A s \in Requests : CountsOn(request'[s], role')
  BY <1>2, <1>3
<1> QED
  BY <1>4, <1>5 DEF AccountsInv

\* ... while roles stay.
LEMMA OnlyRequest ==
    ASSUME AccountsInv, OneAtATime, NEW q \in Requests, NEW e, request' = [request EXCEPT ![q] = e],
           networks' \subseteq Networks, role' = role, CountsOn(e, role)
    PROVE  AccountsInv'
<1>1. role \in [Networks -> [Users -> AnyRole]] /\ MembersHaveAdmin
  BY DEF AccountsInv, AccountsTypeOK
<1>2. MembersHaveAdmin'
  BY <1>1 DEF MembersHaveAdmin, Admins
<1> QED
  BY <1>1, <1>2, GoesOnAs

LEMMA Ends ==
    ASSUME AccountsInv, OneAtATime, NEW q \in Requests, End(q), networks' \subseteq Networks, role' = role
    PROVE  AccountsInv'
BY NoRequestCounts, OnlyRequest DEF End

\* A role is written; if it is not the admin's, another is one.
LEMMA RoleWritten ==
    ASSUME AccountsInv, NEW n \in Networks, NEW u \in Users, NEW x \in AnyRole,
           role' = [role EXCEPT ![n][u] = x],
           x = "org_admin" \/ \E v \in AdminsOf(role, n) : v # u
    PROVE  /\ role' \in [Networks -> [Users -> AnyRole]] /\ MembersHaveAdmin'
           /\ AdminsOf(role', n) # {}
<1>1. role \in [Networks -> [Users -> AnyRole]] /\ MembersHaveAdmin
  BY DEF AccountsInv, AccountsTypeOK
<1>2. /\ role' \in [Networks -> [Users -> AnyRole]] /\ role'[n][u] = x
      /\ \A v \in Users : v # u => role'[n][v] = role[n][v]
      /\ \A m \in Networks : m # n => role'[m] = role[m]
  BY <1>1
<1>3. AdminsOf(role', n) # {}
  <2>1. CASE x = "org_admin"
    BY <1>2, <2>1 DEF AdminsOf
  <2>2. CASE \E v \in AdminsOf(role, n) : v # u
    BY <1>2, <2>2 DEF AdminsOf
  <2> QED
    BY <2>1, <2>2
<1>4. MembersHaveAdmin'
  <2> SUFFICES ASSUME NEW m \in Networks, \E v \in Users : role'[m][v] # "none"
               PROVE  AdminsOf(role', m) # {}
    BY DEF MembersHaveAdmin, Admins, AdminsOf
  <2>1. CASE m = n
    BY <1>3, <2>1
  <2>2. CASE m # n
    <3>1. role'[m] = role[m]
      BY <1>2, <2>2
    <3>2. Admins(m) # {}
      BY <1>1, <3>1 DEF MembersHaveAdmin
    <3> QED
      BY <3>1, <3>2 DEF Admins, AdminsOf
  <2> QED
    BY <2>1, <2>2
<1> QED
  BY <1>2, <1>3, <1>4

\* What is known of a request at work.
LEMMA RequestAtWork ==
    ASSUME AccountsInv, NEW q \in Requests
    PROVE  /\ request[q] \in RequestRecord /\ CountsOn(request[q], role)
           /\ request[q].at \in StepsOf(request[q].op) /\ request[q].op \in AccountOps
           /\ networks \subseteq Networks /\ role \in [Networks -> [Users -> AnyRole]]
BY DEF AccountsInv, AccountsTypeOK, CountsOn, RequestRecord

\* A request goes to its next step when that is one of its own, and it is not at or after a count.
LEMMA NextStep ==
    ASSUME AccountsInv, OneAtATime, NEW q \in Requests, NEW x \in StepsOf(request[q].op),
           request[q].op # "none", Go(q, x), networks' \subseteq Networks, role' = role,
           x # "admin" \/ request[q].at = "admin",
           x # "count" /\ (Deciding([request[q] EXCEPT !.at = x]) => Deciding(request[q]))
    PROVE  AccountsInv'
<1> DEFINE e == [request[q] EXCEPT !.at = x]
<1>1. request' = [request EXCEPT ![q] = e]
  BY DEF Go
<1>2. request[q] \in RequestRecord /\ CountsOn(request[q], role) /\ request[q].op \in AccountOps
  BY RequestAtWork
<1>3. x \in AccountSteps
  BY <1>2, Ops
<1>4. /\ e \in RequestRecord /\ e.at = x /\ e.op = request[q].op /\ e.network = request[q].network
      /\ e.user = request[q].user /\ e.was = request[q].was /\ e.next = request[q].next
  <2> HIDE DEF AccountSteps, AccountOps, AnyRole
  <2> QED
    BY <1>2, <1>3 DEF RequestRecord
<1>5. Deciding(e) => Deciding(request[q])
  OBVIOUS
<1> HIDE DEF e
<1>6. CountsOn(e, role)
  BY <1>2, <1>4, <1>5 DEF CountsOn
<1> QED
  BY <1>1, <1>6, OnlyRequest

\* A request that begins.
LEMMA Begins ==
    ASSUME AccountsInv, OneAtATime, NEW q \in Requests, NEW e \in RequestRecord,
           request' = [request EXCEPT ![q] = e], networks' = networks, role' = role,
           e.at \in StepsOf(e.op) \ {"admin", "count", "write", "clear", "clearOwner", "drop"},
           e.user \in Users, e.op \in TeamOps => e.network \in Networks /\ Admins(e.network) # {},
           e.op = "remove" => e.next = "none"
    PROVE  AccountsInv'
<1>1. CountsOn(e, role)
  BY DEF CountsOn, Deciding, Admins, AdminsOf
<1> QED
  BY <1>1, OnlyRequest, RequestAtWork

\* Sign-up and networks.
LEMMA TenantSteps ==
    ASSUME AccountsInv, OneAtATime, NEW q \in Requests,
           \/ SignUpEmail(q) \/ InsertNetwork(q) \/ InsertAdmin(q) \/ InsertEntitlements(q)
    PROVE  AccountsInv'
<1>1. /\ request[q] \in RequestRecord /\ CountsOn(request[q], role)
      /\ request[q].at \in StepsOf(request[q].op) /\ request[q].op \in AccountOps
      /\ networks \subseteq Networks /\ role \in [Networks -> [Users -> AnyRole]]
  BY RequestAtWork
<1>2. CASE SignUpEmail(q)
  <2>1. networks' = networks /\ role' = role /\ request[q].op = "signup" /\ (End(q) \/ Go(q, "network"))
    BY <1>2 DEF SignUpEmail
  <2>2. ~Deciding([request[q] EXCEPT !.at = "network"]) /\ "network" \in StepsOf("signup")
    BY <1>1, <2>1, Ops DEF Deciding, RequestRecord
  <2> QED
    BY <1>1, <2>1, <2>2, Ends, NextStep
<1>3. CASE InsertNetwork(q)
  <2>1. CASE End(q) /\ networks' = networks /\ role' = role
    BY <1>1, <2>1, Ends
  <2>2. CASE \E n \in Networks :
               /\ networks' = networks \cup {n} /\ role' = role
               /\ request' = [request EXCEPT ![q].at = "admin", ![q].network = n]
    <3>1. PICK n \in Networks :
               /\ networks' = networks \cup {n} /\ role' = role
               /\ request' = [request EXCEPT ![q].at = "admin", ![q].network = n]
      BY <2>2
    <3> DEFINE e == [request[q] EXCEPT !.at = "admin", !.network = n]
    <3>2. request' = [request EXCEPT ![q] = e]
      BY <3>1
    <3>3. request[q].at = "network" /\ request[q].op \in {"signup", "network"} /\ "admin" \in AccountSteps
      BY <1>1, <1>3, Ops DEF InsertNetwork, At, AccountOps
    <3>4. /\ e \in RequestRecord /\ e.at = "admin" /\ e.op = request[q].op /\ e.network = n
          /\ e.user = request[q].user
      <4> HIDE DEF AccountSteps, AccountOps, AnyRole
      <4> QED
        BY <1>1, <3>3 DEF RequestRecord
    <3> HIDE DEF e
    <3>5. CountsOn(e, role)
      BY <1>1, <3>3, <3>4, Ops DEF CountsOn, TeamOps, Deciding
    <3> QED
      BY <1>1, <3>1, <3>2, <3>5, OnlyRequest
  <2> QED
    BY <1>3, <2>1, <2>2 DEF InsertNetwork
<1>4. CASE InsertAdmin(q)
  <2> DEFINE e == [request[q] EXCEPT !.at = "entitle"]
             n == request[q].network
             u == request[q].user
  <2>1. /\ request[q].at = "admin" /\ request' = [request EXCEPT ![q] = e]
        /\ networks' = networks /\ role' = [role EXCEPT ![n][u] = "org_admin"]
    BY <1>4 DEF InsertAdmin, At, Go
  <2>2. request[q].op \in {"signup", "network"} /\ "entitle" \in AccountSteps
    BY <1>1, <2>1, Ops DEF AccountOps
  <2>3. n \in Networks /\ u \in Users
    BY <1>1, <2>1, <2>2 DEF CountsOn
  <2>4. /\ e \in RequestRecord /\ e.at = "entitle" /\ e.op = request[q].op /\ e.user = u
    <3> HIDE DEF AccountSteps, AccountOps, AnyRole
    <3> QED
      BY <1>1, <2>2 DEF RequestRecord
  <2> HIDE DEF e
  <2>5. role' \in [Networks -> [Users -> AnyRole]] /\ MembersHaveAdmin'
    BY <2>1, <2>3, RoleWritten, ZenonT(30) DEF AnyRole
  <2>6. CountsOn(e, role')
    BY <2>2, <2>3, <2>4, Ops DEF CountsOn, TeamOps, Deciding
  <2> QED
    BY <1>1, <2>1, <2>5, <2>6, GoesOnAs
<1>5. CASE InsertEntitlements(q)
  BY <1>1, <1>5, Ends DEF InsertEntitlements
<1> QED
  BY <1>2, <1>3, <1>4, <1>5

\* Inviting: a member comes to a network that has an admin.
LEMMA InviteSteps ==
    ASSUME AccountsInv, OneAtATime, NEW q \in Requests, InviteUser(q) \/ InvitePassword(q) \/ InsertMember(q)
    PROVE  AccountsInv'
<1>1. /\ request[q] \in RequestRecord /\ CountsOn(request[q], role)
      /\ request[q].at \in StepsOf(request[q].op) /\ request[q].op \in AccountOps
      /\ networks \subseteq Networks /\ role \in [Networks -> [Users -> AnyRole]]
  BY RequestAtWork
<1>2. request[q].op = "invite" /\ networks' = networks
  BY <1>1, Ops DEF InviteUser, InvitePassword, InsertMember, At, AccountOps
<1>3. \A x \in {"member", "password", "clear"} :
        x \in StepsOf("invite") /\ ~Deciding([request[q] EXCEPT !.at = x])
  BY <1>1, <1>2, Ops DEF Deciding, RequestRecord
<1>4. CASE InviteUser(q) \/ InvitePassword(q)
  <2>1. role' = role /\ (Go(q, "member") \/ Go(q, "password"))
    BY <1>4 DEF InviteUser, InvitePassword
  <2> QED
    BY <1>1, <1>2, <1>3, <2>1, NextStep
<1>5. CASE InsertMember(q)
  <2> DEFINE e == [request[q] EXCEPT !.at = "clear"]
             n == request[q].network
             u == request[q].user
  <2>1. CASE End(q) /\ role' = role
    BY <1>1, <1>2, <2>1, Ends
  <2>2. CASE /\ role[n][u] = "none" /\ request' = [request EXCEPT ![q] = e]
             /\ role' = [role EXCEPT ![n][u] = request[q].next]
    <3>1. n \in Networks /\ u \in Users /\ AdminsOf(role, n) # {} /\ request[q].next \in AnyRole
      BY <1>1, <1>2 DEF CountsOn, TeamOps, RequestRecord
    <3>2. \E v \in AdminsOf(role, n) : v # u
      BY <2>2, <3>1 DEF AdminsOf
    <3>3. /\ role' \in [Networks -> [Users -> AnyRole]] /\ MembersHaveAdmin'
          /\ AdminsOf(role', n) # {}
      BY <2>2, <3>1, <3>2, RoleWritten
    <3>4. /\ e \in RequestRecord /\ e.at = "clear" /\ e.op = "invite" /\ e.user = u /\ e.network = n
      <4>1. "clear" \in AccountSteps
        BY Ops DEF AccountOps
      <4> HIDE DEF AccountSteps, AccountOps, AnyRole
      <4> QED
        BY <1>1, <1>2, <4>1 DEF RequestRecord
    <3> HIDE DEF e, n, u
    <3>5. CountsOn(e, role')
      BY <3>1, <3>3, <3>4, Ops DEF CountsOn, TeamOps, Deciding
    <3> QED
      BY <1>1, <1>2, <2>2, <3>3, <3>5, GoesOnAs
  <2> QED
    BY <1>5, <2>1, <2>2 DEF InsertMember, Go
<1> QED
  BY <1>4, <1>5

\* More than one admin: one besides any.
LEMMA AnotherAdmin ==
    ASSUME NEW n, NEW u, OthersRemain(n)
    PROVE  \E v \in AdminsOf(role, n) : v # u
<1> SUFFICES ASSUME AdminsOf(role, n) \subseteq {u} PROVE FALSE
  OBVIOUS
<1>1. AdminsOf(role, n) = {} \/ AdminsOf(role, n) = {u}
  OBVIOUS
<1>2. Cardinality({}) = 0 /\ Cardinality({u}) = 1
  BY FS_EmptySet, FS_Singleton
<1>3. Cardinality(AdminsOf(role, n)) = 0 \/ Cardinality(AdminsOf(role, n)) = 1
  BY <1>1, <1>2
<1>4. Cardinality(AdminsOf(role, n)) > 1
  BY DEF OthersRemain, Admins, AdminsOf
<1> QED
  BY <1>3, <1>4

\* The found is read; an admin's is counted before it is written.
LEMMA FindAndCount ==
    ASSUME AccountsInv, OneAtATime, NEW q \in Requests, FindMember(q) \/ CountAdmins(q)
    PROVE  AccountsInv'
<1>1. /\ request[q] \in RequestRecord /\ CountsOn(request[q], role)
      /\ request[q].at \in StepsOf(request[q].op) /\ request[q].op \in AccountOps
      /\ networks \subseteq Networks /\ role \in [Networks -> [Users -> AnyRole]]
  BY RequestAtWork
<1>2. networks' = networks /\ role' = role /\ request[q].op \in {"update", "remove"}
  BY <1>1, Ops DEF FindMember, CountAdmins, At, tables, AccountOps
<1> DEFINE n == request[q].network
           u == request[q].user
<1>3. n \in Networks /\ u \in Users /\ AdminsOf(role, n) # {} /\ role[n][u] \in AnyRole
  BY <1>1, <1>2 DEF CountsOn, TeamOps
<1>4. CASE FindMember(q)
  <2> DEFINE found == role[n][u]
             x == IF found = "org_admin" /\ request[q].next # "org_admin" THEN "count" ELSE "write"
             e == [request[q] EXCEPT !.was = found, !.at = x]
  <2>1. End(q) \/ request' = [request EXCEPT ![q] = e]
    BY <1>4 DEF FindMember
  <2>2. x \in AccountSteps /\ x \in StepsOf(request[q].op)
    BY <1>2, Ops DEF AccountOps
  <2>3. /\ e \in RequestRecord /\ e.at = x /\ e.op = request[q].op /\ e.user = u /\ e.network = n
        /\ e.next = request[q].next /\ e.was = found
    <3> HIDE DEF AccountSteps, AccountOps, AnyRole, x
    <3> QED
      BY <1>1, <1>3, <2>2 DEF RequestRecord
  <2>4. x \in {"count", "write"} /\ (x = "write" => found # "org_admin" \/ e.next = "org_admin")
    BY <2>3
  <2> HIDE DEF x, e
  <2>5. CountsOn(e, role)
    BY <1>1, <1>2, <1>3, <2>2, <2>3, <2>4 DEF CountsOn, TeamOps, Deciding
  <2> QED
    BY <1>1, <1>2, <2>1, <2>5, Ends, OnlyRequest
<1>5. CASE CountAdmins(q)
  <2> DEFINE e == [request[q] EXCEPT !.at = "write"]
  <2>1. CASE End(q)
    BY <1>1, <1>2, <2>1, Ends
  <2>2. CASE OthersRemain(n) /\ request' = [request EXCEPT ![q] = e]
    <3>1. request[q].at = "count" /\ "write" \in AccountSteps /\ "write" \in StepsOf(request[q].op)
      BY <1>2, <1>5, Ops DEF CountAdmins, At, AccountOps
    <3>2. /\ e \in RequestRecord /\ e.at = "write" /\ e.op = request[q].op /\ e.user = u
          /\ e.network = n /\ e.next = request[q].next /\ e.was = request[q].was
      <4> HIDE DEF AccountSteps, AccountOps, AnyRole
      <4> QED
        BY <1>1, <3>1 DEF RequestRecord
    <3> HIDE DEF e
    <3>3. \E v \in AdminsOf(role, n) : v # u
      BY <2>2, AnotherAdmin
    <3>4. CountsOn(e, role)
      BY <1>1, <1>2, <1>3, <3>1, <3>2, <3>3 DEF CountsOn, TeamOps, Deciding
    <3> QED
      BY <1>1, <1>2, <2>2, <3>4, OnlyRequest
  <2> QED
    BY <1>5, <2>1, <2>2 DEF CountAdmins, Go
<1> QED
  BY <1>4, <1>5

\* A role is written over one that was not the last admin's.
LEMMA WriteRoleStep ==
    ASSUME AccountsInv, OneAtATime, NEW q \in Requests, WriteRole(q)
    PROVE  AccountsInv'
<1> DEFINE r == request[q]
           e == [r EXCEPT !.at = "clear"]
           n == r.network
           u == r.user
<1>1. /\ r \in RequestRecord /\ CountsOn(r, role) /\ r.at \in StepsOf(r.op) /\ r.op \in AccountOps
      /\ networks \subseteq Networks /\ role \in [Networks -> [Users -> AnyRole]]
  BY RequestAtWork
<1>2. /\ r.at = "write" /\ request' = [request EXCEPT ![q] = e] /\ networks' = networks
      /\ role' = IF r.op = "update" /\ r.next # r.was /\ role[n][u] # "none"
                 THEN [role EXCEPT ![n][u] = r.next] ELSE role
  BY DEF WriteRole, At, Go
<1>3. r.op \in {"update", "remove"} /\ "clear" \in AccountSteps /\ "clear" \in StepsOf(r.op)
  BY <1>1, <1>2, Ops DEF AccountOps
<1>4. /\ n \in Networks /\ u \in Users /\ AdminsOf(role, n) # {} /\ r.next \in AnyRole
      /\ r.was = role[n][u]
      /\ r.was = "org_admin" /\ r.next # "org_admin" => \E v \in AdminsOf(role, n) : v # u
  BY <1>1, <1>2, <1>3 DEF CountsOn, TeamOps, Deciding, RequestRecord
<1>5. /\ e \in RequestRecord /\ e.at = "clear" /\ e.op = r.op /\ e.user = u /\ e.network = n
      /\ e.next = r.next /\ e.was = r.was
  <2> HIDE DEF AccountSteps, AccountOps, AnyRole
  <2> QED
    BY <1>1, <1>3 DEF RequestRecord
<1>6. CASE role' = role
  <2>1. Deciding(e) => Deciding(r)
    BY <1>2 DEF Deciding
  <2> HIDE DEF e
  <2>2. CountsOn(e, role)
    BY <1>1, <1>3, <1>5, <2>1 DEF CountsOn, TeamOps
  <2> QED
    BY <1>1, <1>2, <1>6, <2>2, OnlyRequest
<1>7. CASE r.op = "update" /\ role' = [role EXCEPT ![n][u] = r.next]
  <2>1. r.next = "org_admin" \/ \E v \in AdminsOf(role, n) : v # u
    BY <1>4 DEF AdminsOf
  <2>2. role' \in [Networks -> [Users -> AnyRole]] /\ MembersHaveAdmin' /\ AdminsOf(role', n) # {}
    BY <1>4, <1>7, <2>1, RoleWritten
  <2> HIDE DEF e
  <2>3. CountsOn(e, role')
    BY <1>1, <1>3, <1>4, <1>5, <1>7, <2>2 DEF CountsOn, TeamOps, Deciding
  <2> QED
    BY <1>1, <1>2, <2>2, <2>3, GoesOnAs
<1> QED
  BY <1>2, <1>6, <1>7

\* The scopes are written while the role stays; the removal of a member is the last step.
LEMMA ScopeSteps ==
    ASSUME AccountsInv, OneAtATime, NEW q \in Requests,
           ClearStaff(q) \/ ClearOwner(q) \/ FillScope(q) \/ DropMember(q)
    PROVE  AccountsInv'
<1>1. /\ request[q] \in RequestRecord /\ CountsOn(request[q], role)
      /\ request[q].at \in StepsOf(request[q].op) /\ request[q].op \in AccountOps
      /\ networks \subseteq Networks /\ role \in [Networks -> [Users -> AnyRole]]
  BY RequestAtWork
<1>2. networks' = networks
  BY DEF ClearStaff, ClearOwner, FillScope, DropMember
<1>3. CASE ClearStaff(q)
  <2>1. request[q].at = "clear" /\ Go(q, "clearOwner") /\ role' = role
    BY <1>3 DEF ClearStaff, At
  <2>2. "clearOwner" \in StepsOf(request[q].op) /\ request[q].op # "none"
    BY <1>1, <2>1, Ops DEF AccountOps
  <2>3. Deciding([request[q] EXCEPT !.at = "clearOwner"]) => Deciding(request[q])
    BY <1>1, <2>1 DEF Deciding, RequestRecord
  <2> QED
    BY <1>1, <1>2, <2>1, <2>2, <2>3, NextStep
<1>4. CASE ClearOwner(q)
  <2> DEFINE x == IF request[q].op = "remove" THEN "drop" ELSE "fill"
  <2>1. request[q].at = "clearOwner" /\ Go(q, x) /\ role' = role
    BY <1>4 DEF ClearOwner, At
  <2>2. x \in StepsOf(request[q].op) /\ request[q].op # "none"
    BY <1>1, <2>1, Ops DEF AccountOps
  <2>3. Deciding([request[q] EXCEPT !.at = x]) => Deciding(request[q])
    BY <1>1, <2>1 DEF Deciding, RequestRecord
  <2>4. x # "admin" /\ x # "count"
    OBVIOUS
  <2> HIDE DEF x
  <2> QED
    BY <1>1, <1>2, <2>1, <2>2, <2>3, <2>4, NextStep
<1>5. CASE FillScope(q)
  BY <1>1, <1>2, <1>5, Ends DEF FillScope
<1>6. CASE DropMember(q)
  <2> DEFINE n == request[q].network
             u == request[q].user
  <2>1. request[q].at = "drop" /\ End(q) /\ role' = [role EXCEPT ![n][u] = "none"]
    BY <1>6 DEF DropMember, At
  <2>2. request[q].op = "remove"
    BY <1>1, <2>1, Ops DEF AccountOps
  <2>3. /\ n \in Networks /\ u \in Users /\ AdminsOf(role, n) # {} /\ request[q].was = role[n][u]
        /\ request[q].was = "org_admin" => \E v \in AdminsOf(role, n) : v # u
    <3>1. Deciding(request[q]) /\ request[q].next = "none"
      BY <1>1, <2>1, <2>2 DEF CountsOn, Deciding
    <3> QED
      BY <1>1, <2>2, <3>1 DEF CountsOn, TeamOps
  <2>4. \E v \in AdminsOf(role, n) : v # u
    <3>1. CASE role[n][u] = "org_admin"
      BY <2>3, <3>1
    <3>2. CASE role[n][u] # "org_admin"
      <4>1. u \notin AdminsOf(role, n)
        BY <3>2 DEF AdminsOf
      <4> QED
        BY <2>3, <4>1
    <3> QED
      BY <3>1, <3>2
  <2>5. role' \in [Networks -> [Users -> AnyRole]] /\ MembersHaveAdmin'
    <3>1. "none" \in AnyRole
      BY DEF AnyRole
    <3> HIDE DEF n, u
    <3> QED
      BY <2>1, <2>3, <2>4, <3>1, RoleWritten
  <2> QED
    BY <1>1, <1>2, <2>1, <2>5, NoRequestCounts, GoesOnAs DEF End
<1> QED
  BY <1>3, <1>4, <1>5, <1>6

\* Who asks manages a network that has members, hence an admin.
LEMMA AskedSteps ==
    ASSUME AccountsInv, OneAtATime, NEW q \in Requests, NEW u \in Users
    PROVE  /\ SignUp(q, u) => AccountsInv'
           /\ \A n \in networks :
                /\ AskNetwork(q, n, u) \/ AskRemoval(q, n, u) => AccountsInv'
                /\ \A next \in Roles, scope \in SUBSET Properties :
                     Invite(q, n, u, next, scope) \/ Update(q, n, u, next, scope) => AccountsInv'
<1>1. /\ NoRequest.op = "none" /\ NoRequest \in RequestRecord /\ networks \subseteq Networks
      /\ MembersHaveAdmin /\ role \in [Networks -> [Users -> AnyRole]]
  BY NoRequestCounts, RequestAtWork DEF CountsOn, NoRequest, AccountsInv
<1>2. /\ {"account", "network", "find"} \subseteq AccountSteps
      /\ {"signup", "network", "invite", "update", "remove"} \subseteq AccountOps
  BY Ops DEF AccountOps
<1>3. ASSUME NEW o \in {"signup", "network"}, NEW x \in {"account", "network"}, x \in StepsOf(o),
             request' = [request EXCEPT ![q] = [NoRequest EXCEPT !.op = o, !.at = x, !.user = u]],
             UNCHANGED tables
      PROVE  AccountsInv'
  <2> DEFINE e == [NoRequest EXCEPT !.op = o, !.at = x, !.user = u]
  <2>1. e \in RequestRecord /\ e.op = o /\ e.at = x /\ e.user = u
    <3> HIDE DEF NoRequest, AccountSteps, AccountOps, AnyRole
    <3> QED
      BY <1>1, <1>2 DEF RequestRecord
  <2> HIDE DEF e
  <2>2. request' = [request EXCEPT ![q] = e]
    BY <1>3 DEF e
  <2> QED
    BY <1>3, <2>1, <2>2, Begins DEF tables, TeamOps
<1>4. SignUp(q, u) => AccountsInv'
  BY <1>3, Ops DEF SignUp, Start
<1>5. ASSUME NEW n \in networks, AskNetwork(q, n, u) PROVE AccountsInv'
  BY <1>3, <1>5, Ops DEF AskNetwork, Start
<1>6. ASSUME NEW n \in networks, NEW r \in RequestRecord, TeamRequest(q, n, r), r.op \in TeamOps,
             r.at = IF r.op = "invite" THEN "account" ELSE "find", r.network = n, r.user = u,
             r.op = "remove" => r.next = "none"
      PROVE  AccountsInv'
  <2>1. Admins(n) # {}
    <3>1. PICK a \in Users : role[n][a] \in NetworkWideRoles
      BY <1>6 DEF TeamRequest, IsManager
    <3>2. role[n][a] # "none"
      BY <3>1 DEF NetworkWideRoles
    <3> QED
      BY <1>1, <3>2 DEF MembersHaveAdmin
  <2>2. request' = [request EXCEPT ![q] = r] /\ networks' = networks /\ role' = role
    BY <1>6 DEF TeamRequest, Start, tables
  <2>3. r.at \in StepsOf(r.op) \ {"admin", "count", "write", "clear", "clearOwner", "drop"}
    BY <1>6, Ops DEF TeamOps
  <2> QED
    BY <1>1, <1>6, <2>1, <2>2, <2>3, Begins
<1>7. ASSUME NEW n \in networks, AskRemoval(q, n, u) PROVE AccountsInv'
  <2> DEFINE r == [op |-> "remove", at |-> "find", network |-> n, user |-> u, was |-> "none",
                   next |-> "none", scope |-> {}]
  <2>1. r \in RequestRecord
    BY <1>1, <1>2 DEF RequestRecord, AnyRole
  <2>2. TeamRequest(q, n, r) /\ r.op \in TeamOps
    BY <1>7 DEF AskRemoval, TeamOps
  <2> QED
    BY <1>6, <2>1, <2>2
<1>8. ASSUME NEW n \in networks, NEW next \in Roles, NEW scope \in SUBSET Properties,
             Invite(q, n, u, next, scope) \/ Update(q, n, u, next, scope)
      PROVE  AccountsInv'
  <2> DEFINE r(o, x) == [op |-> o, at |-> x, network |-> n, user |-> u, was |-> "none",
                         next |-> next, scope |-> scope]
  <2>1. r("invite", "account") \in RequestRecord /\ r("update", "find") \in RequestRecord
    BY <1>1, <1>2 DEF RequestRecord, AnyRole
  <2>2. TeamRequest(q, n, r("invite", "account")) \/ TeamRequest(q, n, r("update", "find"))
    BY <1>8 DEF Invite, Update
  <2> QED
    BY <1>6, <2>1, <2>2 DEF TeamOps
<1> QED
  BY <1>4, <1>5, <1>7, <1>8

LEMMA AccountsInitInv ==
    ASSUME AccountsInit PROVE AccountsInv
<1>1. \A r \in Requests : request[r] = NoRequest
  BY DEF AccountsInit
<1>2. AccountsTypeOK
  BY NoRequestCounts DEF AccountsInit, AccountsTypeOK, CountsOn, AnyRole
<1>3. MembersHaveAdmin
  BY DEF AccountsInit, MembersHaveAdmin
<1> QED
  BY <1>1, <1>2, <1>3, NoRequestCounts DEF AccountsInv

LEMMA AccountsSteps ==
    ASSUME AccountsInv, OneAtATime, [AccountsNext]_accountVars
    PROVE  AccountsInv'
<1>1. ASSUME NEW q \in Requests, AccountStep(q) PROVE AccountsInv'
  BY <1>1, TenantSteps, InviteSteps, FindAndCount, WriteRoleStep, ScopeSteps DEF AccountStep
<1>2. ASSUME NEW q \in Requests, Breaks(q) PROVE AccountsInv'
  BY <1>2, Ends, RequestAtWork DEF Breaks, tables
<1>3. CASE UNCHANGED accountVars
  BY <1>3 DEF accountVars, AccountsInv, AccountsTypeOK, MembersHaveAdmin, Admins
<1> QED
  BY <1>1, <1>2, <1>3, AskedSteps DEF AccountsNext

\* "Cannot demote the last organization admin" and "Cannot remove the last organization admin"
\* (team.ts): for any number of users, networks and changes, and whatever statement a request
\* breaks off at, a network that has members has an admin, if each request is answered before the
\* next one comes.  Two at once may each count the other's admin.
THEOREM LastAdminStays == ASSUME OneAtATime PROVE AccountsSpec => []AdminRemains
<1>1. AccountsInit => AccountsInv
  BY AccountsInitInv
<1>2. AccountsInv /\ [AccountsNext]_accountVars => AccountsInv'
  BY AccountsSteps
<1>3. AccountsInv => AdminRemains
  BY DEF AccountsInv, AccountsTypeOK, MembersHaveAdmin, AdminRemains
<1> QED
  BY <1>1, <1>2, <1>3, PTL DEF AccountsSpec

-----------------------------------------------------------------------------
(* Proposals.  QueuedIsDurable is not inductive: what an accept that fails *)
(* takes back could be what another has reported.  The invariant adds      *)
(* that, as long as a key was not given twice, its object is in memory     *)
(* while an accept holds it, one accept at most holds it, and none does    *)
(* once a proposal reports it.                                             *)

IntentKey == [cell : Cells, amount : Amounts, base : Nat]
Objects == [id : Nat, key : IntentKey]
Intent == [id : Nat, key : IntentKey, status : {"queued", "cancelled"}]
Statuses == {"pending", "dismissed", "accepted_local", "stale", "partial", "queued", "failed",
             "applied"}
Proposal == [kind : {"pricing", "schedule"}, status : Statuses, rows : Seq(Suggestions), base : Nat,
             outcomes : Seq(SUBSET IntentKey)]
AcceptRecord == [at : {"idle", "secrets", "rows"}, p : Nat, left : Seq(Suggestions), mine : SUBSET Cells,
                 outcomes : Seq(SUBSET IntentKey), held : SUBSET Objects, waits : SUBSET Objects]
TypeOK ==
    /\ version \in Nat /\ asking \in Nat
    /\ proposals \in Seq(Proposal)
    /\ accepting \in [Approvers -> AcceptRecord]
    /\ \A q \in Approvers : /\ accepting[q].at # "idle" => accepting[q].p \in DOMAIN proposals
                            /\ accepting[q].at # "rows" => accepting[q].waits = {}
    /\ intents \subseteq Intent /\ nextIntent \in Nat

\* What an accept reports has its row and is held; what a proposal reports has its row.
RowsAreWritten ==
    /\ \A q \in Approvers : Keys(accepting[q].outcomes) \subseteq intentRows \cap KeysIn(accepting[q].held)
    /\ \A p \in DOMAIN proposals : Keys(proposals[p].outcomes) \subseteq intentRows
\* The object that waits for its row is held, and every intent that has no row waits.
WaitingAreHeld ==
    /\ \A q \in Approvers : accepting[q].waits \subseteq accepting[q].held
    /\ \A i \in intents : i.key \in intentRows \/ \E q \in Approvers : Object(i) \in accepting[q].waits
\* An object that is held is in memory, unless its key was given twice.
HeldAreThere ==
    \A q \in Approvers : \A h \in accepting[q].held : h.key \in shared \/ \E i \in intents : Object(i) = h
\* One accept at most holds an object of a key that was not given twice.
HeldOnce ==
    \A q, o \in Approvers : q # o => KeysIn(accepting[q].held) \cap KeysIn(accepting[o].held) \subseteq shared
\* A key that is reported and was not given twice is in memory, and nobody holds it.
ReportedAreLeft ==
    \A p \in DOMAIN proposals : \A k \in Keys(proposals[p].outcomes) \ shared :
        k \in KeysIn(intents) /\ \A q \in Approvers : k \notin KeysIn(accepting[q].held)
IInv == TypeOK /\ RowsAreWritten /\ WaitingAreHeld /\ HeldAreThere /\ HeldOnce /\ ReportedAreLeft

-----------------------------------------------------------------------------
(* Lemmas about the operators.                                             *)

\* Appending an outcome adds its keys.
LEMMA KeysAppend ==
    ASSUME NEW s \in Seq(SUBSET IntentKey), NEW e \in SUBSET IntentKey
    PROVE  /\ Append(s, e) \in Seq(SUBSET IntentKey)
           /\ Keys(Append(s, e)) = Keys(s) \cup e
<1>1. ToSet(Append(s, e)) = ToSet(s) \cup {e}
  <2>1. DOMAIN Append(s, e) = 1..Len(s) + 1 /\ DOMAIN s = 1..Len(s) /\ Len(s) \in Nat
    OBVIOUS
  <2>2. \A i \in 1..Len(s) : Append(s, e)[i] = s[i]
    OBVIOUS
  <2>3. Append(s, e)[Len(s) + 1] = e
    OBVIOUS
  <2> QED
    BY <2>1, <2>2, <2>3 DEF ToSet
<1>2. Append(s, e) \in Seq(SUBSET IntentKey)
  OBVIOUS
<1> QED
  BY <1>1, <1>2 DEF Keys

\* No outcome has no key, and neither have rows that are all without an intent.
LEMMA KeysEmpty == Keys(<<>>) = {} /\ <<>> \in Seq(SUBSET IntentKey)
BY DEF Keys, ToSet

LEMMA KeysNone ==
    ASSUME NEW shown \in Seq(Suggestions)
    PROVE  LET none == [i \in DOMAIN shown |-> NotQueued]
           IN  none \in Seq(SUBSET IntentKey) /\ Keys(none) = {}
<1>1. DOMAIN shown = 1..Len(shown) /\ Len(shown) \in Nat
  OBVIOUS
<1>2. [i \in DOMAIN shown |-> NotQueued] \in Seq(SUBSET IntentKey)
  BY <1>1 DEF NotQueued
<1> QED
  BY <1>2 DEF Keys, ToSet, NotQueued

\* A request that is not under way holds nothing.
LEMMA IdleHoldsNothing ==
    /\ NotAccepting \in AcceptRecord /\ NotAccepting.at = "idle"
    /\ Keys(NotAccepting.outcomes) = {}
    /\ NotAccepting.held = {} /\ NotAccepting.waits = {} /\ KeysIn({}) = {}
<1>1. NotAccepting.outcomes = <<>>
  BY DEF NotAccepting
<1>2. NotAccepting \in AcceptRecord
  BY KeysEmpty DEF NotAccepting, AcceptRecord
<1> QED
  BY <1>1, <1>2, KeysEmpty DEF NotAccepting, KeysIn

\* Cancelling changes no object: none leaves the memory and none comes.
LEMMA CancelKeepsObjects ==
    ASSUME TypeOK, NEW cell
    PROVE  /\ Cancelled(cell) \subseteq Intent
           /\ \A i \in Cancelled(cell) : \E j \in intents : Object(i) = Object(j) /\ i.key = j.key
           /\ \A j \in intents : \E i \in Cancelled(cell) : Object(i) = Object(j) /\ i.key = j.key
<1> DEFINE c(i) == IF i.key.cell = cell /\ i.status = "queued" THEN [i EXCEPT !.status = "cancelled"] ELSE i
<1>1. \A i \in intents : c(i) \in Intent /\ c(i).id = i.id /\ c(i).key = i.key
  BY DEF TypeOK, Intent
<1>2. Cancelled(cell) = {c(i) : i \in intents}
  BY DEF Cancelled
<1> HIDE DEF c
<1> QED
  BY <1>1, <1>2 DEF Object

\* The request of q is now r, and the others are what they were.
LEMMA AcceptSets ==
    ASSUME TypeOK, NEW q \in Approvers, NEW r \in AcceptRecord, Accept(q, r)
    PROVE  /\ accepting' \in [Approvers -> AcceptRecord] /\ accepting'[q] = r
           /\ \A o \in Approvers : o # q => accepting'[o] = accepting[o]
BY DEF Accept, TypeOK

-----------------------------------------------------------------------------
(* The steps.                                                              *)

LEMMA InitHolds == ProposalsInit => IInv
<1> SUFFICES ASSUME ProposalsInit PROVE IInv
  OBVIOUS
<1>1. \A q \in Approvers : accepting[q] = NotAccepting
  BY DEF ProposalsInit
<1>2. TypeOK
  <2>1. accepting \in [Approvers -> AcceptRecord]
    BY IdleHoldsNothing DEF ProposalsInit
  <2>2. \A q \in Approvers : accepting[q].at = "idle" /\ accepting[q].waits = {}
    BY <1>1, IdleHoldsNothing
  <2> QED
    BY <2>1, <2>2 DEF ProposalsInit, TypeOK
<1>3. RowsAreWritten
  BY <1>1, IdleHoldsNothing DEF ProposalsInit, RowsAreWritten
<1>4. WaitingAreHeld /\ HeldAreThere /\ HeldOnce
  BY <1>1, IdleHoldsNothing DEF ProposalsInit, WaitingAreHeld, HeldAreThere, HeldOnce
<1>5. ReportedAreLeft
  BY DEF ProposalsInit, ReportedAreLeft
<1> QED
  BY <1>2, <1>3, <1>4, <1>5 DEF IInv

\* A step that touches no intent and no suggested, lets no accept hold or report more and no proposal
\* report more.
LEMMA QuietSteps ==
    ASSUME IInv, TypeOK', UNCHANGED <<intents, intentRows, shared>>,
           \A q \in Approvers :
               /\ accepting'[q].held \subseteq accepting[q].held
               /\ accepting'[q].waits = accepting[q].waits
               /\ accepting'[q].waits \subseteq accepting'[q].held
               /\ Keys(accepting'[q].outcomes) \subseteq Keys(accepting[q].outcomes) \cap KeysIn(accepting'[q].held),
           \A p \in DOMAIN proposals' :
               \/ Keys(proposals'[p].outcomes) = {}
               \/ p \in DOMAIN proposals /\ Keys(proposals'[p].outcomes) \subseteq Keys(proposals[p].outcomes)
    PROVE  IInv'
<1> USE DEF IInv
<1>1. \A q \in Approvers : KeysIn(accepting'[q].held) \subseteq KeysIn(accepting[q].held)
  BY DEF KeysIn
<1>2. RowsAreWritten'
  <2>1. \A q \in Approvers : Keys(accepting'[q].outcomes) \subseteq intentRows \cap KeysIn(accepting'[q].held)
    BY DEF RowsAreWritten
  <2>2. \A p \in DOMAIN proposals' : Keys(proposals'[p].outcomes) \subseteq intentRows
    BY DEF RowsAreWritten
  <2> QED
    BY <2>1, <2>2 DEF RowsAreWritten
<1>3. WaitingAreHeld'
  BY DEF WaitingAreHeld
<1>4. HeldAreThere'
  BY DEF HeldAreThere
<1>5. HeldOnce'
  BY <1>1 DEF HeldOnce
<1>6. ReportedAreLeft'
  BY <1>1 DEF ReportedAreLeft
<1> QED
  BY <1>2, <1>3, <1>4, <1>5, <1>6

\* A proposal is resolved: the type of the state, and what the proposals report.
LEMMA ResolveSets ==
    ASSUME TypeOK, NEW p \in DOMAIN proposals, NEW status \in Statuses, NEW outcomes \in Seq(SUBSET IntentKey),
           Resolve(p, status, outcomes)
    PROVE  /\ proposals' \in Seq(Proposal) /\ DOMAIN proposals' = DOMAIN proposals
           /\ proposals'[p].outcomes = outcomes
           /\ \A o \in DOMAIN proposals : o # p => proposals'[o] = proposals[o]
<1>1. proposals[p] \in Proposal /\ DOMAIN proposals = 1..Len(proposals)
  BY DEF TypeOK
<1>2. proposals' = [proposals EXCEPT ![p] = [proposals[p] EXCEPT !.status = status, !.outcomes = outcomes]]
  BY <1>1 DEF Resolve, Proposal
<1> DEFINE new == [proposals[p] EXCEPT !.status = status, !.outcomes = outcomes]
<1>3. new \in Proposal /\ new.outcomes = outcomes
  BY <1>1 DEF Proposal
<1> HIDE DEF new
<1> QED
  BY <1>1, <1>2, <1>3 DEF TypeOK, new

\* A proposal is resolved, and reports no more than it did.
LEMMA ResolveHolds ==
    ASSUME IInv, NEW p \in DOMAIN proposals, NEW status \in Statuses, NEW outcomes \in Seq(SUBSET IntentKey),
           Keys(outcomes) \subseteq Keys(proposals[p].outcomes), Resolve(p, status, outcomes),
           UNCHANGED <<version, asking, accepting, intents, intentRows, nextIntent, shared>>
    PROVE  IInv'
<1>1. TypeOK
  BY DEF IInv
<1>2. /\ proposals' \in Seq(Proposal) /\ DOMAIN proposals' = DOMAIN proposals
      /\ \A o \in DOMAIN proposals : Keys(proposals'[o].outcomes) \subseteq Keys(proposals[o].outcomes)
  BY <1>1, ResolveSets
<1>3. TypeOK'
  BY <1>1, <1>2 DEF TypeOK
<1>4. \A q \in Approvers : Keys(accepting[q].outcomes) \subseteq KeysIn(accepting[q].held)
                           /\ accepting[q].waits \subseteq accepting[q].held
  BY DEF IInv, RowsAreWritten, WaitingAreHeld
<1> QED
  BY <1>2, <1>3, <1>4, QuietSteps

LEMMA SuggestHolds ==
    ASSUME IInv, NEW kind \in {"pricing", "schedule"}, NEW shown \in Selections, Suggest(kind, shown)
    PROVE  IInv'
<1> DEFINE new == [kind |-> kind, status |-> "pending", rows |-> shown, base |-> asking, outcomes |-> <<>>]
<1>0. TypeOK
  BY DEF IInv
<1>1. new \in Proposal /\ Keys(new.outcomes) = {}
  <2>1. shown \in Seq(Suggestions)
    BY ProposalsAssumption
  <2> QED
    BY <1>0, <2>1, KeysEmpty DEF Proposal, Statuses, TypeOK
<1>2. proposals' = Append(proposals, new)
  BY DEF Suggest
<1> HIDE DEF new
<1>3. /\ proposals' \in Seq(Proposal) /\ DOMAIN proposals \subseteq DOMAIN proposals'
      /\ \A p \in DOMAIN proposals' :
            \/ p \in DOMAIN proposals /\ proposals'[p] = proposals[p]
            \/ Keys(proposals'[p].outcomes) = {}
  <2>1. proposals \in Seq(Proposal)
    BY <1>0 DEF TypeOK
  <2>2. DOMAIN proposals' = 1..Len(proposals) + 1 /\ DOMAIN proposals = 1..Len(proposals)
    BY <1>2, <2>1
  <2>3. proposals'[Len(proposals) + 1] = new
    BY <1>2, <2>1
  <2>4. \A p \in DOMAIN proposals : proposals'[p] = proposals[p]
    BY <1>2, <2>1
  <2>5. proposals' \in Seq(Proposal)
    BY <1>1, <1>2, <2>1
  <2> QED
    BY <1>1, <2>2, <2>3, <2>4, <2>5
<1>4. TypeOK'
  BY <1>0, <1>3 DEF TypeOK, Suggest
<1>5. \A q \in Approvers : Keys(accepting[q].outcomes) \subseteq KeysIn(accepting[q].held)
                           /\ accepting[q].waits \subseteq accepting[q].held
  BY DEF IInv, RowsAreWritten, WaitingAreHeld
<1>6. UNCHANGED <<intents, intentRows, shared, accepting>>
  BY DEF Suggest
<1>7. \A p \in DOMAIN proposals' :
          \/ Keys(proposals'[p].outcomes) = {}
          \/ p \in DOMAIN proposals /\ Keys(proposals'[p].outcomes) \subseteq Keys(proposals[p].outcomes)
  BY <1>3
<1>8. \A q \in Approvers : accepting'[q] = accepting[q]
  BY <1>6
<1> QED
  BY <1>4, <1>5, <1>6, <1>7, <1>8, QuietSteps

\* An accept goes on, or ends, and holds and reports no more than it did.
LEMMA AcceptHolds ==
    ASSUME IInv, NEW q \in Approvers, NEW r \in AcceptRecord, Accept(q, r),
           r.at # "idle" => r.p \in DOMAIN proposals, r.at # "rows" => r.waits = {},
           r.held \subseteq accepting[q].held, r.waits = accepting[q].waits, r.waits \subseteq r.held,
           Keys(r.outcomes) \subseteq Keys(accepting[q].outcomes) \cap KeysIn(r.held),
           UNCHANGED <<version, asking, proposals, intents, intentRows, nextIntent, shared>>
    PROVE  IInv'
<1>0. TypeOK
  BY DEF IInv
<1>1. /\ accepting' \in [Approvers -> AcceptRecord] /\ accepting'[q] = r
      /\ \A o \in Approvers : o # q => accepting'[o] = accepting[o]
  BY <1>0, AcceptSets
<1>2. TypeOK'
  BY <1>0, <1>1 DEF TypeOK
<1>3. \A o \in Approvers :
          /\ accepting'[o].held \subseteq accepting[o].held
          /\ accepting'[o].waits = accepting[o].waits
          /\ accepting'[o].waits \subseteq accepting'[o].held
          /\ Keys(accepting'[o].outcomes) \subseteq Keys(accepting[o].outcomes) \cap KeysIn(accepting'[o].held)
  BY <1>1 DEF IInv, RowsAreWritten, WaitingAreHeld
<1> QED
  BY <1>2, <1>3, QuietSteps

\* An accept starts: it holds nothing yet.
LEMMA StartAcceptHolds ==
    ASSUME IInv, NEW q \in Approvers, NEW p \in DOMAIN proposals, NEW mine \in Scopes,
           StartAccept(q, p, mine)
    PROVE  IInv'
<1> DEFINE r == [NotAccepting EXCEPT !.at = "secrets", !.p = p, !.mine = mine]
<1>1. p \in Nat /\ mine \subseteq Cells
  BY ProposalsAssumption DEF IInv, TypeOK
<1>2. /\ r \in AcceptRecord /\ r.p = p /\ r.held = NotAccepting.held /\ r.waits = NotAccepting.waits
      /\ r.outcomes = NotAccepting.outcomes
  BY <1>1, IdleHoldsNothing DEF AcceptRecord
<1>3. Accept(q, r) /\ accepting[q] = NotAccepting
  BY DEF StartAccept
<1>4. UNCHANGED <<version, asking, proposals, intents, intentRows, nextIntent, shared>>
  BY DEF StartAccept
<1> HIDE DEF r
<1>5. /\ r.held \subseteq accepting[q].held /\ r.waits = accepting[q].waits /\ r.waits = {}
      /\ Keys(r.outcomes) \subseteq Keys(accepting[q].outcomes) \cap KeysIn(r.held)
  BY <1>2, <1>3, IdleHoldsNothing
<1> QED
  BY <1>2, <1>3, <1>4, <1>5, AcceptHolds

\* The version has not moved while the secrets were awaited: the rows are next.
LEMMA AcceptFreshHolds ==
    ASSUME IInv, NEW q \in Approvers, AcceptFresh(q)
    PROVE  IInv'
<1> DEFINE r == accepting[q]
<1> DEFINE new == [r EXCEPT !.at = "rows", !.left = proposals[r.p].rows]
<1>1. r \in AcceptRecord /\ r.p \in DOMAIN proposals
  BY DEF IInv, TypeOK, AcceptFresh
<1>2. proposals[r.p].rows \in Seq(Suggestions)
  <2>1. proposals[r.p] \in Proposal
    BY <1>1 DEF IInv, TypeOK
  <2> QED
    BY <2>1 DEF Proposal
<1>3. /\ new \in AcceptRecord /\ new.p = r.p /\ new.held = r.held /\ new.waits = r.waits
      /\ new.outcomes = r.outcomes /\ new.at = "rows"
  BY <1>1, <1>2 DEF AcceptRecord
<1>4. Accept(q, new) /\ UNCHANGED <<version, asking, proposals, intents, intentRows, nextIntent, shared>>
  BY DEF AcceptFresh
<1>5. Keys(r.outcomes) \subseteq KeysIn(r.held) /\ r.waits \subseteq r.held
  BY DEF IInv, RowsAreWritten, WaitingAreHeld
<1> HIDE DEF new
<1> QED
  BY <1>1, <1>3, <1>4, <1>5, AcceptHolds

\* The version has moved: the proposal is stale, and reports nothing.
LEMMA AcceptStaleHolds ==
    ASSUME IInv, NEW q \in Approvers, AcceptStale(q)
    PROVE  IInv'
<1> DEFINE r == accepting[q]
<1> DEFINE none == [i \in DOMAIN proposals[r.p].rows |-> NotQueued]
<1>0. TypeOK
  BY DEF IInv
<1>1. r \in AcceptRecord /\ r.p \in DOMAIN proposals
  BY DEF IInv, TypeOK, AcceptStale
<1>2. proposals[r.p].rows \in Seq(Suggestions)
  <2>1. proposals[r.p] \in Proposal
    BY <1>1 DEF IInv, TypeOK
  <2> QED
    BY <2>1 DEF Proposal
<1>3. none \in Seq(SUBSET IntentKey) /\ Keys(none) = {} /\ "stale" \in Statuses
  BY <1>2, KeysNone DEF Statuses
<1>4. Resolve(r.p, "stale", none) /\ Accept(q, NotAccepting)
      /\ UNCHANGED <<version, asking, intents, intentRows, nextIntent, shared>>
  BY DEF AcceptStale
<1> HIDE DEF none
<1>5. /\ proposals' \in Seq(Proposal) /\ DOMAIN proposals' = DOMAIN proposals
      /\ \A o \in DOMAIN proposals : \/ Keys(proposals'[o].outcomes) = {}
                                     \/ Keys(proposals'[o].outcomes) \subseteq Keys(proposals[o].outcomes)
  BY <1>0, <1>1, <1>3, <1>4, ResolveSets
<1>6. /\ accepting' \in [Approvers -> AcceptRecord] /\ accepting'[q] = NotAccepting
      /\ \A o \in Approvers : o # q => accepting'[o] = accepting[o]
  BY <1>0, <1>4, IdleHoldsNothing, AcceptSets
<1>7. TypeOK'
  BY <1>0, <1>4, <1>5, <1>6, IdleHoldsNothing DEF TypeOK
<1>8. r.waits = {}
  BY DEF IInv, TypeOK, AcceptStale
<1>9. \A o \in Approvers :
          /\ accepting'[o].held \subseteq accepting[o].held
          /\ accepting'[o].waits = accepting[o].waits
          /\ accepting'[o].waits \subseteq accepting'[o].held
          /\ Keys(accepting'[o].outcomes) \subseteq Keys(accepting[o].outcomes) \cap KeysIn(accepting'[o].held)
  BY <1>6, <1>8, IdleHoldsNothing DEF IInv, RowsAreWritten, WaitingAreHeld
<1> QED
  BY <1>4, <1>5, <1>7, <1>9, QuietSteps

\* A row is given an object: the one that has its key, which is then given twice, or a new one.
LEMMA GivenHolds ==
    ASSUME IInv, TypeOK', NEW q \in Approvers, NEW key \in IntentKey, NEW object, object.key = key,
           accepting[q].waits = {},
           accepting'[q].held = accepting[q].held \cup {object}, accepting'[q].waits = {object},
           accepting'[q].outcomes = accepting[q].outcomes,
           \A o \in Approvers : o # q => accepting'[o] = accepting[o],
           UNCHANGED <<proposals, intentRows>>, shared \subseteq shared',
           key \in shared' \/ key \notin KeysIn(intents),
           \A j \in intents : \E i \in intents' : Object(i) = Object(j) /\ i.key = j.key,
           \A i \in intents' : \/ \E j \in intents : Object(i) = Object(j) /\ i.key = j.key
                               \/ Object(i) = object,
           \E i \in intents' : Object(i) = object
    PROVE  IInv'
<1> USE DEF IInv
<1>1. KeysIn(accepting'[q].held) = KeysIn(accepting[q].held) \cup {key}
  BY DEF KeysIn
<1>2. RowsAreWritten'
  BY <1>1 DEF RowsAreWritten
<1>3. WaitingAreHeld'
  <2>1. \A o \in Approvers : accepting'[o].waits \subseteq accepting'[o].held
    BY DEF WaitingAreHeld
  <2>2. ASSUME NEW i \in intents', i.key \notin intentRows
        PROVE  \E o \in Approvers : Object(i) \in accepting'[o].waits
    <3>1. CASE Object(i) = object
      BY <3>1
    <3>2. CASE \E j \in intents : Object(i) = Object(j) /\ i.key = j.key
      <4>1. PICK j \in intents : Object(i) = Object(j) /\ i.key = j.key
        BY <3>2
      <4>2. PICK o \in Approvers : Object(j) \in accepting[o].waits
        BY <2>2, <4>1 DEF WaitingAreHeld
      <4>3. o # q
        BY <4>2
      <4> QED
        BY <4>1, <4>2, <4>3
    <3> QED
      BY <3>1, <3>2
  <2> QED
    BY <2>1, <2>2 DEF WaitingAreHeld
<1>4. HeldAreThere'
  <2>1. ASSUME NEW o \in Approvers, NEW h \in accepting'[o].held, h.key \notin shared'
        PROVE  \E i \in intents' : Object(i) = h
    <3>1. CASE h = object
      BY <3>1
    <3>2. CASE h # object
      <4>1. h \in accepting[o].held /\ h.key \notin shared
        BY <2>1, <3>2
      <4>2. PICK j \in intents : Object(j) = h
        BY <4>1 DEF HeldAreThere
      <4> QED
        BY <4>2
    <3> QED
      BY <3>1, <3>2
  <2> QED
    BY <2>1 DEF HeldAreThere
\* Somebody who holds the key, or a proposal that reports it, has it in memory.
<1>5. ASSUME NEW o \in Approvers, key \in KeysIn(accepting[o].held)
      PROVE  key \in shared'
  <2>1. PICK h \in accepting[o].held : h.key = key
    BY <1>5 DEF KeysIn
  <2>2. CASE key \notin shared
    <3>1. PICK j \in intents : Object(j) = h
      BY <2>1, <2>2 DEF HeldAreThere
    <3>2. j.key = key
      BY <2>1, <3>1 DEF Object
    <3> QED
      BY <3>2 DEF KeysIn
  <2> QED
    BY <2>2
<1>6. HeldOnce'
  <2>1. \A o, s \in Approvers : o # s /\ o # q /\ s # q =>
            KeysIn(accepting'[o].held) \cap KeysIn(accepting'[s].held) \subseteq shared'
    BY DEF HeldOnce
  <2>2. \A o \in Approvers : o # q =>
            KeysIn(accepting'[o].held) \cap KeysIn(accepting'[q].held) \subseteq shared'
    BY <1>1, <1>5 DEF HeldOnce
  <2> QED
    BY <2>1, <2>2 DEF HeldOnce
<1>7. ReportedAreLeft'
  <2>1. ASSUME NEW p \in DOMAIN proposals, NEW k \in Keys(proposals[p].outcomes), k \notin shared'
        PROVE  k \in KeysIn(intents') /\ \A o \in Approvers : k \notin KeysIn(accepting'[o].held)
    <3>1. k \in KeysIn(intents) /\ \A o \in Approvers : k \notin KeysIn(accepting[o].held)
      BY <2>1 DEF ReportedAreLeft
    <3>2. k # key
      BY <2>1, <3>1
    <3>3. k \in KeysIn(intents')
      BY <3>1 DEF KeysIn
    <3> QED
      BY <1>1, <3>1, <3>2, <3>3
  <2> QED
    BY <2>1 DEF ReportedAreLeft
<1> QED
  BY <1>2, <1>3, <1>4, <1>6, <1>7

\* A row of an accept is refused, skipped or queued.
LEMMA AcceptRowHolds ==
    ASSUME IInv, NEW q \in Approvers, AcceptRow(q)
    PROVE  IInv'
<1> DEFINE r == accepting[q]
<1> DEFINE suggested == Head(r.left)
<1> DEFINE base == proposals[r.p].base
<1> DEFINE rest == [r EXCEPT !.left = Tail(@)]
<1> DEFINE key == KeyOf(suggested, base)
<1>0. TypeOK
  BY DEF IInv
<1>1. r \in AcceptRecord /\ r.at = "rows" /\ r.left # <<>> /\ r.waits = {} /\ r.p \in DOMAIN proposals
  BY <1>0 DEF TypeOK, AcceptRow
<1>2. suggested \in Suggestions /\ Tail(r.left) \in Seq(Suggestions) /\ base \in Nat
  <2>1. proposals[r.p] \in Proposal
    BY <1>0, <1>1 DEF TypeOK
  <2>2. r.left \in Seq(Suggestions)
    BY <1>1 DEF AcceptRecord
  <2> QED
    BY <1>1, <2>1, <2>2 DEF Proposal
<1>3. /\ rest \in AcceptRecord /\ rest.outcomes = r.outcomes /\ rest.waits = {} /\ rest.held = r.held
      /\ rest.at = "rows" /\ rest.p = r.p
  BY <1>1, <1>2 DEF AcceptRecord
<1>4. key \in IntentKey
  BY <1>2 DEF KeyOf, Suggestions, IntentKey
<1>5. Keys(r.outcomes) \subseteq KeysIn(r.held)
  BY DEF IInv, RowsAreWritten
<1>6. UNCHANGED <<version, asking, proposals, intentRows>>
  BY DEF AcceptRow
<1>7. CASE Accept(q, NotAccepting) /\ UNCHANGED <<intents, nextIntent, shared>>
  <2>1. NotAccepting.held \subseteq r.held /\ NotAccepting.waits = r.waits
    BY <1>1, IdleHoldsNothing
  <2> HIDE DEF rest, r
  <2> QED
    BY <1>6, <1>7, <2>1, IdleHoldsNothing, AcceptHolds DEF r
<1>8. CASE /\ Accept(q, [rest EXCEPT !.outcomes = Append(@, NotQueued)])
           /\ UNCHANGED <<intents, nextIntent, shared>>
  <2> DEFINE skipped == [rest EXCEPT !.outcomes = Append(@, NotQueued)]
  <2>1. /\ Append(rest.outcomes, NotQueued) \in Seq(SUBSET IntentKey)
        /\ Keys(Append(rest.outcomes, NotQueued)) = Keys(rest.outcomes)
    <3>1. rest.outcomes \in Seq(SUBSET IntentKey) /\ NotQueued \in SUBSET IntentKey /\ NotQueued = {}
      BY <1>3 DEF AcceptRecord, NotQueued
    <3> HIDE DEF rest
    <3> QED
      BY <3>1, KeysAppend
  <2> HIDE DEF rest
  <2>2. /\ skipped \in AcceptRecord /\ skipped.waits = {} /\ skipped.held = r.held
        /\ skipped.at = "rows" /\ skipped.p = r.p
        /\ Keys(skipped.outcomes) = Keys(r.outcomes)
    BY <1>3, <2>1 DEF AcceptRecord
  <2>3. Accept(q, skipped)
    BY <1>8
  <2> HIDE DEF skipped, r
  <2> QED
    BY <1>1, <1>5, <1>6, <1>8, <2>2, <2>3, AcceptHolds DEF r
\* What both ways of giving an object do to the request.
<1>9. ASSUME NEW object \in Objects, object.key = key, Gives(q, rest, object)
      PROVE  /\ accepting' \in [Approvers -> AcceptRecord]
             /\ accepting'[q].held = r.held \cup {object} /\ accepting'[q].waits = {object}
             /\ accepting'[q].outcomes = r.outcomes /\ accepting'[q].at = "rows" /\ accepting'[q].p = r.p
             /\ \A o \in Approvers : o # q => accepting'[o] = accepting[o]
  <2> DEFINE given == [rest EXCEPT !.held = @ \cup {object}, !.waits = {object}]
  <2> HIDE DEF rest
  <2>1. /\ given \in AcceptRecord /\ given.held = r.held \cup {object} /\ given.waits = {object}
        /\ given.outcomes = r.outcomes /\ given.at = "rows" /\ given.p = r.p
    BY <1>3 DEF AcceptRecord
  <2>2. Accept(q, given)
    BY <1>9 DEF Gives
  <2> HIDE DEF given, r
  <2> QED
    BY <1>0, <2>1, <2>2, AcceptSets
<1> HIDE DEF rest, key, suggested, base
<1>10. CASE EnqueueKnown(q, rest, key)
  <2>1. PICK i \in intents : i.key = key /\ Gives(q, rest, Object(i))
    BY <1>10 DEF EnqueueKnown
  <2>2. Object(i) \in Objects /\ Object(i).key = key
    BY <1>0, <2>1 DEF TypeOK, Intent, Objects, Object
  <2>3. intents' = Cancelled(key.cell) /\ shared' = shared \cup {key} /\ nextIntent' = nextIntent
    BY <1>10 DEF EnqueueKnown
  <2>4. /\ accepting' \in [Approvers -> AcceptRecord]
        /\ accepting'[q].held = r.held \cup {Object(i)} /\ accepting'[q].waits = {Object(i)}
        /\ accepting'[q].outcomes = r.outcomes /\ accepting'[q].at = "rows" /\ accepting'[q].p = r.p
        /\ \A o \in Approvers : o # q => accepting'[o] = accepting[o]
    BY <1>9, <2>1, <2>2
  <2>5. /\ intents' \subseteq Intent
        /\ \A x \in intents' : \E j \in intents : Object(x) = Object(j) /\ x.key = j.key
        /\ \A j \in intents : \E x \in intents' : Object(x) = Object(j) /\ x.key = j.key
    BY <1>0, <2>3, CancelKeepsObjects
  <2>6. TypeOK'
    BY <1>0, <1>1, <1>6, <2>3, <2>4, <2>5 DEF TypeOK
  <2> DEFINE object == Object(i)
  <2>7. object.key = key /\ \E x \in intents' : Object(x) = object
    BY <2>1, <2>2, <2>5
  <2>8. accepting'[q].held = r.held \cup {object} /\ accepting'[q].waits = {object}
    BY <2>4
  <2> HIDE DEF object
  <2> QED
    BY <1>1, <1>4, <1>6, <2>3, <2>4, <2>5, <2>6, <2>7, <2>8, GivenHolds
<1>11. CASE EnqueueNew(q, rest, key)
  <2> DEFINE object == [id |-> nextIntent, key |-> key]
  <2> DEFINE new == [id |-> nextIntent, key |-> key, status |-> "queued"]
  <2>1. object \in Objects /\ object.key = key /\ new \in Intent /\ Object(new) = object
        /\ nextIntent + 1 \in Nat
    BY <1>0, <1>4 DEF TypeOK, Intent, Objects, Object
  <2>2. /\ key \notin KeysIn(intents) /\ Gives(q, rest, object)
        /\ intents' = Cancelled(key.cell) \cup {new} /\ nextIntent' = nextIntent + 1 /\ shared' = shared
    BY <1>11 DEF EnqueueNew
  <2> HIDE DEF object, new
  <2>4. /\ accepting' \in [Approvers -> AcceptRecord]
        /\ accepting'[q].held = r.held \cup {object} /\ accepting'[q].waits = {object}
        /\ accepting'[q].outcomes = r.outcomes /\ accepting'[q].at = "rows" /\ accepting'[q].p = r.p
        /\ \A o \in Approvers : o # q => accepting'[o] = accepting[o]
    BY <1>9, <2>1, <2>2
  <2>5. /\ Cancelled(key.cell) \subseteq Intent
        /\ \A x \in Cancelled(key.cell) : \E j \in intents : Object(x) = Object(j) /\ x.key = j.key
        /\ \A j \in intents : \E x \in Cancelled(key.cell) : Object(x) = Object(j) /\ x.key = j.key
    BY <1>0, CancelKeepsObjects
  <2>6. /\ intents' \subseteq Intent
        /\ \A x \in intents' : \/ \E j \in intents : Object(x) = Object(j) /\ x.key = j.key
                               \/ Object(x) = object
        /\ \A j \in intents : \E x \in intents' : Object(x) = Object(j) /\ x.key = j.key
        /\ \E x \in intents' : Object(x) = object
    BY <2>1, <2>2, <2>5
  <2>7. TypeOK'
    BY <1>0, <1>1, <1>6, <2>1, <2>2, <2>4, <2>6 DEF TypeOK
  <2> QED
    BY <1>1, <1>4, <1>6, <2>1, <2>2, <2>4, <2>6, <2>7, GivenHolds
<1> QED
  BY <1>7, <1>8, <1>10, <1>11 DEF AcceptRow, rest, key, suggested, base

\* The statement of the intent that waits succeeds.
LEMMA PersistIntentHolds ==
    ASSUME IInv, NEW q \in Approvers, PersistIntent(q)
    PROVE  IInv'
<1> USE DEF IInv
<1> DEFINE r == accepting[q]
<1> DEFINE new == [r EXCEPT !.outcomes = Append(@, KeysIn(r.waits)), !.waits = {}]
<1>1. r \in AcceptRecord /\ r.at = "rows"
  BY DEF TypeOK, PersistIntent
<1>2. KeysIn(r.waits) \in SUBSET IntentKey /\ KeysIn(r.waits) \subseteq KeysIn(r.held)
  BY <1>1 DEF KeysIn, AcceptRecord, Objects, WaitingAreHeld
<1>3. /\ Append(r.outcomes, KeysIn(r.waits)) \in Seq(SUBSET IntentKey)
      /\ Keys(Append(r.outcomes, KeysIn(r.waits))) = Keys(r.outcomes) \cup KeysIn(r.waits)
  <2>1. r.outcomes \in Seq(SUBSET IntentKey)
    BY <1>1 DEF AcceptRecord
  <2> QED
    BY <1>2, <2>1, KeysAppend
<1>4. /\ new \in AcceptRecord /\ new.waits = {} /\ new.held = r.held /\ new.at = r.at /\ new.p = r.p
      /\ Keys(new.outcomes) = Keys(r.outcomes) \cup KeysIn(r.waits)
  BY <1>1, <1>3 DEF AcceptRecord
<1>5. Accept(q, new) /\ intentRows' = intentRows \cup KeysIn(r.waits)
      /\ UNCHANGED <<version, asking, proposals, intents, nextIntent, shared>>
  BY DEF PersistIntent
<1> HIDE DEF new
<1>6. /\ accepting' \in [Approvers -> AcceptRecord] /\ accepting'[q] = new
      /\ \A o \in Approvers : o # q => accepting'[o] = accepting[o]
  BY <1>4, <1>5, AcceptSets
<1>7. \A o \in Approvers : accepting'[o].held = accepting[o].held
  BY <1>4, <1>6
<1>8. TypeOK'
  BY <1>1, <1>4, <1>5, <1>6 DEF TypeOK
<1>9. RowsAreWritten'
  <2>1. \A o \in Approvers : Keys(accepting'[o].outcomes) \subseteq intentRows' \cap KeysIn(accepting'[o].held)
    BY <1>2, <1>4, <1>5, <1>6 DEF RowsAreWritten
  <2> QED
    BY <1>5, <2>1 DEF RowsAreWritten
<1>10. WaitingAreHeld'
  <2>1. ASSUME NEW i \in intents, i.key \notin intentRows'
        PROVE  \E o \in Approvers : Object(i) \in accepting'[o].waits
    <3>1. PICK o \in Approvers : Object(i) \in accepting[o].waits
      BY <1>5, <2>1 DEF WaitingAreHeld
    <3>2. Object(i).key = i.key
      BY DEF Object
    <3>3. o # q
      BY <1>5, <2>1, <3>1, <3>2 DEF KeysIn
    <3> QED
      BY <1>6, <3>1, <3>3
  <2>2. \A o \in Approvers : accepting'[o].waits \subseteq accepting'[o].held
    BY <1>4, <1>6 DEF WaitingAreHeld
  <2> QED
    BY <1>5, <2>1, <2>2 DEF WaitingAreHeld
<1>11. HeldAreThere' /\ HeldOnce' /\ ReportedAreLeft'
  BY <1>5, <1>7 DEF HeldAreThere, HeldOnce, ReportedAreLeft
<1> QED
  BY <1>8, <1>9, <1>10, <1>11

\* The statement fails: what this accept holds leaves the memory, and nothing else does.
LEMMA PersistFailsHolds ==
    ASSUME IInv, NEW q \in Approvers, PersistFails(q)
    PROVE  IInv'
<1> USE DEF IInv
<1> DEFINE mine == accepting[q].held
<1>1. /\ intents' = {i \in intents : Object(i) \notin mine} /\ intentRows \subseteq intentRows'
      /\ UNCHANGED <<version, asking, proposals, nextIntent, shared>>
  BY DEF PersistFails, RolledBack
<1>2. /\ accepting' \in [Approvers -> AcceptRecord] /\ accepting'[q] = NotAccepting
      /\ \A o \in Approvers : o # q => accepting'[o] = accepting[o]
  BY IdleHoldsNothing, AcceptSets DEF PersistFails
<1>3. \A k \in IntentKey : \A h \in mine : h.key = k => k \in KeysIn(mine)
  BY DEF KeysIn
<1>4. TypeOK'
  BY <1>1, <1>2, IdleHoldsNothing DEF TypeOK
<1>5. RowsAreWritten'
  <2>1. \A o \in Approvers : Keys(accepting'[o].outcomes) \subseteq intentRows \cap KeysIn(accepting'[o].held)
    BY <1>2, IdleHoldsNothing DEF RowsAreWritten
  <2> QED
    BY <1>1, <2>1 DEF RowsAreWritten
<1>6. WaitingAreHeld'
  <2>1. ASSUME NEW i \in intents', i.key \notin intentRows'
        PROVE  \E o \in Approvers : Object(i) \in accepting'[o].waits
    <3>1. PICK o \in Approvers : Object(i) \in accepting[o].waits
      BY <1>1, <2>1 DEF WaitingAreHeld
    <3>2. o # q
      BY <1>1, <3>1 DEF WaitingAreHeld
    <3> QED
      BY <1>2, <3>1, <3>2
  <2>2. \A o \in Approvers : accepting'[o].waits \subseteq accepting'[o].held
    BY <1>2, IdleHoldsNothing DEF WaitingAreHeld
  <2> QED
    BY <2>1, <2>2 DEF WaitingAreHeld
<1>7. HeldAreThere'
  <2>1. ASSUME NEW o \in Approvers, NEW h \in accepting'[o].held, h.key \notin shared
        PROVE  \E i \in intents' : Object(i) = h
    <3>1. o # q /\ h \in accepting[o].held
      BY <1>2, <2>1, IdleHoldsNothing
    <3>2. PICK i \in intents : Object(i) = h
      BY <2>1, <3>1 DEF HeldAreThere
    <3>3. h \notin mine
      <4>1. h.key \in KeysIn(accepting[o].held) /\ (h \in mine => h.key \in KeysIn(mine))
        BY <3>1 DEF KeysIn
      <4> QED
        BY <2>1, <3>1, <4>1 DEF HeldOnce
    <3> QED
      BY <1>1, <3>2, <3>3
  <2> QED
    BY <1>1, <2>1 DEF HeldAreThere
<1>8. HeldOnce'
  <2>1. \A o \in Approvers : KeysIn(accepting'[o].held) \subseteq KeysIn(accepting[o].held)
    BY <1>2, IdleHoldsNothing
  <2> QED
    BY <1>1, <2>1 DEF HeldOnce
<1>9. ReportedAreLeft'
  <2>1. ASSUME NEW p \in DOMAIN proposals, NEW k \in Keys(proposals[p].outcomes), k \notin shared
        PROVE  k \in KeysIn(intents') /\ \A o \in Approvers : k \notin KeysIn(accepting'[o].held)
    <3>1. k \in KeysIn(intents) /\ \A o \in Approvers : k \notin KeysIn(accepting[o].held)
      BY <2>1 DEF ReportedAreLeft
    <3>2. PICK i \in intents : i.key = k
      BY <3>1 DEF KeysIn
    <3>3. Object(i) \notin mine
      BY <3>1, <3>2 DEF KeysIn, Object
    <3>4. k \in KeysIn(intents')
      BY <1>1, <3>2, <3>3 DEF KeysIn
    <3> QED
      BY <1>2, <3>1, <3>4, IdleHoldsNothing
  <2> QED
    BY <1>1, <2>1 DEF ReportedAreLeft
<1> QED
  BY <1>4, <1>5, <1>6, <1>7, <1>8, <1>9

\* An accept ends: its proposal reports what it held, and it holds nothing any more.
LEMMA EndAcceptHolds ==
    ASSUME IInv, NEW q \in Approvers, EndAccept(q)
    PROVE  IInv'
<1> USE DEF IInv
<1> DEFINE r == accepting[q]
<1> DEFINE status == Outcome(r.outcomes)
<1>1. r \in AcceptRecord /\ r.waits = {} /\ r.p \in DOMAIN proposals /\ r.outcomes \in Seq(SUBSET IntentKey)
  BY DEF TypeOK, EndAccept, AcceptRecord
<1>2. status \in Statuses
  BY DEF Outcome, Statuses
<1>3. /\ Resolve(r.p, status, r.outcomes) /\ Accept(q, NotAccepting)
      /\ UNCHANGED <<version, asking, intents, intentRows, nextIntent, shared>>
  BY DEF EndAccept
<1> HIDE DEF status
<1>4. /\ proposals' \in Seq(Proposal) /\ DOMAIN proposals' = DOMAIN proposals
      /\ proposals'[r.p].outcomes = r.outcomes
      /\ \A o \in DOMAIN proposals : o # r.p => proposals'[o] = proposals[o]
  <2> HIDE DEF r
  <2> QED
    BY <1>1, <1>2, <1>3, ResolveSets
<1>5. /\ accepting' \in [Approvers -> AcceptRecord] /\ accepting'[q] = NotAccepting
      /\ \A o \in Approvers : o # q => accepting'[o] = accepting[o]
  BY <1>3, IdleHoldsNothing, AcceptSets
<1>6. \A o \in Approvers :
          /\ KeysIn(accepting'[o].held) \subseteq KeysIn(accepting[o].held)
          /\ accepting'[o].held \subseteq accepting[o].held
          /\ accepting'[o].waits = accepting[o].waits
  BY <1>1, <1>5, IdleHoldsNothing
<1>7. TypeOK'
  BY <1>3, <1>4, <1>5, IdleHoldsNothing DEF TypeOK
<1>8. RowsAreWritten'
  <2>1. \A o \in Approvers : Keys(accepting'[o].outcomes) \subseteq intentRows \cap KeysIn(accepting'[o].held)
    BY <1>5, IdleHoldsNothing DEF RowsAreWritten
  <2> QED
    BY <1>3, <1>4, <2>1 DEF RowsAreWritten
<1>9. WaitingAreHeld'
  <2>1. \A o \in Approvers : accepting'[o].waits \subseteq accepting'[o].held
    BY <1>5, IdleHoldsNothing DEF WaitingAreHeld
  <2> QED
    BY <1>3, <1>6, <2>1 DEF WaitingAreHeld
<1>10. HeldAreThere'
  BY <1>3, <1>6 DEF HeldAreThere
<1>11. HeldOnce'
  BY <1>3, <1>6 DEF HeldOnce
<1>12. ReportedAreLeft'
  <2>1. ASSUME NEW k \in Keys(r.outcomes), k \notin shared
        PROVE  k \in KeysIn(intents) /\ \A o \in Approvers : k \notin KeysIn(accepting'[o].held)
    <3>1. k \in KeysIn(r.held)
      BY <2>1 DEF RowsAreWritten
    <3>2. k \in KeysIn(intents)
      <4>1. PICK h \in r.held : h.key = k
        BY <3>1 DEF KeysIn
      <4>2. PICK i \in intents : Object(i) = h
        BY <2>1, <4>1 DEF HeldAreThere
      <4> QED
        BY <4>1, <4>2 DEF Object, KeysIn
    <3>3. \A o \in Approvers : o # q => k \notin KeysIn(accepting[o].held)
      BY <2>1, <3>1 DEF HeldOnce
    <3> QED
      BY <1>5, <3>2, <3>3, IdleHoldsNothing
  <2>2. ASSUME NEW p \in DOMAIN proposals, p # r.p, NEW k \in Keys(proposals'[p].outcomes), k \notin shared
        PROVE  k \in KeysIn(intents) /\ \A o \in Approvers : k \notin KeysIn(accepting'[o].held)
    BY <1>4, <1>6, <2>2 DEF ReportedAreLeft
  <2> QED
    BY <1>3, <1>4, <2>1, <2>2 DEF ReportedAreLeft
<1> QED
  BY <1>7, <1>8, <1>9, <1>10, <1>11, <1>12

\* An approved schedule makes tasks, and is applied or stays pending.
LEMMA ApproveScheduleHolds ==
    ASSUME IInv, NEW p \in DOMAIN proposals, NEW mine \in Scopes, ApproveSchedule(p, mine)
    PROVE  IInv'
<1>1. UNCHANGED <<version, asking, accepting, intents, intentRows, nextIntent, shared>>
  BY DEF ApproveSchedule
<1>2. CASE Resolve(p, "applied", <<>>)
  <2>1. "applied" \in Statuses
    BY DEF Statuses
  <2> QED
    BY <1>1, <1>2, <2>1, KeysEmpty, ResolveHolds
<1>3. CASE UNCHANGED proposals
  BY <1>1, <1>3
  DEF IInv, TypeOK, RowsAreWritten, WaitingAreHeld, HeldAreThere, HeldOnce, ReportedAreLeft
<1> QED
  BY <1>2, <1>3 DEF ApproveSchedule

LEMMA StepHolds ==
    ASSUME IInv, [ProposalsNext]_proposalVars
    PROVE  IInv'
<1>0. \A q \in Approvers : Keys(accepting[q].outcomes) \subseteq KeysIn(accepting[q].held)
                           /\ accepting[q].waits \subseteq accepting[q].held
  BY DEF IInv, RowsAreWritten, WaitingAreHeld
<1>1. CASE Ask \/ NewVersion
  <2>1. asking' \in Nat /\ version' \in Nat
        /\ UNCHANGED <<proposals, accepting, intents, intentRows, nextIntent, shared>>
    BY <1>1 DEF Ask, NewVersion, IInv, TypeOK
  <2>2. TypeOK'
    BY <2>1 DEF IInv, TypeOK
  <2> QED
    BY <1>0, <2>1, <2>2, QuietSteps
<1>2. ASSUME NEW kind \in {"pricing", "schedule"}, NEW shown \in Selections, Suggest(kind, shown)
      PROVE  IInv'
  BY <1>2, SuggestHolds
<1>3. ASSUME NEW p \in DOMAIN proposals, Dismiss(p)
      PROVE  IInv'
  <2>1. proposals[p].outcomes \in Seq(SUBSET IntentKey) /\ "dismissed" \in Statuses
    <3>1. proposals[p] \in Proposal
      BY DEF IInv, TypeOK
    <3> QED
      BY <3>1 DEF Proposal, Statuses
  <2> QED
    BY <1>3, <2>1, ResolveHolds DEF Dismiss
<1>4. ASSUME NEW p \in DOMAIN proposals, AcceptLocal(p)
      PROVE  IInv'
  <2>1. "accepted_local" \in Statuses
    BY DEF Statuses
  <2> QED
    BY <1>4, <2>1, KeysEmpty, ResolveHolds DEF AcceptLocal
<1>5. ASSUME NEW q \in Approvers, NEW p \in DOMAIN proposals, NEW mine \in Scopes,
             StartAccept(q, p, mine)
      PROVE  IInv'
  BY <1>5, StartAcceptHolds
<1>6. ASSUME NEW p \in DOMAIN proposals, NEW mine \in Scopes, ApproveSchedule(p, mine)
      PROVE  IInv'
  BY <1>6, ApproveScheduleHolds
<1>7. ASSUME NEW q \in Approvers, AcceptStale(q) \/ AcceptFresh(q)
      PROVE  IInv'
  BY <1>7, AcceptStaleHolds, AcceptFreshHolds
<1>8. ASSUME NEW q \in Approvers, AcceptRow(q)
      PROVE  IInv'
  BY <1>8, AcceptRowHolds
<1>9. ASSUME NEW q \in Approvers, PersistIntent(q)
      PROVE  IInv'
  BY <1>9, PersistIntentHolds
<1>10. ASSUME NEW q \in Approvers, PersistFails(q)
       PROVE  IInv'
  BY <1>10, PersistFailsHolds
<1>11. ASSUME NEW q \in Approvers, EndAccept(q)
       PROVE  IInv'
  BY <1>11, EndAcceptHolds
<1>12. CASE UNCHANGED proposalVars
  BY <1>12
  DEF proposalVars, IInv, TypeOK, RowsAreWritten, WaitingAreHeld, HeldAreThere, HeldOnce, ReportedAreLeft
<1> QED
  BY <1>1, <1>2, <1>3, <1>4, <1>5, <1>6, <1>7, <1>8, <1>9, <1>10, <1>11, <1>12
  DEF ProposalsNext

-----------------------------------------------------------------------------
(* The theorem.                                                            *)

LEMMA Invariant == ProposalsSpec => []IInv
BY InitHolds, StepHolds, PTL DEF ProposalsSpec

\* A proposal that reports a row as queued names an intent that is in PG, and in memory as well
\* unless its key was given to a second row; an intent of memory that is not in PG belongs to an
\* accept that waits for its statement (persistIntentIfNeeded in ai-pricing.ts): for any number
\* of approvers of the same proposals, any statement that fails, committed or not.
THEOREM QueuedStaysDurable == ProposalsSpec => []QueuedIsDurable
<1>1. ASSUME IInv, NEW p \in DOMAIN proposals
      PROVE  /\ Keys(proposals[p].outcomes) \subseteq intentRows
             /\ Keys(proposals[p].outcomes) \subseteq shared \cup KeysIn(intents)
  BY <1>1 DEF IInv, RowsAreWritten, ReportedAreLeft
<1>2. IInv => QueuedIsDurable
  BY <1>1 DEF IInv, WaitingAreHeld, QueuedIsDurable
<1> QED
  BY <1>2, Invariant, PTL

-----------------------------------------------------------------------------
(* Physical rooms: an import ends with the counts.                         *)
(*                                                                         *)
(* The invariant is that the rows in memory, in PG and under way are rows; *)
(* the weight is in the algorithm.  Reconciling settles a type whatever    *)
(* rows it finds, and keeps the rows of the others, so by induction over   *)
(* the types the last one leaves them all settled.                         *)

RoomRow == [id : Nat, type : TypeSet, slot : Nat, label : Nat \cup Names, archived : BOOLEAN]
RoomTypeOK ==
    /\ roomCounts \in [TypeSet -> 0..MaxCount]
    /\ rooms \in Seq(RoomRow) /\ nextRoom \in Nat
    /\ table \subseteq RoomRow /\ IsFiniteSet(table) /\ nextRow \in Nat
    /\ saver \in [Savers -> [todo : Seq(RoomRow), attached : BOOLEAN]]

\* What "counts win" asks of one type in a list of rows, when count is its count: a slot
\* has one row, an active one up to the count, and no active one above it without stays.
Settled(all, t, count) ==
    /\ \A i, j \in OfType(all, t) : all[i].slot = all[j].slot => i = j
    /\ \A n \in 1..count : \E i \in OfType(all, t) : all[i].slot = n /\ ~all[i].archived
    /\ roomStays = {} => \A i \in OfType(all, t) : all[i].slot > count => all[i].archived

-----------------------------------------------------------------------------
(* The k-th of a set.                                                      *)

\* A greater element has more below it, and there are fewer than the set has.
LEMMA RankGrows ==
    ASSUME NEW S \in SUBSET Nat, IsFiniteSet(S), NEW n \in S
    PROVE  /\ Cardinality({m \in S : m < n}) \in 0..(Cardinality(S) - 1)
           /\ \A l \in S : l < n =>
                Cardinality({m \in S : m < l}) < Cardinality({m \in S : m < n})
<1> DEFINE Below(x) == {m \in S : m < x}
<1>1. ASSUME NEW x \in S PROVE IsFiniteSet(Below(x)) /\ Cardinality(Below(x)) \in Nat
  BY FS_Subset, FS_CardinalityType
<1>2. Cardinality(Below(n)) < Cardinality(S)
  <2>1. Below(n) \in SUBSET S /\ Below(n) # S
    OBVIOUS
  <2> QED
    BY <1>1, <2>1, FS_Subset, FS_CardinalityType
<1>3. ASSUME NEW l \in S, l < n PROVE Cardinality(Below(l)) < Cardinality(Below(n))
  <2>1. \A x \in S : x \in Nat
    OBVIOUS
  <2>2. \A x \in S : x < l => x < n
    BY <1>3, <2>1
  <2>3. Below(l) \in SUBSET Below(n) /\ l \in Below(n) /\ l \notin Below(l)
    <3>1. ~(l < l)
      BY <2>1
    <3>2. Below(l) \in SUBSET Below(n)
      BY <2>2
    <3> QED
      BY <1>3, <3>1, <3>2
  <2>4. IsFiniteSet(Below(n)) /\ Cardinality(Below(n)) \in Nat /\ Cardinality(Below(l)) \in Nat
    BY <1>1
  <2> HIDE DEF Below
  <2>5. /\ Cardinality(Below(l)) <= Cardinality(Below(n))
        /\ Cardinality(Below(l)) # Cardinality(Below(n))
    BY <2>3, <2>4, FS_Subset
  <2> QED
    BY <2>4, <2>5
<1> QED
  BY <1>1, <1>2, <1>3, FS_CardinalityType

\* Below the k-th element of a set there are k - 1, and it is the only such element.
LEMMA NthIn ==
    ASSUME NEW S \in SUBSET Nat, IsFiniteSet(S), NEW k \in 1..Cardinality(S)
    PROVE  Nth(S, k) \in S /\ Cardinality({m \in S : m < Nth(S, k)}) = k - 1
<1> DEFINE Rank(n) == Cardinality({m \in S : m < n})
           size == Cardinality(S)
           Ranks == 0..(size - 1)
<1>1. size \in Nat /\ k \in 1..size
  BY FS_CardinalityType
<1>2. \A n \in S : Rank(n) \in Ranks
  BY RankGrows
<1>3. \A l, n \in S : l # n => Rank(l) # Rank(n)
  <2>1. \A l, n \in S : l < n => Rank(l) < Rank(n)
    BY RankGrows
  <2>2. \A l, n \in S : Rank(l) \in Int /\ Rank(n) \in Int /\ l \in Nat /\ n \in Nat
    BY <1>1, <1>2
  <2> HIDE DEF Rank
  <2> QED
    BY <2>1, <2>2
<1>4. \E n \in S : Rank(n) = k - 1
  <2> SUFFICES ASSUME \A n \in S : Rank(n) # k - 1 PROVE FALSE
    OBVIOUS
  <2> DEFINE f == [n \in S |-> Rank(n)]
             Rest == Ranks \ {k - 1}
  <2> HIDE DEF size
  <2>1. IsFiniteSet(Ranks) /\ Cardinality(Ranks) = size
    <3>1. 0 \in Int /\ size - 1 \in Int
      BY <1>1
    <3>2. /\ IsFiniteSet(0..(size - 1))
          /\ Cardinality(0..(size - 1)) = IF 0 > size - 1 THEN 0 ELSE (size - 1) - 0 + 1
      BY ONLY <3>1, FS_Interval
    <3> QED
      BY <1>1, <3>2
  <2>2. IsFiniteSet(Rest) /\ Cardinality(Rest) = size - 1
    <3>1. k - 1 \in Ranks
      BY <1>1
    <3> HIDE DEF Ranks
    <3> QED
      BY <1>1, <2>1, <3>1, FS_RemoveElement
  <2>3. f \in [S -> Rest]
    BY <1>2
  <2>4. \E x, y \in S : x # y /\ f[x] = f[y]
    <3>1. Cardinality(Rest) < Cardinality(S)
      BY <1>1, <2>2 DEF size
    <3> HIDE DEF f, Rest
    <3> QED
      BY <2>2, <2>3, <3>1, FS_PigeonHole, Zenon
  <2> QED
    BY <1>3, <2>4
<1> QED
  BY <1>4 DEF Nth

\* The first is the least.
LEMMA FirstIsLeast ==
    ASSUME NEW S \in SUBSET Nat, IsFiniteSet(S), S # {}
    PROVE  Nth(S, 1) \in S /\ \A m \in S : Nth(S, 1) <= m
<1> DEFINE first == Nth(S, 1)
<1>1. 1 \in 1..Cardinality(S)
  BY FS_EmptySet, FS_CardinalityType
<1>2. first \in S /\ Cardinality({m \in S : m < first}) = 0
  <2>1. Nth(S, 1) \in S /\ Cardinality({m \in S : m < Nth(S, 1)}) = 1 - 1
    BY <1>1, NthIn
  <2> QED
    BY <2>1
<1>3. \A m \in S : ~(m < first)
  <2>1. IsFiniteSet({m \in S : m < first})
    <3>1. {m \in S : m < first} \in SUBSET S
      OBVIOUS
    <3> QED
      BY <3>1, FS_Subset
  <2>2. {m \in S : m < first} = {}
    BY <1>2, <2>1, FS_EmptySet
  <2> QED
    BY <2>2
<1> HIDE DEF first
<1>4. \A m \in S : first <= m
  BY <1>2, <1>3
<1> QED
  BY <1>2, <1>4 DEF first

\* Every element is the k-th for some k.
LEMMA NthIsAt ==
    ASSUME NEW S \in SUBSET Nat, IsFiniteSet(S), NEW n \in S
    PROVE  \E k \in 1..Cardinality(S) : Nth(S, k) = n
<1> DEFINE Rank(x) == Cardinality({m \in S : m < x})
           k == Rank(n) + 1
<1>1. Cardinality(S) \in Nat /\ Rank(n) \in 0..(Cardinality(S) - 1)
  BY RankGrows, FS_CardinalityType
<1>2. k \in 1..Cardinality(S)
  <2> HIDE DEF Rank
  <2> QED
    BY <1>1
<1>3. Nth(S, k) \in S /\ Rank(Nth(S, k)) = k - 1
  <2> HIDE DEF k
  <2> QED
    BY <1>2, NthIn
<1>4. \A l, x \in S : l < x => Rank(l) < Rank(x)
  BY RankGrows
<1>5. \A x \in S : x \in Nat /\ Rank(x) \in Int
  BY RankGrows
<1>6. Rank(Nth(S, k)) = Rank(n)
  BY <1>1, <1>3
<1>7. Nth(S, k) = n
  <2> HIDE DEF k, Rank
  <2> DEFINE x == Nth(S, k)
  <2>1. x \in S /\ x \in Nat /\ n \in Nat /\ Rank(x) \in Int
    BY <1>3, <1>5
  <2>2. Rank(x) = Rank(n)
    BY <1>6
  <2>3. ~(x < n) /\ ~(n < x)
    BY <1>4, <2>1, <2>2
  <2> QED
    BY <2>1, <2>3
<1> QED
  BY <1>2, <1>7

\* Two places of a set have two elements.
LEMMA NthDiffers ==
    ASSUME NEW S \in SUBSET Nat, IsFiniteSet(S),
           NEW k \in 1..Cardinality(S), NEW l \in 1..Cardinality(S), Nth(S, k) = Nth(S, l)
    PROVE  k = l
<1>1. Cardinality({m \in S : m < Nth(S, k)}) = k - 1 /\ Cardinality({m \in S : m < Nth(S, l)}) = l - 1
  BY NthIn
<1> QED
  BY <1>1


-----------------------------------------------------------------------------
(* Reconciling one type.                                                   *)

\* The rows at some places of a list are rows of the list, one at each place.
LEMMA AtPlaces ==
    ASSUME NEW all \in Seq(RoomRow), NEW places \in SUBSET DOMAIN all
    PROVE  /\ RowsAt(all, places) \in Seq(RoomRow)
           /\ \A k \in DOMAIN RowsAt(all, places) :
                Nth(places, k) \in places /\ RowsAt(all, places)[k] = all[Nth(places, k)]
           /\ \A k, l \in DOMAIN RowsAt(all, places) : Nth(places, k) = Nth(places, l) => k = l
           /\ \A i \in places : \E k \in DOMAIN RowsAt(all, places) : Nth(places, k) = i
<1> DEFINE size == Cardinality(places)
<1>1. DOMAIN all = 1..Len(all) /\ Len(all) \in Nat
  OBVIOUS
<1>2. IsFiniteSet(places) /\ size \in Nat /\ places \in SUBSET Nat
  <2>1. IsFiniteSet(1..Len(all))
    BY <1>1, FS_Interval
  <2> QED
    BY <1>1, <2>1, FS_Subset, FS_CardinalityType
<1>3. \A k \in 1..size : Nth(places, k) \in places
  BY <1>2, NthIn
<1>4. \A k, l \in 1..size : Nth(places, k) = Nth(places, l) => k = l
  BY <1>2, NthDiffers
<1>5. \A i \in places : \E k \in 1..size : Nth(places, k) = i
  BY <1>2, NthIsAt
<1>6. \A i \in places : all[i] \in RoomRow
  OBVIOUS
<1>7. /\ RowsAt(all, places) = [k \in 1..size |-> all[Nth(places, k)]]
      /\ DOMAIN RowsAt(all, places) = 1..size
  BY DEF RowsAt
<1> HIDE DEF size
<1>8. RowsAt(all, places) \in [1..size -> RoomRow]
  BY <1>3, <1>6, <1>7
<1>9. RowsAt(all, places) \in Seq(RoomRow)
  BY <1>2, <1>8
<1> QED
  BY <1>3, <1>4, <1>5, <1>7, <1>9

\* A slot that has a row has a first one.
LEMMA FirstOfSlot ==
    ASSUME NEW all \in Seq(RoomRow), NEW t, NEW slot \in SlotsIn(all, t)
    PROVE  FirstOf(all, t, slot) \in RoomRow /\ FirstOf(all, t, slot).type = t
           /\ FirstOf(all, t, slot).slot = slot
<1> DEFINE S == {i \in OfType(all, t) : all[i].slot = slot}
           first == Nth(S, 1)
<1>1. DOMAIN all = 1..Len(all) /\ Len(all) \in Nat
  OBVIOUS
<1>2. IsFiniteSet(S) /\ S \in SUBSET Nat
  <2>1. IsFiniteSet(1..Len(all)) /\ 1..Len(all) \in SUBSET Nat
    BY <1>1, FS_Interval
  <2>2. S \in SUBSET (1..Len(all))
    BY <1>1 DEF OfType
  <2> HIDE DEF S
  <2> QED
    BY <2>1, <2>2, FS_Subset
<1>3. S # {}
  BY DEF SlotsIn
<1>4. first \in S /\ \A m \in S : first <= m
  <2> HIDE DEF S
  <2> QED
    BY <1>2, <1>3, FirstIsLeast
<1>5. first \in OfType(all, t) /\ all[first].slot = slot
      /\ \A j \in OfType(all, t) : all[j].slot = slot => first <= j
  BY <1>4
<1>6. PICK i \in OfType(all, t) : all[i].slot = slot /\ FirstOf(all, t, slot) = all[i]
  BY <1>5, Zenon DEF FirstOf
<1> QED
  BY <1>6 DEF OfType


LEMMA SlotsAreFinite ==
    ASSUME NEW all \in Seq(RoomRow), NEW t
    PROVE  IsFiniteSet(SlotsIn(all, t)) /\ SlotsIn(all, t) \in SUBSET Nat
<1> DEFINE D == OfType(all, t)
           f == [i \in D |-> all[i].slot]
<1>1. DOMAIN all = 1..Len(all) /\ Len(all) \in Nat /\ \A i \in DOMAIN all : all[i].slot \in Nat
  <2>1. \A i \in DOMAIN all : all[i] \in RoomRow
    OBVIOUS
  <2> QED
    BY <2>1 DEF RoomRow
<1>2. IsFiniteSet(D)
  <2>1. IsFiniteSet(1..Len(all)) /\ D \in SUBSET (1..Len(all))
    BY <1>1, FS_Interval DEF OfType
  <2> QED
    BY <2>1, FS_Subset
<1>3. f \in Surjection(D, SlotsIn(all, t))
  BY DEF Surjection, SlotsIn
<1> HIDE DEF f
<1> QED
  BY <1>1, <1>2, <1>3, FS_Surjection DEF SlotsIn, OfType

\* How many are missing up to a slot.
LEMMA MissingCounts ==
    ASSUME NEW all \in Seq(RoomRow), NEW t, NEW count \in Nat
    PROVE  /\ Cardinality(Missing(all, t, count)) \in Nat
           /\ Missing(all, t, count) # {} => Cardinality(Missing(all, t, count)) # 0
<1>1. IsFiniteSet(1..count) /\ Missing(all, t, count) \in SUBSET (1..count)
  BY FS_Interval DEF Missing
<1>2. IsFiniteSet(Missing(all, t, count))
  BY <1>1, FS_Subset
<1> QED
  BY <1>2, FS_CardinalityType, FS_EmptySet

\* The rows made for a type are of the type and settle it, whatever rows there were.
LEMMA ReconciledRows ==
    ASSUME NEW all \in Seq(RoomRow), NEW t \in TypeSet, NEW count \in Nat, NEW next \in Nat
    PROVE  /\ Reconciled(all, t, count, next) \in Seq(RoomRow)
           /\ OfType(Reconciled(all, t, count, next), t) = DOMAIN Reconciled(all, t, count, next)
           /\ Settled(Reconciled(all, t, count, next), t, count)
<1> DEFINE slots == SlotsIn(all, t)
           extras == {s \in slots : s > count}
           size == Cardinality(extras)
           Extra(k) == Nth(extras, size - k + 1)
           one == [s \in 1..count |->
                      IF s \in slots THEN Restored(FirstOf(all, t, s))
                      ELSE Room(next + Cardinality(Missing(all, t, s)) - 1, t, s)]
           more == [k \in 1..size |->
                      [FirstOf(all, t, Extra(k)) EXCEPT !.archived = Archives(LastOf(all, t, Extra(k)))]]
           done == Reconciled(all, t, count, next)
<1>1. IsFiniteSet(extras) /\ extras \in SUBSET Nat /\ size \in Nat
  <2>1. IsFiniteSet(slots) /\ slots \in SUBSET Nat
    BY SlotsAreFinite
  <2>2. extras \in SUBSET slots
    OBVIOUS
  <2> QED
    BY <2>1, <2>2, FS_Subset, FS_CardinalityType
<1>2. \A k \in 1..size : Extra(k) \in slots /\ Extra(k) > count /\ Extra(k) \in Nat
  <2>1. \A k \in 1..size : size - k + 1 \in 1..size
    BY <1>1
  <2>2. \A k \in 1..size : Extra(k) \in extras
    <3> HIDE DEF extras
    <3> QED
      BY <1>1, <2>1, NthIn
  <2> QED
    BY <1>1, <2>2
<1>3. \A k, l \in 1..size : Extra(k) = Extra(l) => k = l
  <2>1. \A k \in 1..size : size - k + 1 \in 1..size
    BY <1>1
  <2> SUFFICES ASSUME NEW k \in 1..size, NEW l \in 1..size, Extra(k) = Extra(l) PROVE k = l
    OBVIOUS
  <2>2. size - k + 1 = size - l + 1
    <3> HIDE DEF extras
    <3> QED
      BY <1>1, <2>1, NthDiffers
  <2> QED
    BY <1>1, <2>2
<1>4. \A s \in 1..count : one[s] \in RoomRow /\ one[s].type = t /\ one[s].slot = s /\ ~one[s].archived
  <2> SUFFICES ASSUME NEW s \in 1..count
               PROVE  one[s] \in RoomRow /\ one[s].type = t /\ one[s].slot = s /\ ~one[s].archived
    OBVIOUS
  <2>1. CASE s \in slots
    <3>1. one[s] = Restored(FirstOf(all, t, s))
      BY <2>1
    <3>2. /\ FirstOf(all, t, s) \in RoomRow
          /\ FirstOf(all, t, s).type = t /\ FirstOf(all, t, s).slot = s
      BY <2>1, FirstOfSlot
    <3> QED
      BY <3>1, <3>2 DEF Restored, RoomRow
  <2>2. CASE s \notin slots
    <3>1. one[s] = Room(next + Cardinality(Missing(all, t, s)) - 1, t, s) /\ s \in Nat /\ s \in 1..s
      BY <2>2
    <3>2. Missing(all, t, s) # {}
      BY <2>2, <3>1 DEF Missing
    <3>3. next + Cardinality(Missing(all, t, s)) - 1 \in Nat
      BY <3>1, <3>2, MissingCounts
    <3> DEFINE id == next + Cardinality(Missing(all, t, s)) - 1
               room == [id |-> id, type |-> t, slot |-> s, label |-> s, archived |-> FALSE]
    <3>4. one[s] = room
      BY <3>1 DEF Room
    <3>5. id \in Nat /\ s \in Nat
      BY <3>1, <3>3
    <3> HIDE DEF id
    <3>6. room \in RoomRow /\ room.type = t /\ room.slot = s /\ ~room.archived
      BY <3>5 DEF RoomRow
    <3> HIDE DEF room, one
    <3> QED
      BY <3>4, <3>6
  <2> QED
    BY <2>1, <2>2
<1>5. \A k \in 1..size : /\ more[k] \in RoomRow /\ more[k].type = t /\ more[k].slot = Extra(k)
                         /\ roomStays = {} => more[k].archived
  <2> SUFFICES ASSUME NEW k \in 1..size
               PROVE  /\ more[k] \in RoomRow /\ more[k].type = t /\ more[k].slot = Extra(k)
                      /\ roomStays = {} => more[k].archived
    OBVIOUS
  <2> DEFINE first == FirstOf(all, t, Extra(k))
             archives == Archives(LastOf(all, t, Extra(k)))
  <2>1. first \in RoomRow /\ first.type = t /\ first.slot = Extra(k)
    BY <1>2, FirstOfSlot
  <2>2. archives \in BOOLEAN /\ (roomStays = {} => archives)
    BY DEF Archives, Held
  <2>3. more[k] = [first EXCEPT !.archived = archives]
    OBVIOUS
  <2> HIDE DEF first, archives, more, Extra
  <2> QED
    BY <2>1, <2>2, <2>3 DEF RoomRow
<1>6. done = one \o more
  BY DEF Reconciled
<1>7. one \in [1..count -> RoomRow] /\ more \in [1..size -> RoomRow]
  BY <1>4, <1>5
<1>8. /\ one \in Seq(RoomRow) /\ Len(one) = count /\ more \in Seq(RoomRow) /\ Len(more) = size
      /\ DOMAIN one = 1..count /\ DOMAIN more = 1..size
  <2> HIDE DEF one, more, size
  <2> QED
    BY <1>1, <1>7
<1> HIDE DEF one, more, size, Extra, done
<1>9. /\ done \in Seq(RoomRow) /\ DOMAIN done = 1..(count + size)
      /\ \A i \in DOMAIN done : done[i] = IF i <= count THEN one[i] ELSE more[i - count]
  BY <1>6, <1>8, ConcatProperties
<1>10. \A i \in DOMAIN done : \/ i \in 1..count /\ done[i] = one[i]
                              \/ i > count /\ i - count \in 1..size /\ done[i] = more[i - count]
  BY <1>1, <1>9
<1>11. OfType(done, t) = DOMAIN done
  <2>1. \A i \in DOMAIN done : done[i].type = t
    BY <1>4, <1>5, <1>10
  <2> QED
    BY <2>1 DEF OfType
<1>12. \A i, j \in DOMAIN done : done[i].slot = done[j].slot => i = j
  <2> SUFFICES ASSUME NEW i \in DOMAIN done, NEW j \in DOMAIN done, done[i].slot = done[j].slot
               PROVE  i = j
    OBVIOUS
  <2>1. i \in Nat /\ j \in Nat
    BY <1>9
  <2>2. \A k \in DOMAIN done : IF k \in 1..count THEN done[k].slot = k
                               ELSE k - count \in 1..size /\ done[k].slot = Extra(k - count)
    BY <1>4, <1>5, <1>10
  <2>3. CASE i \in 1..count /\ j \in 1..count
    BY <2>2, <2>3
  <2>4. CASE i \notin 1..count /\ j \notin 1..count
    <3>1. /\ i - count \in 1..size /\ j - count \in 1..size
          /\ Extra(i - count) = Extra(j - count)
      BY <2>2, <2>4
    <3>2. i - count = j - count
      BY <1>3, <3>1
    <3> QED
      BY <2>1, <3>2
  <2>5. CASE i \in 1..count /\ j \notin 1..count
    BY <1>2, <2>2, <2>5
  <2>6. CASE i \notin 1..count /\ j \in 1..count
    BY <1>2, <2>2, <2>6
  <2> QED
    BY <2>3, <2>4, <2>5, <2>6
<1>13. \A n \in 1..count : \E i \in DOMAIN done : done[i].slot = n /\ ~done[i].archived
  <2> SUFFICES ASSUME NEW n \in 1..count
               PROVE  n \in DOMAIN done /\ done[n].slot = n /\ ~done[n].archived
    OBVIOUS
  <2>1. n \in DOMAIN done
    BY <1>1, <1>9
  <2>2. done[n] = one[n]
    BY <2>1, <1>9
  <2> QED
    BY <1>4, <2>1, <2>2
<1>14. roomStays = {} => \A i \in DOMAIN done : done[i].slot > count => done[i].archived
  BY <1>4, <1>5, <1>10
<1>15. Settled(done, t, count)
  BY <1>11, <1>12, <1>13, <1>14 DEF Settled
<1> QED
  BY <1>9, <1>11, <1>15 DEF done


\* One type's turn settles it and leaves the types settled that were.
Store == [rooms : Seq(RoomRow), next : Nat]
LEMMA TypeStep ==
    ASSUME NEW store \in Store, NEW t \in TypeSet, MaxCount \in Nat,
           roomCounts \in [TypeSet -> 0..MaxCount]
    PROVE  /\ ReconcileType(store, t) \in Store
           /\ Settled(ReconcileType(store, t).rooms, t, roomCounts[t])
           /\ \A u \in TypeSet : Settled(store.rooms, u, roomCounts[u])
                => Settled(ReconcileType(store, t).rooms, u, roomCounts[u])
<1> DEFINE all == store.rooms
           places == DOMAIN all \ OfType(all, t)
           old == Others(all, t)
           new == Reconciled(all, t, roomCounts[t], store.next)
           done == ReconcileType(store, t).rooms
           L == Len(old)
<1>1. all \in Seq(RoomRow) /\ store.next \in Nat /\ roomCounts[t] \in Nat
  BY DEF Store
<1>2. /\ old \in Seq(RoomRow)
      /\ \A k \in DOMAIN old : Nth(places, k) \in places /\ old[k] = all[Nth(places, k)]
      /\ \A k, l \in DOMAIN old : Nth(places, k) = Nth(places, l) => k = l
      /\ \A i \in places : \E k \in DOMAIN old : Nth(places, k) = i
  <2>1. places \in SUBSET DOMAIN all /\ old = RowsAt(all, places)
    BY DEF Others
  <2> HIDE DEF places, old, all
  <2> QED
    BY <1>1, <2>1, AtPlaces
<1>3. new \in Seq(RoomRow) /\ OfType(new, t) = DOMAIN new /\ Settled(new, t, roomCounts[t])
  <2> DEFINE count == roomCounts[t]
             next == store.next
  <2> HIDE DEF all, count, next
  <2>1. all \in Seq(RoomRow) /\ t \in TypeSet /\ count \in Nat /\ next \in Nat
    BY <1>1 DEF count, next
  <2>2. /\ Reconciled(all, t, count, next) \in Seq(RoomRow)
        /\ OfType(Reconciled(all, t, count, next), t) = DOMAIN Reconciled(all, t, count, next)
        /\ Settled(Reconciled(all, t, count, next), t, count)
    BY ONLY <2>1, ReconciledRows
  <2> QED
    BY <2>2 DEF count, next
<1>4. done = old \o new /\ ReconcileType(store, t).next \in Nat
  BY <1>1, MissingCounts DEF ReconcileType
<1>5. ReconcileType(store, t) = [rooms |-> done, next |-> ReconcileType(store, t).next]
  BY DEF ReconcileType
<1> HIDE DEF old, new, done, all
<1>6. /\ done \in Seq(RoomRow) /\ L \in Nat /\ DOMAIN old = 1..L /\ DOMAIN new = 1..Len(new)
      /\ Len(new) \in Nat /\ DOMAIN done = 1..(L + Len(new))
      /\ \A i \in DOMAIN done : done[i] = IF i <= L THEN old[i] ELSE new[i - L]
  BY <1>2, <1>3, <1>4, ConcatProperties
<1>7. /\ \A i \in DOMAIN done : \/ i \in DOMAIN old /\ done[i] = old[i]
                                \/ i - L \in DOMAIN new /\ done[i] = new[i - L]
      /\ \A k \in DOMAIN old : k \in DOMAIN done /\ done[k] = old[k]
      /\ \A k \in DOMAIN new : k + L \in DOMAIN done /\ done[k + L] = new[k]
  <2>1. \A k \in DOMAIN new : k + L \in DOMAIN done /\ ~(k + L <= L) /\ (k + L) - L = k
    BY <1>6
  <2> QED
    BY <1>6, <2>1
<1>8. /\ \A k \in DOMAIN old : old[k].type # t
      /\ \A k \in DOMAIN new : new[k].type = t
  <2>1. \A i \in places : all[i].type # t
    BY DEF OfType
  <2>2. \A k \in OfType(new, t) : new[k].type = t
    BY DEF OfType
  <2> QED
    BY <1>2, <1>3, <2>1, <2>2
<1>9. Settled(done, t, roomCounts[t])
  <2>1. \A i \in OfType(done, t) : /\ i \in Nat
                                   /\ i - L \in DOMAIN new /\ done[i] = new[i - L]
    <3>1. \A i \in OfType(done, t) : i \in DOMAIN done /\ done[i].type = t
      BY DEF OfType
    <3> QED
      BY <1>6, <1>7, <1>8, <3>1
  <2>2. \A k \in DOMAIN new : k + L \in OfType(done, t) /\ done[k + L] = new[k]
    BY <1>7, <1>8 DEF OfType
  <2>3. /\ \A i, j \in DOMAIN new : new[i].slot = new[j].slot => i = j
        /\ \A n \in 1..roomCounts[t] : \E i \in DOMAIN new : new[i].slot = n /\ ~new[i].archived
        /\ roomStays = {} => \A i \in DOMAIN new : new[i].slot > roomCounts[t] => new[i].archived
    BY <1>3 DEF Settled
  <2>4. \A i, j \in OfType(done, t) : done[i].slot = done[j].slot => i = j
    <3> SUFFICES ASSUME NEW i \in OfType(done, t), NEW j \in OfType(done, t),
                        done[i].slot = done[j].slot
                 PROVE  i = j
      OBVIOUS
    <3>1. i - L = j - L
      BY <2>1, <2>3
    <3> QED
      BY <1>6, <2>1, <3>1
  <2>5. \A n \in 1..roomCounts[t] : \E i \in OfType(done, t) : done[i].slot = n /\ ~done[i].archived
    <3> SUFFICES ASSUME NEW n \in 1..roomCounts[t]
                 PROVE  \E i \in OfType(done, t) : done[i].slot = n /\ ~done[i].archived
      OBVIOUS
    <3>1. PICK k \in DOMAIN new : new[k].slot = n /\ ~new[k].archived
      BY <2>3
    <3> QED
      BY <2>2, <3>1
  <2>6. roomStays = {} => \A i \in OfType(done, t) : done[i].slot > roomCounts[t] => done[i].archived
    BY <2>1, <2>3
  <2> QED
    BY <2>4, <2>5, <2>6 DEF Settled
<1>10. ASSUME NEW u \in TypeSet, u # t, Settled(all, u, roomCounts[u]) PROVE Settled(done, u, roomCounts[u])
  <2> DEFINE Place(k) == Nth(places, k)
  <2>1. \A i \in OfType(done, u) : /\ i \in DOMAIN old /\ Place(i) \in OfType(all, u)
                                   /\ done[i] = all[Place(i)]
    <3>1. \A i \in OfType(done, u) : i \in DOMAIN done /\ done[i].type = u
      BY DEF OfType
    <3>2. \A i \in OfType(done, u) : i \in DOMAIN old /\ done[i] = old[i]
      BY <1>7, <1>8, <1>10, <3>1
    <3>3. \A i \in DOMAIN old : Place(i) \in DOMAIN all
      BY <1>2
    <3> HIDE DEF places
    <3> QED
      BY <1>2, <3>1, <3>2, <3>3 DEF OfType
  <2>2. \A i \in OfType(all, u) : \E k \in OfType(done, u) : Place(k) = i
    <3> SUFFICES ASSUME NEW i \in OfType(all, u) PROVE \E k \in OfType(done, u) : Place(k) = i
      OBVIOUS
    <3>1. i \in places /\ all[i].type = u
      BY <1>10 DEF OfType
    <3>2. PICK k \in DOMAIN old : Place(k) = i
      BY <1>2, <3>1
    <3>3. k \in DOMAIN done /\ done[k] = all[i]
      BY <1>2, <1>7, <3>2
    <3> QED
      BY <3>1, <3>2, <3>3 DEF OfType
  <2>3. \A k, l \in DOMAIN old : Place(k) = Place(l) => k = l
    BY <1>2
  <2>4. /\ \A i, j \in OfType(all, u) : all[i].slot = all[j].slot => i = j
        /\ \A n \in 1..roomCounts[u] : \E i \in OfType(all, u) : all[i].slot = n /\ ~all[i].archived
        /\ roomStays = {} => \A i \in OfType(all, u) : all[i].slot > roomCounts[u] => all[i].archived
    BY <1>10 DEF Settled
  <2> HIDE DEF Place
  <2>5. \A i, j \in OfType(done, u) : done[i].slot = done[j].slot => i = j
    BY <2>1, <2>3, <2>4
  <2>6. \A n \in 1..roomCounts[u] : \E i \in OfType(done, u) : done[i].slot = n /\ ~done[i].archived
    <3> SUFFICES ASSUME NEW n \in 1..roomCounts[u]
                 PROVE  \E i \in OfType(done, u) : done[i].slot = n /\ ~done[i].archived
      OBVIOUS
    <3>1. PICK i \in OfType(all, u) : all[i].slot = n /\ ~all[i].archived
      BY <2>4
    <3>2. PICK k \in OfType(done, u) : Place(k) = i
      BY <2>2
    <3> QED
      BY <2>1, <3>1, <3>2
  <2>7. roomStays = {} => \A i \in OfType(done, u) : done[i].slot > roomCounts[u] => done[i].archived
    BY <2>1, <2>4
  <2> QED
    BY <2>5, <2>6, <2>7 DEF Settled
<1>11. ReconcileType(store, t) \in Store
  <2>1. \A r \in Seq(RoomRow), n \in Nat : [rooms |-> r, next |-> n] \in Store
    BY DEF Store
  <2> QED
    BY <1>4, <1>5, <1>6, <2>1
<1> QED
  BY <1>9, <1>10, <1>11 DEF done, all


-----------------------------------------------------------------------------
(* All types in turn.                                                      *)

\* The list after each type is well defined.
Turns(f, start) ==
    f = [i \in 0..Len(RoomTypes) |->
            IF i = 0 THEN start ELSE ReconcileType(f[i - 1], RoomTypes[i])]
LEMMA TurnsExist ==
    ASSUME RoomTypes \in Seq(TypeSet), NEW start
    PROVE  \E f : Turns(f, start)
<1> DEFINE N == Len(RoomTypes)
           Upto(f, n) == f = [i \in 0..n |->
                                IF i = 0 THEN start ELSE ReconcileType(f[i - 1], RoomTypes[i])]
           S == {n \in 0..N : ~\E f : Upto(f, n)}
<1>1. N \in Nat
  OBVIOUS
<1>2. IsFiniteSet(S) /\ S \in SUBSET Nat
  <2>1. IsFiniteSet(0..N) /\ 0..N \in SUBSET Nat
    BY <1>1, FS_Interval
  <2>2. S \in SUBSET (0..N)
    OBVIOUS
  <2> HIDE DEF S
  <2> QED
    BY <2>1, <2>2, FS_Subset
<1>3. S = {}
  <2> SUFFICES ASSUME S # {} PROVE FALSE
    OBVIOUS
  <2> DEFINE m == Nth(S, 1)
  <2>1. m \in S /\ \A n \in S : m <= n
    <3> HIDE DEF S
    <3> QED
      BY <1>2, FirstIsLeast
  <2>2. m \in 0..N /\ ~\E f : Upto(f, m)
    BY <2>1
  <2>3. PICK n : n = m
    OBVIOUS
  <2> HIDE DEF m
  <2>4. CASE n = 0
    <3> DEFINE g == [i \in 0..0 |-> start]
    <3>1. Upto(g, 0)
      OBVIOUS
    <3> QED
      BY <2>2, <2>3, <2>4, <3>1
  <2>5. CASE n # 0
    <3>1. n \in Nat /\ n - 1 \in 0..N /\ n \in 0..N /\ ~(n <= n - 1)
      BY <1>1, <2>2, <2>3, <2>5
    <3>2. n - 1 \notin S
      BY <2>1, <2>3, <3>1
    <3>3. PICK f : Upto(f, n - 1)
      BY <3>1, <3>2
    <3> DEFINE g == [i \in 0..n |-> IF i = n THEN ReconcileType(f[n - 1], RoomTypes[n]) ELSE f[i]]
    <3>4. \A i \in 0..n : g[i] = IF i = 0 THEN start ELSE ReconcileType(g[i - 1], RoomTypes[i])
      <4> SUFFICES ASSUME NEW i \in 0..n
                   PROVE  g[i] = IF i = 0 THEN start ELSE ReconcileType(g[i - 1], RoomTypes[i])
        OBVIOUS
      <4>1. i = n \/ (i \in 0..(n - 1) /\ i # n)
        BY <3>1
      <4>2. i # 0 => i - 1 \in 0..n /\ i - 1 # n
        BY <3>1
      <4>3. i # 0 => g[i - 1] = f[i - 1]
        BY <4>2
      <4>4. CASE i = n
        BY <2>5, <4>3, <4>4
      <4>5. CASE i # n
        <5>1. f[i] = IF i = 0 THEN start ELSE ReconcileType(f[i - 1], RoomTypes[i])
          BY <3>3, <4>1, <4>5, Zenon
        <5> QED
          BY <4>3, <4>5, <5>1
      <4> QED
        BY <4>4, <4>5
    <3>5. g = [i \in 0..n |-> g[i]]
      OBVIOUS
    <3>6. Upto(g, n)
      <4> HIDE DEF g
      <4> QED
        BY <3>4, <3>5
    <3> QED
      BY <2>2, <2>3, <3>6
  <2> QED
    BY <2>4, <2>5
<1>4. N \notin S
  BY <1>3
<1>5. \E f : Upto(f, N)
  BY <1>1, <1>4
<1> QED
  BY <1>5 DEF Turns

\* Reconciling all types settles every one, whatever rows there were.
LEMMA AllSettled ==
    ASSUME RoomTypes \in Seq(TypeSet), MaxCount \in Nat, roomCounts \in [TypeSet -> 0..MaxCount],
           NEW all \in Seq(RoomRow), NEW next \in Nat
    PROVE  /\ ReconcileAll(all, next) \in Store
           /\ \A t \in TypeSet : Settled(ReconcileAll(all, next).rooms, t, roomCounts[t])
<1> DEFINE N == Len(RoomTypes)
           start == [rooms |-> all, next |-> next]
           f == CHOOSE g : Turns(g, start)
           Done(i) == /\ f[i] \in Store
                      /\ \A j \in 1..i : Settled(f[i].rooms, RoomTypes[j], roomCounts[RoomTypes[j]])
           S == {i \in 0..N : ~Done(i)}
<1>1. N \in Nat /\ DOMAIN RoomTypes = 1..N /\ start \in Store
      /\ \A i \in 1..N : RoomTypes[i] \in TypeSet
  BY DEF Store
<1>2. Turns(f, start)
  <2> HIDE DEF start
  <2> QED
    BY TurnsExist
<1>3. ReconcileAll(all, next) = f[N]
  BY DEF ReconcileAll, Turns
<1> HIDE DEF f, start
<1>4. \A i \in 0..N : f[i] = IF i = 0 THEN start ELSE ReconcileType(f[i - 1], RoomTypes[i])
  BY <1>2, Zenon DEF Turns
<1>5. IsFiniteSet(S) /\ S \in SUBSET Nat
  <2>1. IsFiniteSet(0..N) /\ 0..N \in SUBSET Nat
    BY <1>1, FS_Interval
  <2>2. S \in SUBSET (0..N)
    OBVIOUS
  <2> HIDE DEF S
  <2> QED
    BY <2>1, <2>2, FS_Subset
<1>6. S = {}
  <2> SUFFICES ASSUME S # {} PROVE FALSE
    OBVIOUS
  <2> DEFINE m == Nth(S, 1)
  <2>1. m \in S /\ \A n \in S : m <= n
    <3> HIDE DEF S
    <3> QED
      BY <1>5, FirstIsLeast
  <2>2. PICK n : n = m
    OBVIOUS
  <2>3. n \in 0..N /\ ~Done(n) /\ \A l \in S : n <= l
    BY <2>1, <2>2
  <2> HIDE DEF m
  <2>4. CASE n = 0
    <3>1. f[0] = start
      BY <1>1, <1>4
    <3> QED
      BY <1>1, <2>3, <2>4, <3>1
  <2>5. CASE n # 0
    <3>1. n \in Nat /\ n - 1 \in 0..N /\ n \in 1..N /\ ~(n <= n - 1)
      BY <1>1, <2>3, <2>5
    <3>2. Done(n - 1)
      BY <2>3, <3>1
    <3> DEFINE t == RoomTypes[n]
               before == f[n - 1]
    <3>3. f[n] = ReconcileType(before, t) /\ t \in TypeSet /\ before \in Store
      BY <1>1, <1>4, <2>3, <2>5, <3>1, <3>2
    <3>4. /\ f[n] \in Store /\ Settled(f[n].rooms, t, roomCounts[t])
          /\ \A u \in TypeSet : Settled(before.rooms, u, roomCounts[u]) => Settled(f[n].rooms, u, roomCounts[u])
      <4> HIDE DEF before, t
      <4> QED
        BY <3>3, TypeStep
    <3>5. ASSUME NEW j \in 1..n PROVE Settled(f[n].rooms, RoomTypes[j], roomCounts[RoomTypes[j]])
      <4>1. RoomTypes[j] \in TypeSet /\ (j = n \/ j \in 1..(n - 1))
        BY <1>1, <3>1
      <4>2. CASE j = n
        BY <3>4, <4>2
      <4>3. CASE j \in 1..(n - 1)
        BY <3>2, <3>4, <4>1, <4>3
      <4> QED
        BY <4>1, <4>2, <4>3
    <3> QED
      BY <2>3, <3>4, <3>5
  <2> QED
    BY <2>4, <2>5
<1>7. Done(N)
  <2> HIDE DEF Done
  <2>1. N \in 0..N
    BY <1>1
  <2>2. N \notin S
    <3> HIDE DEF S
    <3> QED
      BY <1>6
  <2> QED
    BY <2>1, <2>2
<1> QED
  BY <1>1, <1>3, <1>7 DEF TypeSet


-----------------------------------------------------------------------------
(* What a step does to the rows.                                           *)

\* A place in a list of rows has a row with all its fields.
LEMMA RowsHaveFields ==
    ASSUME NEW rec \in RoomRow
    PROVE  /\ \A id \in Nat : [rec EXCEPT !.id = id] \in RoomRow
           /\ \A label \in Nat \cup Names : [rec EXCEPT !.label = label] \in RoomRow
  BY DEF RoomRow

\* Rows read over the rows in memory are rows.
LEMMA OverlaidRows ==
    ASSUME NEW all \in Seq(RoomRow), NEW recs \in SUBSET RoomRow, IsFiniteSet(recs)
    PROVE  Overlaid(all, recs) \in Seq(RoomRow)
<1> DEFINE ids == {rec.id : rec \in recs}
           new == ids \ {all[i].id : i \in DOMAIN all}
           RowOf(id) == CHOOSE rec \in recs : rec.id = id
           Replaced(i) == /\ \E rec \in recs : rec.id = all[i].id
                          /\ \A j \in 1..(i - 1) : all[j].id # all[i].id
           size == Cardinality(new)
           one == [i \in DOMAIN all |-> IF Replaced(i) THEN RowOf(all[i].id) ELSE all[i]]
           more == [k \in 1..size |-> RowOf(Nth(new, k))]
           f == [rec \in recs |-> rec.id]
<1>1. \A id \in ids : RowOf(id) \in RoomRow
  OBVIOUS
<1>2. IsFiniteSet(ids)
  <2>1. f \in Surjection(recs, ids)
    BY DEF Surjection
  <2> HIDE DEF f, ids
  <2> QED
    BY <2>1, FS_Surjection
<1>3. IsFiniteSet(new) /\ new \in SUBSET Nat /\ size \in Nat
  <2>1. ids \in SUBSET Nat
    BY DEF RoomRow
  <2>2. new \in SUBSET ids
    OBVIOUS
  <2> HIDE DEF ids, new
  <2> QED
    BY <1>2, <2>1, <2>2, FS_Subset, FS_CardinalityType
<1>4. more \in [1..size -> RoomRow]
  <2>1. \A k \in 1..size : Nth(new, k) \in new
    <3> HIDE DEF new
    <3> QED
      BY <1>3, NthIn
  <2>2. \A k \in 1..size : Nth(new, k) \in ids
    BY <2>1
  <2> HIDE DEF ids, new, RowOf, size
  <2> QED
    BY <1>1, <2>2
<1>5. /\ DOMAIN all = 1..Len(all) /\ Len(all) \in Nat
      /\ \A i \in DOMAIN all : all[i] \in RoomRow /\ (Replaced(i) => all[i].id \in ids)
  OBVIOUS
<1>6. one \in [1..Len(all) -> RoomRow]
  <2> HIDE DEF ids, RowOf, Replaced
  <2> QED
    BY <1>1, <1>5
<1>7. Overlaid(all, recs) = one \o more
  BY DEF Overlaid
<1> HIDE DEF one, more, size
<1>8. one \in Seq(RoomRow) /\ more \in Seq(RoomRow)
  BY <1>3, <1>4, <1>5, <1>6
<1> QED
  BY <1>7, <1>8, ConcatProperties

LEMMA RelabelledRows ==
    ASSUME NEW all \in Seq(RoomRow), NEW i, NEW name \in Names
    PROVE  Relabelled(all, i, name) \in Seq(RoomRow)
<1>1. DOMAIN all = 1..Len(all) /\ Len(all) \in Nat /\ \A j \in DOMAIN all : all[j] \in RoomRow
  OBVIOUS
<1>2. \A j \in DOMAIN all : [all[j] EXCEPT !.label = name] \in RoomRow
  BY <1>1, RowsHaveFields
<1>3. Relabelled(all, i, name) \in [1..Len(all) -> RoomRow]
  BY <1>1, <1>2 DEF Relabelled
<1> QED
  BY <1>1, <1>3

LEMMA RefreshedRows ==
    ASSUME RoomTypeOK, NEW todo \in Seq(RoomRow)
    PROVE  Refreshed(todo) \in Seq(RoomRow)
<1>1. DOMAIN todo = 1..Len(todo) /\ Len(todo) \in Nat /\ \A j \in DOMAIN todo : todo[j] \in RoomRow
  OBVIOUS
<1>2. \A id : (\E rec \in table : rec.id = id) => (CHOOSE rec \in table : rec.id = id) \in RoomRow
  BY DEF RoomTypeOK
<1>3. Refreshed(todo) \in [1..Len(todo) -> RoomRow]
  BY <1>1, <1>2 DEF Refreshed
<1> QED
  BY <1>1, <1>3

LEMMA RoomInitOK == ASSUME RoomInit PROVE RoomTypeOK
<1>1. <<>> \in Seq(RoomRow) /\ IsFiniteSet({})
  BY FS_EmptySet
<1>2. saver \in [Savers -> [todo : Seq(RoomRow), attached : BOOLEAN]]
  BY <1>1 DEF RoomInit, Idle
<1> QED
  BY <1>1, <1>2, RoomsAssumption DEF RoomInit, RoomTypeOK

\* An import reconciles rows it has read over those in memory.
LEMMA OverlayStep ==
    ASSUME RoomTypeOK, NEW s \in Savers, Overlay(s)
    PROVE  /\ RoomTypeOK'
           /\ \A t \in TypeSet : Settled(rooms', t, roomCounts[t])
<1> DEFINE all == Overlaid(rooms, table)
           done == ReconcileAll(all, nextRoom)
<1>1. all \in Seq(RoomRow) /\ nextRoom \in Nat
  BY OverlaidRows DEF RoomTypeOK
<1>2. done \in Store /\ \A t \in TypeSet : Settled(done.rooms, t, roomCounts[t])
  <2> HIDE DEF all
  <2> QED
    BY <1>1, AllSettled, RoomsAssumption DEF RoomTypeOK
<1>3. /\ rooms' = done.rooms /\ nextRoom' = done.next
      /\ saver' = [x \in Savers |->
           IF x = s THEN [todo |-> rooms', attached |-> TRUE]
           ELSE [todo |-> IF saver[x].attached THEN Refreshed(saver[x].todo) ELSE saver[x].todo,
                 attached |-> FALSE]]
      /\ UNCHANGED <<roomCounts, table, nextRow>>
  BY DEF Overlay
<1> HIDE DEF done
<1>4. rooms' \in Seq(RoomRow) /\ nextRoom' \in Nat
  BY <1>2, <1>3 DEF Store
<1>5. \A x \in Savers : saver[x].todo \in Seq(RoomRow) /\ Refreshed(saver[x].todo) \in Seq(RoomRow)
  <2>1. \A x \in Savers : saver[x].todo \in Seq(RoomRow)
    BY DEF RoomTypeOK
  <2> QED
    BY <2>1, RefreshedRows
<1>6. saver' \in [Savers -> [todo : Seq(RoomRow), attached : BOOLEAN]]
  BY <1>3, <1>4, <1>5
<1> QED
  BY <1>2, <1>3, <1>4, <1>6 DEF RoomTypeOK


LEMMA CatalogStep ==
    ASSUME RoomTypeOK, Catalog
    PROVE  RoomTypeOK'
<1> DEFINE done == ReconcileAll(rooms, nextRoom)
<1>1. done \in Store
  BY AllSettled, RoomsAssumption DEF RoomTypeOK
<1>2. /\ rooms' = done.rooms /\ nextRoom' = done.next
      /\ saver' = [s \in Savers |-> [saver[s] EXCEPT !.attached = FALSE]]
      /\ UNCHANGED <<roomCounts, table, nextRow>>
  BY DEF Catalog
<1> HIDE DEF done
<1>3. saver' \in [Savers -> [todo : Seq(RoomRow), attached : BOOLEAN]]
  BY <1>2 DEF RoomTypeOK
<1> QED
  BY <1>1, <1>2, <1>3 DEF RoomTypeOK, Store

\* A statement writes a row with an id of the table's own.
LEMMA WriteStep ==
    ASSUME RoomTypeOK, NEW s \in Savers, Write(s)
    PROVE  RoomTypeOK'
<1> DEFINE todo == saver[s].todo
           rec == Head(todo)
           old == {r \in table : SameSlot(rec, r)}
           rest == table \ old
           f == [r \in old |-> [rec EXCEPT !.id = r.id]]
           written == {[rec EXCEPT !.id = r.id] : r \in old}
<1>1. todo \in Seq(RoomRow) /\ todo # <<>> /\ nextRow \in Nat /\ table \subseteq RoomRow
      /\ saver \in [Savers -> [todo : Seq(RoomRow), attached : BOOLEAN]]
  BY DEF RoomTypeOK, Write
<1>2. rec \in RoomRow /\ Tail(todo) \in Seq(RoomRow)
  <2> HIDE DEF todo
  <2> QED
    BY <1>1
<1>3. IsFiniteSet(old) /\ IsFiniteSet(rest) /\ rest \subseteq RoomRow
  <2>1. old \in SUBSET table /\ rest \in SUBSET table
    OBVIOUS
  <2> HIDE DEF old, rest
  <2> QED
    BY <1>1, <2>1, FS_Subset DEF RoomTypeOK
<1>4. IsFiniteSet(written) /\ written \subseteq RoomRow
  <2>1. f \in Surjection(old, written)
    BY DEF Surjection
  <2>2. \A r \in old : [rec EXCEPT !.id = r.id] \in RoomRow
    <3>1. \A r \in old : r.id \in Nat
      BY <1>1 DEF RoomRow
    <3> HIDE DEF old, rec
    <3> QED
      BY <1>2, <3>1, RowsHaveFields
  <2> HIDE DEF f, old, rec
  <2>3. written \subseteq RoomRow
    BY <2>2
  <2> HIDE DEF written
  <2> QED
    BY <1>3, <2>1, <2>3, FS_Surjection
<1>5. IsFiniteSet({[rec EXCEPT !.id = nextRow]}) /\ {[rec EXCEPT !.id = nextRow]} \subseteq RoomRow
  <2> HIDE DEF rec
  <2> QED
    BY <1>1, <1>2, RowsHaveFields, FS_Singleton
<1> DEFINE put == IF old = {} THEN {[rec EXCEPT !.id = nextRow]} ELSE written
<1>6. /\ IF LabelFree(rec, rest)
         THEN table' = rest \cup put /\ saver' = [saver EXCEPT ![s].todo = Tail(@)]
         ELSE table' = table /\ saver' = [saver EXCEPT ![s] = Idle]
      /\ nextRow' = IF old = {} THEN nextRow + 1 ELSE nextRow
      /\ UNCHANGED <<roomCounts, rooms, nextRoom>>
  BY DEF Write
<1>7. saver' \in [Savers -> [todo : Seq(RoomRow), attached : BOOLEAN]]
  <2>1. Idle \in [todo : Seq(RoomRow), attached : BOOLEAN]
    BY DEF Idle
  <2>2. [saver[s] EXCEPT !.todo = Tail(todo)] \in [todo : Seq(RoomRow), attached : BOOLEAN]
    BY <1>1, <1>2
  <2>3. saver' = [saver EXCEPT ![s] = Idle]
        \/ saver' = [saver EXCEPT ![s] = [saver[s] EXCEPT !.todo = Tail(todo)]]
    <3> HIDE DEF rest, rec
    <3> QED
      BY <1>6
  <2> HIDE DEF todo, rest, rec
  <2> QED
    BY <1>1, <2>1, <2>2, <2>3
<1> HIDE DEF rec, old, rest, written
<1>8. table' \subseteq RoomRow /\ IsFiniteSet(table')
  <2>1. put \subseteq RoomRow /\ IsFiniteSet(put)
    BY <1>4, <1>5
  <2> HIDE DEF put
  <2>2. rest \cup put \subseteq RoomRow /\ IsFiniteSet(rest \cup put)
    BY <1>3, <2>1, FS_Union
  <2>3. IsFiniteSet(table)
    BY DEF RoomTypeOK
  <2>4. table' = rest \cup put \/ table' = table
    BY <1>6
  <2> QED
    BY <1>1, <2>2, <2>3, <2>4
<1> QED
  BY <1>1, <1>6, <1>7, <1>8 DEF RoomTypeOK

LEMMA RenameStep ==
    ASSUME RoomTypeOK, NEW s \in Savers, NEW i \in DOMAIN rooms, NEW name \in Names,
           Rename(s, i, name)
    PROVE  RoomTypeOK'
<1>1. /\ rooms' = Relabelled(rooms, i, name)
      /\ saver' = [x \in Savers |->
           IF x = s THEN [todo |-> rooms', attached |-> TRUE]
           ELSE IF saver[x].attached THEN [saver[x] EXCEPT !.todo = Relabelled(@, i, name)]
           ELSE saver[x]]
      /\ UNCHANGED <<roomCounts, nextRoom, table, nextRow>>
  BY DEF Rename
<1>2. saver \in [Savers -> [todo : Seq(RoomRow), attached : BOOLEAN]]
  BY DEF RoomTypeOK
<1>3. rooms' \in Seq(RoomRow)
  BY <1>1, RelabelledRows DEF RoomTypeOK
<1>4. \A x \in Savers : Relabelled(saver[x].todo, i, name) \in Seq(RoomRow)
  BY <1>2, RelabelledRows
<1>5. saver' \in [Savers -> [todo : Seq(RoomRow), attached : BOOLEAN]]
  BY <1>1, <1>2, <1>3, <1>4
<1> QED
  BY <1>1, <1>3, <1>5 DEF RoomTypeOK

LEMMA RoomStepOK == ASSUME RoomTypeOK, [RoomNext]_roomVars PROVE RoomTypeOK'
<1>1. CASE HydrateRooms
  <2>1. Overlaid(rooms, table) \in Seq(RoomRow)
    BY OverlaidRows DEF RoomTypeOK
  <2> QED
    BY <1>1, <2>1 DEF HydrateRooms, RoomTypeOK
<1>2. CASE Catalog
  BY <1>2, CatalogStep
<1>3. CASE Reimport
  BY <1>3 DEF Reimport, RoomTypeOK
<1>4. ASSUME NEW s \in Savers, Work(s) PROVE RoomTypeOK'
  BY <1>4, OverlayStep, WriteStep DEF Work
<1>5. CASE Crash
  <2>1. <<>> \in Seq(RoomRow)
    OBVIOUS
  <2>2. saver' \in [Savers -> [todo : Seq(RoomRow), attached : BOOLEAN]]
    BY <1>5, <2>1 DEF Crash, Idle
  <2> QED
    BY <1>5, <2>1, <2>2 DEF Crash, RoomTypeOK
<1>6. ASSUME NEW s \in Savers, NEW i \in DOMAIN rooms, NEW name \in Names, Rename(s, i, name)
      PROVE  RoomTypeOK'
  BY <1>6, RenameStep
<1>7. ASSUME NEW t \in TypeSet, Assign(t) PROVE RoomTypeOK'
  BY <1>7 DEF Assign, RoomTypeOK
<1>8. ASSUME NEW t \in TypeSet, NEW n \in 0..MaxCount, Recount(t, n) PROVE RoomTypeOK'
  BY <1>8 DEF Recount, RoomTypeOK
<1>9. ASSUME NEW stay \in roomStays, CancelStay(stay) PROVE RoomTypeOK'
  BY <1>9 DEF CancelStay, RoomTypeOK
<1>10. CASE UNCHANGED roomVars
  BY <1>10 DEF roomVars, RoomTypeOK
<1> QED
  BY <1>1, <1>2, <1>3, <1>4, <1>5, <1>6, <1>7, <1>8, <1>9, <1>10 DEF RoomNext

-----------------------------------------------------------------------------
(* The theorem.                                                            *)

LEMMA AtMostOne ==
    ASSUME NEW S, \A x, y \in S : x = y
    PROVE  Cardinality(S) <= 1
<1>1. CASE S = {}
  BY <1>1, FS_EmptySet
<1>2. ASSUME NEW x \in S PROVE Cardinality(S) <= 1
  <2>1. S = {x}
    OBVIOUS
  <2>2. Cardinality({x}) = 1
    BY FS_Singleton
  <2> QED
    BY <2>1, <2>2
<1> QED
  BY <1>1, <1>2

\* The counts win when each type is settled.
LEMMA SettledWins ==
    ASSUME NEW all \in Seq(RoomRow), NEW t \in TypeSet, NEW count \in Nat, NEW n \in Nat \ {0},
           Settled(all, t, count)
    PROVE  LET here == {i \in DOMAIN all : SlotOf(all[i]) = <<t, n>>}
               active == {i \in here : ~all[i].archived}
           IN  /\ Cardinality(here) <= 1
               /\ n <= count => active # {}
               /\ n > count /\ roomStays = {} => active = {}
<1> DEFINE here == {i \in DOMAIN all : SlotOf(all[i]) = <<t, n>>}
           active == {i \in here : ~all[i].archived}
<1>1. \A i : i \in here <=> i \in OfType(all, t) /\ all[i].slot = n
  BY DEF OfType, SlotOf
<1>2. /\ \A i, j \in OfType(all, t) : all[i].slot = all[j].slot => i = j
      /\ \A m \in 1..count : \E i \in OfType(all, t) : all[i].slot = m /\ ~all[i].archived
      /\ roomStays = {} => \A i \in OfType(all, t) : all[i].slot > count => all[i].archived
  BY DEF Settled
<1>3. Cardinality(here) <= 1
  <2>1. \A i, j \in here : i = j
    BY <1>1, <1>2
  <2> HIDE DEF here
  <2> QED
    BY <2>1, AtMostOne
<1>4. n <= count => active # {}
  <2> SUFFICES ASSUME n <= count PROVE \E i : i \in active
    OBVIOUS
  <2>1. PICK i \in OfType(all, t) : all[i].slot = n /\ ~all[i].archived
    BY <1>2
  <2> QED
    BY <1>1, <2>1
<1>5. n > count /\ roomStays = {} => active = {}
  BY <1>1, <1>2
<1> QED
  BY <1>3, <1>4, <1>5

\* An import, whatever rows, saves, renames and restarts came before it, ends with the
\* counts: one active row per slot up to the count of its type, none above without stays.
THEOREM CountsAreTaken == RoomSpec => ImportTakesCounts
<1>1. RoomInit => RoomTypeOK
  BY RoomInitOK
<1>2. RoomTypeOK /\ [RoomNext]_roomVars => RoomTypeOK'
  BY RoomStepOK
<1>3. RoomTypeOK /\ [RoomNext]_roomVars
        => [import = "overlay" /\ import' = "done" => CountsWin']_roomVars
  <2> SUFFICES ASSUME RoomTypeOK, RoomNext, import = "overlay", import' = "done"
               PROVE  CountsWin'
    OBVIOUS
  <2>1. PICK s \in Savers : Overlay(s)
    BY DEF RoomNext, HydrateRooms, Catalog, Reimport, Work, Write, Crash, Rename, Assign, Recount, CancelStay
  <2>2. RoomTypeOK' /\ \A t \in TypeSet : Settled(rooms', t, roomCounts[t])
    BY <2>1, OverlayStep
  <2>3. roomCounts' = roomCounts /\ roomStays' = roomStays
    BY <2>1 DEF Overlay
  <2>4. ASSUME NEW t \in TypeSet, NEW n \in 1..MaxCount
        PROVE  LET here == {i \in DOMAIN rooms' : SlotOf(rooms'[i]) = <<t, n>>}
                   active == {i \in here : ~rooms'[i].archived}
               IN  /\ Cardinality(here) <= 1
                   /\ n <= roomCounts[t] => active # {}
                   /\ n > roomCounts[t] /\ roomStays = {} => active = {}
    <3>1. rooms' \in Seq(RoomRow) /\ roomCounts[t] \in Nat /\ n \in Nat \ {0}
      BY <2>2, <2>3, RoomsAssumption DEF RoomTypeOK
    <3> QED
      BY <2>2, <3>1, SettledWins
  <2> QED
    BY <2>3, <2>4 DEF CountsWin, SlotOf
<1> QED
  BY <1>1, <1>2, <1>3, PTL DEF RoomSpec, ImportTakesCounts
=============================================================================
