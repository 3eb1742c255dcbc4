CONSTANTS
    t1 = t1 RoomTypes <- MCTypes FirstCount = 1 MaxCount = 2 Names = {n1} FirstRowId = 1
    Savers = {s1, s2} RoomFaults <- MCRoomFaults
    Users = {u1, u2} Properties = {a1} Roles = {"org_admin", "manager", "front_desk", "property_owner"}
    Requests = {q1} Edition = "commercial" SlugAttempts = 5 MaxNetworks = 2 MaxChanges = 3 MaxBreaks = 1
    Tasks = {k1} FirstCatalogs <- MCCatalogs MaxCatalog = 1 MaxSubscriptions = 1 MaxTurns = 1
    MaxCatalogMoves = 1 MaxSetbacks = 1
    Writers = {w1, w2} FirstSerials = {0, 10} MaxNotes = 3 MaxEdits = 1 MaxMishaps = 1
    Tenants = {nA, nB} Calls = {c1, c2} NoTenant = NoTenant Estate <- MCEstate
    MaxGroups = 2 MaxProperties = 3 MaxCalls = 3 MaxOutages = 1
    g1 = g1 g2 = g2 Cells = {g1, g2} Amounts = {1} Selections <- MCSelections Scopes <- MCScopes
    Approvers = {q1, q2} MaxProposals = 1 MaxVersions = 2 MaxTasks = 1 MaxFaults = 1
    ho = ho vr = vr e1 = e1 e2 = e2 e3 = e3 e4 = e4 Homes = {ho, vr} Hotels = {ho}
    Rooms <- MCRooms GuestKeys = {g1} NoGuest = NoGuest Principals <- MCPrincipals
    Nights <- MCNights Windows <- MCWindows All = All MaxStays = 2 MaxActs = 3
SPECIFICATION Spec
INVARIANTS
    AdminRemains
    ItemsBillCounts
    ApartNotesFollowRows
    OwnPropertiesOnly
    OnboardedReturns
    QueuedIsDurable
    PagesAgree
PROPERTY ImportTakesCounts
CHECK_DEADLOCK FALSE
