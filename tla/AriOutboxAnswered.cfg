\* A room and a rate plan, one drain, every request answered: warnings, refusals, edits by others.
CONSTANTS
    roomA = roomA  roomB = roomB  plan = plan
    d1 = d1  r1 = r1  c1 = c1  c2 = c2
    v0 = v0  v1 = v1  v2 = v2  v3 = v3
    Resources = {roomA, plan}
    RatePlans = {plan}
    Unmapped = {}
    Dates = {d1}
    Fields = {avail}
    Values = {v0, v1, v2, v3}
    InitialValue = v0
    FirstDbId = 2
    Clients = {c1}
    Runs = {r1}
    NoRun = NoRun
    NoRow = NoRow
    NoReq = NoReq
    MaxCommands = 3
    MaxVersion = 1
    PropertyOf <- MCPropertyOf
    Inputs <- RoomAndPlan
    MaxFaults <- AnswerFaults
SPECIFICATION Spec
SYMMETRY Symmetric
INVARIANTS
    DistinctCommandsWin
    HealthTellsOutbox
PROPERTIES
    NoRepostAfterAccept
    NoStaleOverwrite
    SettledStays
