\* Lost requests, failing reads and a restart: everything acknowledged settles.
CONSTANTS
    roomA = roomA  roomB = roomB  plan = plan
    d1 = d1  r1 = r1  c1 = c1  c2 = c2
    v0 = v0  v1 = v1  v2 = v2  v3 = v3
    Resources = {roomA}
    RatePlans = {}
    Unmapped = {}
    Dates = {d1}
    Fields = {avail}
    Values = {v0, v1, v2}
    InitialValue = v0
    FirstDbId = 1
    Clients = {c1}
    Runs = {r1}
    NoRun = NoRun
    NoRow = NoRow
    NoReq = NoReq
    MaxCommands = 2
    MaxVersion = 0
    PropertyOf <- MCPropertyOf
    Inputs <- OneRoom
    MaxFaults <- LossFaults
SPECIFICATION FairSpec
INVARIANTS
    TypeOK
    SendingHasSender
PROPERTIES
    AckedSettles
