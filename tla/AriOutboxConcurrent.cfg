\* Two requests at once beside a drain, failing statements and a restart.
CONSTANTS
    roomA = roomA  roomB = roomB  plan = plan
    d1 = d1  r1 = r1  c1 = c1  c2 = c2
    v0 = v0  v1 = v1  v2 = v2  v3 = v3
    Resources = {roomA, roomB}
    RatePlans = {}
    Unmapped = {roomB}
    Dates = {d1}
    Fields = {avail}
    Values = {v0, v1, v2, v3}
    InitialValue = v0
    FirstDbId = 2
    Clients = {c1, c2}
    Runs = {r1}
    NoRun = NoRun
    NoRow = NoRow
    NoReq = NoReq
    MaxCommands = 3
    MaxVersion = 0
    PropertyOf <- MCPropertyOf
    Inputs <- RoomsAndOrphan
    MaxFaults <- CrashFaults
SPECIFICATION Spec
SYMMETRY Symmetric
INVARIANTS
    LiveKeysUnique
    AckedIsDurable
