\* A worker, a webhook, an editor, an edit at Channex and any one fault.
CONSTANTS
    r1 = r1   k2 = k2  worker = worker  hook = hook  v1 = v1  v2 = v2
    Properties = {1, 2}
    Rooms = {r1}
    Plans = {k2}
    PropertyOf <- PropertyOfCell
    Values = {v1, v2}
    InitialValue = v1
    Pullers = {worker, hook}
    ScopeOf <- Scope
    Millis = {1, 2}
    Nobody = Nobody
    NoRow = NoRow
    NoIntent = NoIntent
    NoAnswer = NoAnswer
    MaxFaults <- AnyOne
SPECIFICATION FairSpec

INVARIANTS
    FreshFormHolds
PROPERTIES
    IsLaggingCopy
    VersionNeverFalls
    Converges
