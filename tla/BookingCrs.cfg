\* Two submits of a booking, the drain, failing statements, lost answers, a webhook or a restart.
CONSTANTS
    twin = twin  p1 = p1  a1 = a1  c1 = c1  c2 = c2  d1 = d1
    RoomTypes = {twin}
    NoType = NoType
    Rooms = {1}
    TypeOf <- AllTwin
    NoRoom = 0
    Stays <- MCStays
    NoCode = 0
    NoRes = NoRes
    NoPull = NoPull
    Pullers = {p1}
    Ackers = {}
    Histories <- OnlyDirect
    MaxRevisions = 2
    MaxRes = 3
    MaxFaults <- OneCrash
    Clients = {c1, c2}
    Drains = {d1}
    Requests <- OneRequest
    NoIntent = NoIntent
    MaxCrsFaults <- OneEach
SPECIFICATION CrsFairSpec

INVARIANTS
    ConfirmedByRevision
    OneCreatePerCode
    OneReservationPerDirectBooking
    LiveIsDurable
PROPERTIES
    IntentsSettle
