\* Feed, webhooks, retries, failed requests and a restart bring the same revisions.
CONSTANTS
    twin = twin  p1 = p1  a1 = a1
    RoomTypes = {twin}
    NoType = NoType
    Rooms = {1}
    TypeOf <- AllTwin
    NoRoom = 0
    Stays <- MCStays
    NoCode = 0
    NoRes = NoRes
    NoPull = NoPull
    Pullers = {p1}
    Ackers = {a1}
    Histories <- MCHistories
    MaxRevisions = 3
    MaxRes = 2
    MaxFaults <- AllFaults
SPECIFICATION FairSpec

INVARIANTS
    TypeOK
    NoDoubleBooking
    OneReservationPerBooking
    AppliedOnce
PROPERTIES
    AckAfterCommit
    CancelledStays
    AllAcked
