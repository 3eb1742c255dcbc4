CONSTANTS
    r1 = r1 Rules = {r1} Forms <- MCForms FirstForm <- MCFirst Events <- MCEvents
    Nobody = Nobody NoRun = NoRun NoApproval = NoApproval MaxVersion = 2 MaxAttempts = 5
    h1 = h1 b1 = b1 Threads = {h1} BookingOf <- MCBookingOf NoBooking = NoBooking
    NoHolder = NoHolder Pullers = {p1} Staff = {e1} MaxRemote = 3 MaxTroubles = 1
    Networks = {nA, nB} FirstNetwork = nA Ranges = {d1, d2} FirstRange = d1 Nowhere = Nowhere
    Refreshes = {f1} Loads = {l1, l2} MaxSnapshot = 2 MaxWrites = 1 MaxMoves = 1
    v1 = v1 v2 = v2 WorkerNetworks <- MCList
SPECIFICATION Spec
INVARIANTS
    HistoryTellsEffects
    MessagesApproved
PROPERTIES
    RunsFinish
    PullsBring
    StaleIsDrawn
    EveryNetworkServed
CHECK_DEADLOCK FALSE
