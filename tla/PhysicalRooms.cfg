\* A hotel whose rows begin at 2: another hotel came first.
CONSTANTS
    t1 = t1 t2 = t2 n1 = n1 s1 = s1 s2 = s2
    RoomTypes <- OneType FirstCount = 2 MaxCount = 3 Names = {n1} FirstRowId = 2
    Savers = {s1} RoomFaults <- Quiet
SPECIFICATION RoomSpec
INVARIANT StayKeepsRoom
CHECK_DEADLOCK FALSE
