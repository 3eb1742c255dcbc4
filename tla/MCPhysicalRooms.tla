---------------------------- MODULE MCPhysicalRooms ----------------------------
EXTENDS PhysicalRooms, TLC
CONSTANTS t1, t2, n1, s1, s2
OneType == <<t1>>
TwoTypes == <<t1, t2>>
MCFaults == [k \in RoomKinds |-> IF k = "count" THEN 2 ELSE 1]
Quiet == [k \in RoomKinds |-> IF k \in {"count", "rename", "crash"} THEN 0 ELSE 2]
=============================================================================
