------------------------------ MODULE MCAriOutbox ------------------------------
(***************************************************************************)
(* Small instances of AriOutbox.  roomA and roomB are availability         *)
(* resources of property 1, plan a rate plan of property 2; one day, d1.   *)
(***************************************************************************)
EXTENDS SyncHealth, TLC

CONSTANTS roomA, roomB, plan, d1, r1, c1, c2, v0, v1, v2, v3

\* One fault of each kind, at most n in all.
Faulty(n, kinds) == [k \in FaultKinds |-> IF k = "any" THEN n ELSE IF k \in kinds THEN 1 ELSE 0]

MCPropertyOf == [res \in Resources |-> IF res = plan THEN 2 ELSE 1]

Set(res, dates, val) == [res |-> res, dates |-> dates, fields |-> Fields, val |-> val]

\* A room and a rate plan of another property.
RoomAndPlan == {Set(roomA, {d1}, v) : v \in {v1, v2}} \cup {Set(plan, {d1}, v3)}
\* A room, and one of a property without a Channex id.
RoomsAndOrphan == {Set(roomA, {d1}, v) : v \in {v1, v2}} \cup {Set(roomB, {d1}, v3)}
\* One room, two values: every command covers the same cell.
OneRoom == {Set(roomA, {d1}, v) : v \in {v1, v2}}

AnswerFaults == Faulty(2, {"warn", "refuse", "edit"})
CrashFaults == Faulty(2, {"crash", "db"})
LossFaults == Faulty(3, {"crash", "get", "lost", "warn", "edit"})

\* The inputs treat v1 and v2 alike; never used with a liveness property.
Symmetric == Permutations(Clients) \cup Permutations({v1, v2})
=============================================================================
