----------------------------- MODULE MCBookingCrs -----------------------------
(***************************************************************************)
(* Small instances of BookingCrs: one room, up to two reservations, and    *)
(* what Channex may say of its own accord besides the bookings sent to it. *)
(***************************************************************************)
EXTENDS BookingCrs, TLC

CONSTANTS twin, p1, a1, c1, c2, d1

Night == [from |-> 0, to |-> 1]
MCStays == {Night}
AllTwin == [k \in Rooms |-> twin]
OneRequest == {[stay |-> Night, type |-> twin, key |-> 1]}
TwoRequests == OneRequest \cup {[stay |-> Night, type |-> twin, key |-> 2]}

Rev(b, code, status) ==
    [booking |-> b, code |-> code, status |-> status, stay |-> Night,
     type |-> IF status = "cancelled" THEN NoType ELSE twin]
\* The booking sent first is cancelled.
MCHistories == {<<Rev(1, 1, "new"), Rev(1, 1, "cancelled")>>}
OnlyDirect == {<<>>}

Faulty(n, kinds) ==
    [k \in FaultKinds |-> IF k = "any" THEN n ELSE IF k \in kinds THEN 1 ELSE 0]
OneHook == Faulty(1, {"hook"})
OneCrash == Faulty(1, {"crash"})
NoFaults == Faulty(0, {})
Each(n) == [k \in CrsFaultKinds |-> n]
OneEach == Each(1)
None == Each(0)
=============================================================================
