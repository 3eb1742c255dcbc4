-------------------------- MODULE MCBookingRevisions --------------------------
(***************************************************************************)
(* Small instances of BookingRevisions: a room type with one room, three   *)
(* stays of which the last shares nights with the two others.              *)
(***************************************************************************)
EXTENDS BookingRevisions, TLC

CONSTANTS twin, p1, a1

Stay(from, to) == [from |-> from, to |-> to]
MCStays == {Stay(0, 1), Stay(1, 2), Stay(0, 2)}
AllTwin == [k \in Rooms |-> twin]

Rev(b, status, stay) ==
    [booking |-> b, code |-> NoCode, status |-> status, stay |-> stay,
     type |-> IF status = "cancelled" THEN NoType ELSE twin]
\* Two neighbours, and one moves into the other's night; a booking that ends.
MCHistories ==
    {<<Rev(1, "new", Stay(0, 1)), Rev(2, "new", Stay(1, 2)), Rev(1, "modified", Stay(0, 2))>>,
     <<Rev(1, "new", Stay(0, 1)), Rev(1, "cancelled", Stay(0, 1))>>}

Faulty(n, kinds) ==
    [k \in FaultKinds |-> IF k = "any" THEN n ELSE IF k \in kinds THEN 1 ELSE 0]
AllFaults == Faulty(2, FaultKinds)
OneHook == Faulty(1, {"hook"})
=============================================================================
