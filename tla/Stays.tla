---------------------------------- MODULE Stays ----------------------------------
(***************************************************************************)
(* What the front desk does with bookings and around them: check-in and    *)
(* check-out, payments, tasks, reviews, and properties and rooms that are  *)
(* archived, while revisions of Channex go on changing the bookings.       *)
(*                                                                         *)
(*   packages/domain/src/commands/                the commands             *)
(*   apps/web/server/api/                         the routes before them   *)
(*                                                                         *)
(* Where revisions and direct bookings come from is in BookingRevisions    *)
(* and BookingCrs, where rooms come from in PhysicalRooms; all of this is  *)
(* in the memory of one process.                                           *)
(***************************************************************************)
EXTENDS Access, Naturals, Sequences, FiniteSets, FiniteSetsExt

CONSTANTS
    Homes, Hotels,  \* properties, and those of them with rooms
    Rooms,          \* the hotel of each physical room, a sequence in sort order
    GuestKeys, NoGuest,
    Principals,     \* who calls
    Nights,         \* the pairs of days <<from, to>> that are booked
    MaxStays, MaxActs   \* bounds: bookings, and everything that happens

ASSUME StaysAssumption ==
    /\ IsFiniteSet(Homes) /\ Hotels \subseteq Homes /\ Rooms \in Seq(Hotels)
    /\ \A w \in Nights : w \in Int \X Int /\ w[1] <= w[2]
    /\ \A p \in Principals :
        /\ p = Principal(p.user, p.role, p.members, p.owns)
        /\ p.role \in DOMAIN ModuleMatrix

VARIABLES
    stays,          \* reservations, in the order of their ids
    archived,       \* physical rooms that an import has archived
    closed,         \* properties archived by staff
    ledger, tasks, reviews,
    acts
stayVars == <<stays, archived, closed, ledger, tasks, reviews, acts>>

NoRoom == 0
NoEntry == 0
StaysInit ==
    /\ stays = <<>> /\ archived = {} /\ closed = {}
    /\ ledger = <<>> /\ tasks = <<>> /\ reviews = <<>> /\ acts = 0
Act == acts < MaxActs /\ acts' = acts + 1
others == <<archived, closed, ledger, tasks, reviews>>

-----------------------------------------------------------------------------
(* Bookings.                                                               *)

Live(s) == s.status # "cancelled"
Overlap(s, t) == s.from < t.to /\ t.from < s.to
\* assignPhysicalRoom: the room it has when that is free, otherwise the first free one, none
\* when the booking has no room type that is known.
Free(id, s) ==
    {r \in DOMAIN Rooms \ archived : Rooms[r] = s.home /\
        \A t \in DOMAIN stays \ {id} : ~(Live(stays[t]) /\ stays[t].room = r /\ Overlap(stays[t], s))}
Assigned(id, s) ==
    LET free == Free(id, s)
    IN  {NoRoom} \cup IF free = {} THEN {} ELSE {IF s.room \in free THEN s.room ELSE Min(free)}

NewStay(home, guest, w, status) ==
    [home |-> home, guest |-> guest, from |-> w[1], to |-> w[2], status |-> status, room |-> NoRoom,
     op |-> "none"]
\* A revision of an unknown booking, or a direct one that waits for its revision without a room.
Book(home, guest, w, status) ==
    LET s == NewStay(home, guest, w, status)
    IN  /\ Act /\ Len(stays) < MaxStays
        /\ status = "pending_sync" => guest # NoGuest
        /\ \E room \in IF status = "confirmed" THEN Assigned(Len(stays) + 1, s) ELSE {NoRoom} :
            stays' = Append(stays, [s EXCEPT !.room = room])
        /\ UNCHANGED others
\* A revision of a known one: the name of the guest may be missing from it.
Change(id, guest, w) ==
    LET s == [stays[id] EXCEPT !.from = w[1], !.to = w[2],
                               !.guest = IF guest = NoGuest THEN @ ELSE guest,
                               !.status = IF @ = "pending_sync" THEN "confirmed" ELSE @]
    IN  /\ Act /\ Len(stays) < MaxStays
        /\ \E room \in IF Live(s) THEN Assigned(id, s) ELSE {NoRoom} :
            stays' = [stays EXCEPT ![id] = [s EXCEPT !.room = room]]
        /\ UNCHANGED others
Cancel(id) ==
    /\ Act /\ Live(stays[id]) /\ UNCHANGED others
    /\ stays' = [stays EXCEPT ![id].status = "cancelled", ![id].room = NoRoom]

\* findReservationInScope.
InScope(p, id) == CanAccessProperty(p, stays[id].home)
AdmitsStay(p, id) == Admits(p, "reservations") /\ InScope(p, id)
MayCheckIn(s) == s.status \notin {"pending_sync", "cancelled"}
CheckIn(p, id) ==
    /\ Act /\ AdmitsStay(p, id) /\ MayCheckIn(stays[id])
    /\ stays' = [stays EXCEPT ![id].op = "checked_in"] /\ UNCHANGED others
\* The time of the check-in outlives a check-out, and lets one be repeated.
MayCheckOut(s) == s.op # "none"
CheckOut(p, id) ==
    /\ Act /\ AdmitsStay(p, id) /\ MayCheckOut(stays[id])
    /\ stays' = [stays EXCEPT ![id].op = "checked_out"] /\ UNCHANGED others

-----------------------------------------------------------------------------
(* Around bookings.                                                        *)

\* recordLedgerPayment: an entry that another one compensates need only exist.
AdmitsPayment(p, id) == Admits(p, "payments") /\ InScope(p, id)
RecordPayment(p, id, of) ==
    /\ Act /\ AdmitsPayment(p, id)
    /\ ledger' = Append(ledger, [stay |-> id, compensates |-> of])
    /\ UNCHANGED <<stays, archived, closed, tasks, reviews>>

CreateTask(p, home, to) ==
    /\ Act /\ Admits(p, "tasks") /\ CanAccessProperty(p, home)
    /\ tasks' = Append(tasks, [home |-> home, assigned |-> to, status |-> "todo"])
    /\ UNCHANGED <<stays, archived, closed, ledger, reviews>>
AdmitsTask(p, t) ==
    /\ Admits(p, "tasks") /\ CanAccessProperty(p, tasks[t].home)
    /\ p.role = "housekeeping" => tasks[t].assigned = p.user
UpdateTask(p, t) ==
    /\ Act /\ AdmitsTask(p, t) /\ tasks' = [tasks EXCEPT ![t].status = "done"]
    /\ UNCHANGED <<stays, archived, closed, ledger, reviews>>

\* importLocalReviews appends its two fixtures each time.
ImportReviews(p, home) ==
    /\ Act /\ Admits(p, "reviews") /\ CanAccessProperty(p, home)
    /\ reviews' = reviews \o [i \in 1..2 |-> [home |-> home, status |-> "pending"]]
    /\ UNCHANGED <<stays, archived, closed, ledger, tasks>>
AdmitsReview(p, i) == Admits(p, "reviews") /\ CanAccessProperty(p, reviews[i].home)
UpdateReview(p, i) ==
    /\ Act /\ AdmitsReview(p, i) /\ reviews' = [reviews EXCEPT ![i].status = "responded"]
    /\ UNCHANGED <<stays, archived, closed, ledger, tasks>>

\* updatePropertyOps with archive set, either way.
UpdatePropertyOps(p, home, archive) ==
    /\ Act /\ Admits(p, "properties") /\ CanAccessProperty(p, home)
    /\ closed' = IF archive THEN closed \cup {home} ELSE closed \ {home}
    /\ UNCHANGED <<stays, archived, ledger, tasks, reviews>>
\* An import with another room count; a room that a live booking has is not archived.
Slot(r) == Cardinality({q \in 1..r : Rooms[q] = Rooms[r]})
Occupied(r) == \E id \in DOMAIN stays : Live(stays[id]) /\ stays[id].room = r
ImportRooms(hotel, count) ==
    /\ Act
    /\ archived' = {r \in DOMAIN Rooms :
        IF Rooms[r] = hotel THEN Slot(r) > count /\ ~Occupied(r) ELSE r \in archived}
    /\ UNCHANGED <<stays, closed, ledger, tasks, reviews>>

StaysNext ==
    \/ \E home \in Homes, guest \in GuestKeys \cup {NoGuest}, w \in Nights :
        \E status \in {"confirmed", "cancelled", "pending_sync"} : Book(home, guest, w, status)
    \/ \E id \in DOMAIN stays :
        \/ \E guest \in GuestKeys \cup {NoGuest}, w \in Nights : Change(id, guest, w)
        \/ Cancel(id)
        \/ \E p \in Principals :
            \/ CheckIn(p, id) \/ CheckOut(p, id)
            \/ \E of \in DOMAIN ledger \cup {NoEntry} : RecordPayment(p, id, of)
    \/ \E p \in Principals :
        \/ \E home \in Homes :
            \/ \E q \in Principals : CreateTask(p, home, q.user)
            \/ ImportReviews(p, home)
            \/ \E archive \in BOOLEAN : UpdatePropertyOps(p, home, archive)
        \/ \E t \in DOMAIN tasks : UpdateTask(p, t)
        \/ \E i \in DOMAIN reviews : UpdateReview(p, i)
    \/ \E hotel \in Hotels, count \in 0..Len(Rooms) : ImportRooms(hotel, count)
StaysSpec == StaysInit /\ [][StaysNext]_stayVars
=============================================================================
