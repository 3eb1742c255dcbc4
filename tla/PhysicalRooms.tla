------------------------------ MODULE PhysicalRooms ------------------------------
(***************************************************************************)
(* The rooms a hotel sells, made from the room count of each room type:    *)
(* imports grow and archive slots, staff rename rooms, and all rows are    *)
(* written to and read from PostgreSQL one statement at a time.            *)
(*                                                                         *)
(*   packages/sync/src/physical-rooms.ts           reconcile               *)
(*   packages/sync/src/store/memory-store.ts       rows in memory          *)
(*   apps/web/server/utils/physical-rooms.ts       labels, rows            *)
(*   apps/web/server/utils/sync.ts                 the import              *)
(*                                                                         *)
(* All room types are of one property; a label is a slot number, or a name *)
(* somebody gave.                                                          *)
(***************************************************************************)
EXTENDS Naturals, Sequences, FiniteSets

CONSTANTS
    RoomTypes,      \* a sequence, in the order Channex lists them
    FirstCount, MaxCount,   \* rooms of each type at first, and at most
    Names,          \* labels staff may give; a default label is a number
    FirstRowId,     \* serial of physical_rooms
    Savers,         \* the calls of persistPhysicalRooms under way
    RoomFaults      \* bound: changes and faults of each kind

VARIABLES
    roomCounts,     \* count_of_rooms at Channex
    rooms,          \* physicalRooms in memory, in their order
    nextRoom,       \* domain.nextId('physical_room')
    table,          \* physical_rooms: a set of rows
    nextRow,        \* its serial
    saver,          \* per call: the rows still to write
    import,         \* where the import is
    roomStays,      \* rooms (by id) held by live reservations, with the slot they had
    roomFaults
roomVars == <<roomCounts, rooms, nextRoom, table, nextRow, saver, import, roomStays, roomFaults>>

TypeSet == {RoomTypes[i] : i \in DOMAIN RoomTypes}
ASSUME RoomsAssumption ==
    /\ RoomTypes \in Seq(TypeSet) /\ MaxCount \in Nat /\ FirstCount \in 0..MaxCount
    /\ FirstRowId \in Nat
RoomKinds == {"count", "rename", "assign", "cancel", "crash", "reimport"}
Uses(kind) == roomFaults[kind] > 0 /\ roomFaults' = [roomFaults EXCEPT ![kind] = @ - 1]

Room(id, type, slot) ==
    [id |-> id, type |-> type, slot |-> slot, label |-> slot, archived |-> FALSE]
SlotOf(room) == <<room.type, room.slot>>
Held(id) == \E stay \in roomStays : stay.id = id
Idle == [todo |-> <<>>, attached |-> TRUE]

RoomInit ==
    /\ roomCounts = [t \in TypeSet |-> FirstCount]
    /\ rooms = <<>> /\ nextRoom = 1
    /\ table = {} /\ nextRow = FirstRowId
    /\ saver = [s \in Savers |-> Idle]
    /\ import = "hydrate" /\ roomStays = {}
    /\ roomFaults \in {RoomFaults}

-----------------------------------------------------------------------------
(* Reconciling one room type.                                              *)

\* The k-th of a set of numbers, and the elements of a list at the places of a set, in order.
Nth(S, k) == CHOOSE n \in S : Cardinality({m \in S : m < n}) = k - 1
RowsAt(all, places) == [k \in 1..Cardinality(places) |-> all[Nth(places, k)]]

OfType(all, t) == {i \in DOMAIN all : all[i].type = t}
Others(all, t) == RowsAt(all, DOMAIN all \ OfType(all, t))
SlotsIn(all, t) == {all[i].slot : i \in OfType(all, t)}
\* The first row of a slot; a later row of the same slot is dropped.
FirstOf(all, t, slot) == all[CHOOSE i \in OfType(all, t) :
    all[i].slot = slot /\ \A j \in OfType(all, t) : all[j].slot = slot => i <= j]

\* A slot above the count is archived unless a live reservation holds its room; what a
\* reservation holds is brought back.  bySlot keeps the last row of a slot, merged
\* rows the first.
Archives(last) == ~Held(last.id)
LastOf(all, t, slot) == all[CHOOSE i \in OfType(all, t) :
    all[i].slot = slot /\ \A j \in OfType(all, t) : all[j].slot = slot => j <= i]

Slip_LeavesArchived(room) == room
Restored(room) == [room EXCEPT !.archived = FALSE]

\* Rows 1..count, the missing ones new, then the slots above from the highest down.
Missing(all, t, count) == (1..count) \ SlotsIn(all, t)
Reconciled(all, t, count, next) ==
    LET extras == {s \in SlotsIn(all, t) : s > count}
        Extra(k) == Nth(extras, Cardinality(extras) - k + 1)
    IN  [s \in 1..count |->
            IF s \in SlotsIn(all, t) THEN Restored(FirstOf(all, t, s))
            ELSE Room(next + Cardinality(Missing(all, t, s)) - 1, t, s)]
        \o [k \in 1..Cardinality(extras) |->
            [FirstOf(all, t, Extra(k)) EXCEPT !.archived = Archives(LastOf(all, t, Extra(k)))]]

\* Every type in turn: its rows are replaced by copies at the end of the list.
ReconcileType(store, t) ==
    [rooms |-> Others(store.rooms, t) \o Reconciled(store.rooms, t, roomCounts[t], store.next),
     next |-> store.next + Cardinality(Missing(store.rooms, t, roomCounts[t]))]
ReconcileAll(all, next) ==
    LET store[i \in 0..Len(RoomTypes)] ==
            IF i = 0 THEN [rooms |-> all, next |-> next]
            ELSE ReconcileType(store[i - 1], RoomTypes[i])
    IN  store[Len(RoomTypes)]

-----------------------------------------------------------------------------
(* The import.                                                             *)

\* hydratePhysicalRooms: each row replaces the room with its id, or is added.
Overlaid(all, rows) ==
    LET new == {row.id : row \in rows} \ {all[i].id : i \in DOMAIN all}
        RowOf(id) == CHOOSE row \in rows : row.id = id
        Replaced(i) == /\ \E row \in rows : row.id = all[i].id
                       /\ \A j \in 1..(i - 1) : all[j].id # all[i].id
    IN  [i \in DOMAIN all |-> IF Replaced(i) THEN RowOf(all[i].id) ELSE all[i]]
        \o [k \in 1..Cardinality(new) |-> RowOf(Nth(new, k))]

\* The first touch of a process reads the rows before its import.
HydrateRooms ==
    /\ import = "hydrate" /\ import' = "catalog"
    /\ rooms' = Overlaid(rooms, table)
    /\ UNCHANGED <<roomCounts, nextRoom, table, nextRow, saver, roomStays, roomFaults>>

\* upsertRoomType for every type: counts are taken over and rooms reconciled.
Catalog ==
    /\ import = "catalog" /\ import' = "overlay"
    /\ LET done == ReconcileAll(rooms, nextRoom)
       IN  rooms' = done.rooms /\ nextRoom' = done.next
    /\ saver' = [s \in Savers |-> [saver[s] EXCEPT !.attached = FALSE]]
    /\ UNCHANGED <<roomCounts, table, nextRow, roomStays, roomFaults>>

\* A save under way shares its rows with the store: what is read replaces them too.
Refreshed(todo) ==
    [i \in DOMAIN todo |->
        IF \E row \in table : row.id = todo[i].id
        THEN CHOOSE row \in table : row.id = todo[i].id ELSE todo[i]]

\* The rows are read again, and the counts applied to them.
Overlay(s) ==
    /\ import = "overlay" /\ import' = "done" /\ saver[s].todo = <<>>
    /\ LET done == ReconcileAll(Overlaid(rooms, table), nextRoom)
       IN  /\ rooms' = done.rooms /\ nextRoom' = done.next
           /\ saver' = [x \in Savers |->
                IF x = s THEN [todo |-> rooms', attached |-> TRUE]
                ELSE [todo |-> IF saver[x].attached THEN Refreshed(saver[x].todo) ELSE saver[x].todo,
                      attached |-> FALSE]]
    /\ UNCHANGED <<roomCounts, table, nextRow, roomStays, roomFaults>>

Reimport ==
    /\ import = "done" /\ Uses("reimport") /\ import' = "catalog"
    /\ UNCHANGED <<roomCounts, rooms, nextRoom, table, nextRow, saver, roomStays>>

-----------------------------------------------------------------------------
(* Writing the rows.                                                       *)

SameSlot(row, r) == row.type = r.type /\ row.slot = r.slot
\* physical_rooms_property_label_uidx
LabelFree(row, others) == \A r \in others : r.label # row.label

\* One row of persistPhysicalRooms: an update by type and slot, or an insert with a new
\* id.  A label another row has makes the statement fail, and the rest is not written.
Write(s) ==
    LET row == Head(saver[s].todo)
        old == {r \in table : SameSlot(row, r)}
        others == table \ old
    IN  /\ saver[s].todo # <<>>
        /\ IF LabelFree(row, others)
           THEN /\ table' = others \cup
                    (IF old = {} THEN {[row EXCEPT !.id = nextRow]}
                     ELSE {[row EXCEPT !.id = r.id] : r \in old})
                /\ saver' = [saver EXCEPT ![s].todo = Tail(@)]
           ELSE UNCHANGED table /\ saver' = [saver EXCEPT ![s] = Idle]
        /\ nextRow' = IF old = {} THEN nextRow + 1 ELSE nextRow
        /\ UNCHANGED <<roomCounts, rooms, nextRoom, import, roomStays, roomFaults>>

LabelUnused(i, name) == \A j \in DOMAIN rooms : rooms[j].id # rooms[i].id => rooms[j].label # name
Relabelled(all, i, name) ==
    [j \in DOMAIN all |-> IF all[j].id = rooms[i].id /\ SameSlot(all[j], rooms[i])
                          THEN [all[j] EXCEPT !.label = name] ELSE all[j]]
\* updatePhysicalRoomLabel and the save after it.  A save under way writes the new label
\* too, unless its rows have been replaced by copies.
Rename(s, i, name) ==
    /\ saver[s].todo = <<>> /\ Uses("rename")
    /\ LabelUnused(i, name)
    /\ rooms' = Relabelled(rooms, i, name)
    /\ saver' = [x \in Savers |->
           IF x = s THEN [todo |-> rooms', attached |-> TRUE]
           ELSE IF saver[x].attached THEN [saver[x] EXCEPT !.todo = Relabelled(@, i, name)]
           ELSE saver[x]]
    /\ UNCHANGED <<roomCounts, nextRoom, table, nextRow, import, roomStays>>

-----------------------------------------------------------------------------
(* Reservations, Channex, restarts.                                        *)

\* assignPhysicalRoom: the first free active room of the type.
Assign(t) ==
    /\ import = "done" /\ Uses("assign")
    /\ \E i \in DOMAIN rooms :
        /\ rooms[i].type = t /\ ~rooms[i].archived /\ ~Held(rooms[i].id)
        /\ \A j \in DOMAIN rooms :
            rooms[j].type = t /\ ~rooms[j].archived /\ ~Held(rooms[j].id) => rooms[i].slot <= rooms[j].slot
        /\ roomStays' = roomStays \cup {[id |-> rooms[i].id, slot |-> SlotOf(rooms[i])]}
    /\ UNCHANGED <<roomCounts, rooms, nextRoom, table, nextRow, saver, import>>
CancelStay(stay) ==
    /\ Uses("cancel") /\ roomStays' = roomStays \ {stay}
    /\ UNCHANGED <<roomCounts, rooms, nextRoom, table, nextRow, saver, import>>

Recount(t, n) ==
    /\ n # roomCounts[t] /\ Uses("count") /\ roomCounts' = [roomCounts EXCEPT ![t] = n]
    /\ UNCHANGED <<rooms, nextRoom, table, nextRow, saver, import, roomStays>>

\* Memory is lost; the reservations come back with the feed.
Crash ==
    /\ import = "done" /\ Uses("crash")
    /\ rooms' = <<>> /\ nextRoom' = 1 /\ roomStays' = {}
    /\ saver' = [s \in Savers |-> Idle] /\ import' = "hydrate"
    /\ UNCHANGED <<roomCounts, table, nextRow>>

Work(s) == Overlay(s) \/ Write(s)
RoomNext ==
    \/ HydrateRooms \/ Catalog \/ Reimport \/ (\E s \in Savers : Work(s)) \/ Crash
    \/ \E s \in Savers, i \in DOMAIN rooms, name \in Names : Rename(s, i, name)
    \/ \E t \in TypeSet : Assign(t) \/ (\E n \in 0..MaxCount : Recount(t, n))
    \/ \E stay \in roomStays : CancelStay(stay)
RoomSpec == RoomInit /\ [][RoomNext]_roomVars

-----------------------------------------------------------------------------
(* Properties.                                                             *)

\* "so counts win": an import ends with every slot up to the count of its type one
\* active room, none of them two, and with no live stays nothing above the count, through
\* growth, archiving, label clashes, restarts and saves that end in any order.
CountsWin ==
    \A t \in TypeSet, n \in 1..MaxCount :
        LET here == {i \in DOMAIN rooms : SlotOf(rooms[i]) = <<t, n>>}
            active == {i \in here : ~rooms[i].archived}
        IN  /\ Cardinality(here) <= 1
            /\ n <= roomCounts[t] => active # {}
            /\ n > roomCounts[t] /\ roomStays = {} => active = {}
ImportTakesCounts == [][import = "overlay" /\ import' = "done" => CountsWin']_roomVars

\* "never ... regenerates existing slot IDs": a live stay keeps the room it was given,
\* active and in its slot, whatever the counts and the rows read again.
StayKeepsRoom ==
    import = "done" =>
        \A stay \in roomStays : \E i \in DOMAIN rooms :
            rooms[i].id = stay.id /\ SlotOf(rooms[i]) = stay.slot /\ ~rooms[i].archived
=============================================================================
