------------------------------- MODULE CalendarNotes -------------------------------
(***************************************************************************)
(* The notes on calendar days of one property: a list in memory, written   *)
(* through to the table calendar_notes.  A new note has an id of memory    *)
(* until its row is inserted, then the id of its row.                      *)
(*                                                                         *)
(*   packages/domain/src/commands/calendar-notes.ts                        *)
(*   apps/web/server/api/calendar/notes/                                   *)
(*   apps/web/server/lib/ari-persistence.ts       rows, hydration          *)
(*                                                                         *)
(* Row ids come from one serial for all networks.  The row of the property *)
(* that a note refers to is taken to exist.                                *)
(***************************************************************************)
EXTENDS Naturals, Sequences, FiniteSets, SequencesExt

CONSTANTS
    Writers,        \* requests that run at once
    FirstSerials,   \* how many rows the notes of other networks may have had already
    MaxNotes, MaxEdits, MaxMishaps  \* bounds: notes made, edits, failing statements and restarts

ASSUME NotesAssumption == FirstSerials \subseteq Nat /\ MaxNotes \in Nat

VARIABLES
    note,       \* the record objects: note -> [id, text]
    list,       \* store.calendarNotes: which are listed, in order
    saved,      \* notes whose creation was answered, or that were read from a row
    noteRows,   \* rows of the network: [id, of, text]
    serial, counter,
    writing,    \* requests
    created, edits, mishaps,
    met         \* history: two notes have had one id
noteVars == <<note, list, saved, noteRows, serial, counter, writing, created, edits, mishaps, met>>

Notes == 1..MaxNotes
NotWriting == [at |-> "idle", of |-> 0, id |-> 0, text |-> 0]

NotesInit ==
    /\ note = [k \in Notes |-> [id |-> 0, text |-> 0]] /\ list = <<>> /\ saved = {}
    /\ noteRows = {} /\ serial \in FirstSerials /\ counter = 0
    /\ writing = [q \in Writers |-> NotWriting] /\ created = 0 /\ edits = 0 /\ mishaps = 0
    /\ met = FALSE

\* The ids a note goes by: its id in memory, and the id of its row.
IdsOf(k) == ({note[k].id} \ {0}) \cup {r.id : r \in {r \in noteRows : r.of = k}}
Meets == \E j, k \in Notes : j # k /\ IdsOf(j) \cap IdsOf(k) # {}
SeesIds == met' = (met \/ Meets')

Await(q, r) == writing' = [writing EXCEPT ![q] = r]
Mishap == mishaps < MaxMishaps /\ mishaps' = mishaps + 1

\* findNote, and the find of the create handler: the first with this id.
ListedIds == {note[k].id : k \in ToSet(list)}
FirstIndex(id) == Min({i \in DOMAIN list : note[list[i]].id = id})
FirstWith(id) == list[FirstIndex(id)]

\* createCalendarNote, then the insert is sent.
CreateNote(q) ==
    /\ writing[q] = NotWriting /\ created < MaxNotes
    /\ created' = created + 1 /\ counter' = counter + 1
    /\ note' = [note EXCEPT ![created'] = [id |-> counter', text |-> 0]]
    /\ list' = Append(list, created')
    /\ Await(q, [at |-> "insert", of |-> created', id |-> 0, text |-> 0])
    /\ UNCHANGED <<saved, noteRows, serial, edits, mishaps>> /\ SeesIds
NoteInserted(q) ==
    /\ writing[q].at = "insert" /\ serial' = serial + 1
    /\ noteRows' = noteRows \cup {[id |-> serial', of |-> writing[q].of, text |-> 0]}
    /\ Await(q, [writing[q] EXCEPT !.at = "answer", !.id = serial'])
    /\ UNCHANGED <<note, list, saved, counter, created, edits, mishaps>> /\ SeesIds

Slip_KeepsMemoryId(k, id) == note
\* memory.id = persisted.id for the first note listed under the id that note k has, then
\* note.id = persisted.id
Renumbered(k, id) ==
    LET found == IF note[k].id \in ListedIds THEN {FirstWith(note[k].id)} ELSE {}
    IN  [j \in Notes |-> IF j \in found \cup {k} THEN [note[j] EXCEPT !.id = id] ELSE note[j]]
NoteAnswered(q) ==
    /\ writing[q].at = "answer" /\ note' = Renumbered(writing[q].of, writing[q].id)
    /\ saved' = saved \cup {writing[q].of} /\ Await(q, NotWriting)
    /\ UNCHANGED <<list, noteRows, serial, counter, created, edits, mishaps>> /\ SeesIds

\* PATCH: updateCalendarNote, then the row with the note's id.
EditNote(q, id) ==
    LET k == FirstWith(id)
    IN  /\ writing[q] = NotWriting /\ id \in ListedIds /\ edits < MaxEdits /\ edits' = edits + 1
        /\ note' = [note EXCEPT ![k].text = edits']
        /\ Await(q, [at |-> "update", of |-> k, id |-> id, text |-> edits'])
        /\ UNCHANGED <<list, saved, noteRows, serial, counter, created, mishaps, met>>
RowUpdated(q) ==
    /\ writing[q].at = "update" /\ Await(q, NotWriting)
    /\ noteRows' = {IF r.id = writing[q].id THEN [r EXCEPT !.text = writing[q].text] ELSE r : r \in noteRows}
    /\ UNCHANGED <<note, list, saved, serial, counter, created, edits, mishaps, met>>
\* DELETE: deleteCalendarNote, then the row with the id that was asked for.
DeleteNote(q, id) ==
    /\ writing[q] = NotWriting /\ id \in ListedIds
    /\ list' = RemoveAt(list, FirstIndex(id))
    /\ Await(q, [at |-> "delete", of |-> FirstWith(id), id |-> id, text |-> 0])
    /\ UNCHANGED <<note, saved, noteRows, serial, counter, created, edits, mishaps, met>>
RowDeleted(q) ==
    /\ writing[q].at = "delete" /\ Await(q, NotWriting)
    /\ noteRows' = {r \in noteRows : r.id # writing[q].id}
    /\ UNCHANGED <<note, list, saved, serial, counter, created, edits, mishaps, met>>
\* A statement fails: the list keeps what the command did.
StatementFails(q) ==
    /\ writing[q].at \in {"insert", "update", "delete"} /\ Mishap /\ Await(q, NotWriting)
    /\ UNCHANGED <<note, list, saved, noteRows, serial, counter, created, edits, met>>
\* hydrateAriState reads the rows, in no order; the counters of memory begin again.
NotesRestart ==
    /\ Mishap /\ writing' = [q \in Writers |-> NotWriting] /\ counter' = 0
    /\ LET RowOf(k) == CHOOSE r \in noteRows : r.of = k
           kept == {r.of : r \in noteRows}
       IN  /\ note' = [k \in Notes |-> IF k \in kept THEN [id |-> RowOf(k).id, text |-> RowOf(k).text]
                                        ELSE [id |-> 0, text |-> 0]]
           /\ list' \in Bijection(1..Cardinality(kept), kept) /\ saved' = kept
    /\ UNCHANGED <<noteRows, serial, created, edits>> /\ SeesIds

NotesNext ==
    \/ \E q \in Writers :
        \/ CreateNote(q) \/ NoteInserted(q) \/ NoteAnswered(q) \/ RowUpdated(q) \/ RowDeleted(q)
        \/ StatementFails(q) \/ \E id \in ListedIds : EditNote(q, id) \/ DeleteNote(q, id)
    \/ NotesRestart
NotesSpec == NotesInit /\ [][NotesNext]_noteVars

-----------------------------------------------------------------------------
(* Properties.                                                             *)

\* "Write-through: notes must survive restarts; memory id follows the PG serial": once all
\* requests are answered, each saved note that is listed has the id of its own row, so what
\* staff edit or delete by that id is what they see.
NotesFollowRows ==
    (\A q \in Writers : writing[q] = NotWriting) =>
        \A k \in saved \cap ToSet(list) :
            \E r \in noteRows : r.of = k /\ r.id = note[k].id
\* So it is as long as no two notes have gone by one id, which nothing in the code sees to: the
\* counter of memory and the serial of the rows run apart with the first restart, insert that
\* fails, or note of another network.
ApartNotesFollowRows == ~met => NotesFollowRows
=============================================================================
