----------------------------- MODULE MCCalendarNotes -----------------------------
(* Small instances of CalendarNotes for TLC. *)
EXTENDS CalendarNotes
=============================================================================
