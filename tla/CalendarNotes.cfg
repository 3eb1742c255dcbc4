CONSTANTS
 Writers = {q1, q2}
 FirstSerials = {0}
 MaxNotes = 3
 MaxEdits = 1
 MaxMishaps = 1
SPECIFICATION NotesSpec
INVARIANT NotesFollowRows
CHECK_DEADLOCK FALSE
