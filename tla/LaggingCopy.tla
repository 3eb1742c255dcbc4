------------------------------ MODULE LaggingCopy ------------------------------
(***************************************************************************)
(* What a projection of a remote state promises, whatever way it is        *)
(* refreshed: each cell of the copy is empty or holds a value the source   *)
(* has had there, and a cell once known is only lost in a restart.         *)
(***************************************************************************)
CONSTANTS
    Cell, Value, Unknown
VARIABLES
    source,     \* the value of each cell
    past,       \* the values each cell has had
    copy        \* the projection

vars == <<source, past, copy>>

Init ==
    /\ source \in [Cell -> Value]
    /\ past = [c \in Cell |-> {source[c]}]
    /\ copy = [c \in Cell |-> Unknown]

Change(c, v) ==
    /\ source' = [source EXCEPT ![c] = v]
    /\ past' = [past EXCEPT ![c] = @ \cup {v}]
    /\ UNCHANGED copy

\* Any number of cells learn a value, old or new.
Learn ==
    /\ copy' # copy
    /\ \A c \in Cell : copy'[c] = copy[c] \/ copy'[c] \in past[c]
    /\ UNCHANGED <<source, past>>

\* A restart: what is not known to the copy's own store is lost.
Restart ==
    /\ copy' = [c \in Cell |-> Unknown]
    /\ UNCHANGED <<source, past>>

Next == (\E c \in Cell, v \in Value : Change(c, v)) \/ Learn \/ Restart

Spec == Init /\ [][Next]_vars
=============================================================================
