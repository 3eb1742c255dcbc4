----------------------------- MODULE AriProjection -----------------------------
(***************************************************************************)
(* The projection of Channex ARI the calendar is drawn from: how a pull    *)
(* copies availability and restrictions into memory under a snapshot       *)
(* version, how changed rows reach PostgreSQL, what a read-back of the     *)
(* outbox writes, and what an editor's form may rely on.                   *)
(*                                                                         *)
(*   packages/sync/src/jobs/pull-ari.ts             the pull               *)
(*   apps/web/server/utils/sync.ts                  its callers            *)
(*   apps/web/server/lib/ari-persistence.ts         rows, hydration        *)
(*   packages/domain/src/ari.ts                     versions, freshness    *)
(*   packages/sync/src/jobs/process-ari-write-outbox.ts    read-backs      *)
(*                                                                         *)
(* A cell is what the projection has one row for: a room type or a rate    *)
(* plan, on one date.  Its value is one symbol.  A GET is two steps, the   *)
(* moment Channex reads its state and the moment the answer is handled;    *)
(* between them everybody else runs.                                       *)
(***************************************************************************)
EXTENDS Naturals, FiniteSets

CONSTANTS
    Properties,     \* numbers, in the order of listProperties
    Rooms, Plans,   \* cells of room types, cells of rate plans
    PropertyOf,     \* cell -> its property
    Values,
    InitialValue,
    Pullers,        \* callers of runInternalAriPull: the worker, webhooks
    ScopeOf,        \* puller -> the properties it asks for
    Millis,         \* numbers for milliseconds: a pull is named for the one it began in
    Nobody,         \* the lease is free
    NoRow, NoIntent, NoAnswer,
    MaxFaults       \* bound: faults of each kind and outside edits, "any": all but the edits

Cells == Rooms \cup Plans
FaultKinds == {"any", "get", "save", "lapse", "meet", "crash", "edit", "submit", "withdraw"}

ASSUME ProjectionAssumption ==
    /\ Properties \subseteq Nat /\ Rooms \cap Plans = {} /\ IsFiniteSet(Cells)
    /\ PropertyOf \in [Cells -> Properties]
    /\ InitialValue \in Values
    /\ ScopeOf \in [Pullers -> SUBSET Properties]
    /\ Millis \subseteq Nat /\ Nobody \notin Millis
    /\ MaxFaults \in [FaultKinds -> Nat]

VARIABLES
    channex,    \* what Channex holds in each cell
    offered,    \* the rate plans Channex lists
    rows,       \* domain.ariAvailability and ariRestrictions
    plans,      \* domain.ratePlans
    saved,      \* the rows of PostgreSQL
    lease,      \* the name that holds the lease of job pull_ari
    now,        \* the millisecond the last pull began in, if it may still last and one so named is under way
    pull,       \* per puller: its program counter and locals
    hydrated,   \* the process has loaded the rows after its start
    forms,      \* every form drawn so far: the version and values it was drawn from
    intent,     \* the one outbox intent under way
    faults,     \* faults still allowed
    held,       \* history: values Channex has had in each cell
    disturbed   \* history: a lease ran out, was shared, or the process was restarted
remoteVars == <<channex, offered, held>>
memory == <<rows, plans, pull, lease, now, hydrated>>
vars == <<remoteVars, memory, saved, forms, intent, faults, disturbed>>

Row == [val : Values, ver : Nat]
ASSUME NoRowAssumption == NoRow \notin Row
Idle == [pc |-> "idle", name |-> Nobody, cand |-> 0, todo |-> {}, ids |-> {}, got |-> NoAnswer,
         changed |-> FALSE, save |-> {}]

SetMin(S) == CHOOSE x \in S : \A y \in S : x <= y
SetMax(S) == CHOOSE x \in S : \A y \in S : y <= x
\* currentSnapshotVersion: the highest version of any row, 0 when never pulled.
VersionOf(table) == SetMax({0} \cup {table[c].ver : c \in {x \in Cells : table[x] # NoRow}})
RoomsOf(p) == {c \in Rooms : PropertyOf[c] = p}
PlansOf(p) == {c \in Plans : PropertyOf[c] = p}

CanFault(kind) == faults["any"] > 0 /\ faults[kind] > 0
Fault(kind) ==
    faults' = [k \in FaultKinds |-> faults[k] - (IF k \in {"any", kind} THEN 1 ELSE 0)]

Init ==
    /\ channex = [c \in Cells |-> InitialValue] /\ offered = Plans
    /\ held = [c \in Cells |-> {InitialValue}]
    /\ rows = [c \in Cells |-> NoRow] /\ plans = {} /\ saved = rows
    /\ lease = Nobody /\ now = Nobody /\ disturbed = FALSE
    /\ pull = [h \in Pullers |-> Idle]
    /\ hydrated = TRUE
    /\ forms = {} /\ intent = NoIntent
    /\ faults = MaxFaults

Quiet(locals) == \A h \in Pullers : locals[h].pc \in {"idle", "persist"}
Drawn(table) == [c \in Cells |-> IF table[c] = NoRow THEN NoRow ELSE table[c].val]
Unsettled(drawn) == {[f EXCEPT !.settled = FALSE] : f \in drawn}

\* Somebody draws the calendar after every step and keeps the form: values and version
\* of one moment.  settled is history: no pull was under way, and what was drawn has
\* not been overtaken by a read-back or a restart.
Draws(kept) ==
    forms' = IF ~hydrated' THEN kept
             ELSE kept \cup {[ver |-> VersionOf(rows'), seen |-> Drawn(rows'),
                              settled |-> Quiet(pull')]}

-----------------------------------------------------------------------------
(* The pull.                                                               *)

PullOnly == UNCHANGED <<remoteVars, hydrated, intent>> /\ Draws(forms)

\* The first request for the properties still to do: rooms are asked for where the
\* catalog has any, rate plans always.
Asking(locals) ==
    [locals EXCEPT !.got = NoAnswer,
        !.pc = IF RoomsOf(SetMin(locals.todo)) = {} THEN "plans" ELSE "avail"]

Slip_LastVersion == VersionOf(rows)
\* The version for what this pull changes, fixed before its first request.
CandidateVersion == VersionOf(rows) + 1

\* web-${Date.now()}: the clock is where it was when the last pull began, or has gone on to a
\* millisecond that no pull under way is named for.
Unused == Millis \ ({lease} \cup {pull[h].name : h \in Pullers})
Names == ({now} \ {Nobody}) \cup {n \in Unused : \A m \in Unused : n <= m}

Slip_NoLease(name) == TRUE
\* tryAcquireLease: free, run out, or held under my name, be it by another pull.
LeaseFree(name) == lease \in {Nobody, name}

StartPull(h) ==
    /\ hydrated /\ pull[h].pc = "idle" /\ ScopeOf[h] # {}
    /\ \E name \in Names :
        /\ LeaseFree(name) /\ lease' = name /\ now' = name
        /\ pull' = [pull EXCEPT ![h] =
               Asking([Idle EXCEPT !.name = name, !.cand = CandidateVersion, !.todo = ScopeOf[h]])]
        /\ IF name = now THEN CanFault("meet") /\ Fault("meet") ELSE UNCHANGED faults
        /\ disturbed' = (disturbed \/ lease = name)
    /\ UNCHANGED <<rows, plans, saved>> /\ PullOnly

At(h, pc) == pull[h].pc = pc
Property(h) == SetMin(pull[h].todo)

\* Channex reads what was asked for.  A plan it no longer offers has no prices.
Serve(h) ==
    /\ pull[h].pc \in {"avail", "plans", "restr"} /\ pull[h].got = NoAnswer
    /\ pull' = [pull EXCEPT ![h].got =
           CASE At(h, "avail") -> [c \in RoomsOf(Property(h)) |-> channex[c]]
             [] At(h, "plans") -> offered \cap PlansOf(Property(h))
             [] At(h, "restr") -> [c \in offered \cap PlansOf(Property(h)) |-> channex[c]]]
    /\ UNCHANGED <<rows, plans, lease, saved, faults, disturbed, now>> /\ PullOnly
Answered(h, pc) == At(h, pc) /\ pull[h].got # NoAnswer

\* Rows of the cells in S with the answer's values: an equal value keeps its version.
Slip_FirstWins(h, S) ==
    [c \in Cells |->
        IF c \notin S \/ rows[c] # NoRow THEN rows[c]
        ELSE [val |-> pull[h].got[c], ver |-> pull[h].cand]]
Slip_Replaced(h, S) ==
    [c \in Cells |->
        IF c \in S THEN [val |-> pull[h].got[c], ver |-> pull[h].cand]
        ELSE IF PropertyOf[c] = Property(h) THEN NoRow ELSE rows[c]]
Upserted(h, S) ==
    [c \in Cells |->
        IF c \notin S \/ (rows[c] # NoRow /\ rows[c].val = pull[h].got[c]) THEN rows[c]
        ELSE [val |-> pull[h].got[c], ver |-> pull[h].cand]]
Differs(h, S) == \E c \in S : rows[c] = NoRow \/ rows[c].val # pull[h].got[c]

AvailAnswered(h) ==
    /\ Answered(h, "avail")
    /\ LET S == DOMAIN pull[h].got
       IN  /\ rows' = Upserted(h, S)
           /\ pull' = [pull EXCEPT ![h].pc = "plans", ![h].got = NoAnswer,
                                   ![h].changed = @ \/ Differs(h, S)]
    /\ UNCHANGED <<plans, lease, saved, faults, disturbed, now>> /\ PullOnly

\* What remains of the pull when property p is done, with the rows as they are then:
\* the next property; or the lease released and, if anything changed, the rows that
\* carry the highest version taken to be written.
Release(h) ==
    /\ lease' = IF lease = pull[h].name THEN Nobody ELSE lease
    /\ now' = IF \E g \in Pullers \ {h} : pull[g].name = now THEN now ELSE Nobody
ToSave(h, table) == {c \in Cells : table[c] # NoRow /\ table[c].ver = VersionOf(table)}
Finished(h, table, changed) ==
    LET rest == pull[h].todo \ {Property(h)}
    IN  IF rest # {}
        THEN /\ pull' = [pull EXCEPT ![h] =
                  Asking([@ EXCEPT !.todo = rest, !.ids = {}, !.changed = changed])]
             /\ UNCHANGED <<lease, now>>
        ELSE /\ Release(h)
             /\ pull' = [pull EXCEPT ![h] =
                  IF changed
                  THEN [Idle EXCEPT !.pc = "persist", !.changed = TRUE,
                                    !.save = ToSave(h, table), !.got = [c \in {} |-> NoRow]]
                  ELSE Idle]

\* No plans: the property is reported as degraded and its prices are left alone.
\* Otherwise the catalog rows of the property are replaced.
PlansAnswered(h) ==
    /\ Answered(h, "plans")
    /\ IF pull[h].got = {}
       THEN Finished(h, rows, pull[h].changed) /\ UNCHANGED plans
       ELSE /\ plans' = (plans \ PlansOf(Property(h))) \cup pull[h].got
            /\ pull' = [pull EXCEPT ![h].pc = "restr", ![h].ids = pull[h].got,
                                    ![h].got = NoAnswer]
            /\ UNCHANGED <<lease, now>>
    /\ UNCHANGED <<rows, saved, faults, disturbed>> /\ PullOnly

\* Only plans of the list just read are taken.
RestrAnswered(h) ==
    /\ Answered(h, "restr")
    /\ LET S == DOMAIN pull[h].got \cap pull[h].ids
       IN  /\ rows' = Upserted(h, S)
           /\ Finished(h, rows', pull[h].changed \/ Differs(h, S))
    /\ UNCHANGED <<plans, saved, faults, disturbed>> /\ PullOnly

\* A request fails: the lease is released, what was changed stays, nothing is written.
PullFails(h) ==
    /\ pull[h].pc \in {"avail", "plans", "restr"}
    /\ CanFault("get") /\ Fault("get")
    /\ Release(h) /\ pull' = [pull EXCEPT ![h] = Idle]
    /\ UNCHANGED <<rows, plans, saved, disturbed>> /\ PullOnly

\* persistAriProjection: one upsert per row in one transaction, each with the values
\* the row has when its turn comes.
SaveRow(h, c) ==
    /\ At(h, "persist") /\ c \in pull[h].save
    /\ pull' = [pull EXCEPT ![h].save = @ \ {c},
           ![h].got = [x \in DOMAIN @ \cup {c} |-> IF x = c THEN rows[c] ELSE @[x]]]
    /\ UNCHANGED <<rows, plans, lease, saved, faults, disturbed, now>> /\ PullOnly
Committed(h) ==
    [c \in Cells |-> IF c \in DOMAIN pull[h].got THEN pull[h].got[c] ELSE saved[c]]
SaveCommits(h) ==
    /\ At(h, "persist") /\ pull[h].save = {}
    /\ saved' = Committed(h)
    /\ pull' = [pull EXCEPT ![h] = Idle]
    /\ UNCHANGED <<rows, plans, lease, faults, disturbed, now>> /\ PullOnly

\* The transaction is rolled back and the error swallowed.
SaveFails(h) ==
    /\ At(h, "persist")
    /\ CanFault("save") /\ Fault("save")
    /\ pull' = [pull EXCEPT ![h] = Idle]
    /\ UNCHANGED <<rows, plans, lease, saved, disturbed, now>> /\ PullOnly

\* 120 seconds pass while the holder awaits an answer.
LeaseLapses ==
    /\ lease # Nobody /\ CanFault("lapse") /\ Fault("lapse")
    /\ lease' = Nobody /\ now' = Nobody /\ disturbed' = TRUE
    /\ UNCHANGED <<remoteVars, rows, plans, pull, hydrated, saved, intent>> /\ Draws(forms)

-----------------------------------------------------------------------------
(* Editors and the outbox, as far as they touch the projection.            *)

\* assertFreshSnapshot
Fresh(base) == base = VersionOf(rows)

\* A form is submitted and its command accepted; a stale one is refused.
Submit(f, c, v) ==
    /\ hydrated /\ intent = NoIntent
    /\ Fresh(f.ver)
    /\ CanFault("submit") /\ Fault("submit")
    /\ intent' = [cell |-> c, val |-> v, base |-> f.ver, sent |-> FALSE, got |-> NoAnswer]
    /\ UNCHANGED <<remoteVars, memory, saved, disturbed>> /\ Draws(forms)

Put(c, v) ==
    /\ channex' = [channex EXCEPT ![c] = v]
    /\ held' = [held EXCEPT ![c] = @ \cup {v}]
    /\ UNCHANGED offered
\* The POST of the drain arrives; then its targeted GET is served.
Sent ==
    /\ intent # NoIntent /\ ~intent.sent
    /\ Put(intent.cell, intent.val)
    /\ intent' = [intent EXCEPT !.sent = TRUE]
    /\ UNCHANGED <<memory, saved, faults, disturbed>> /\ Draws(forms)
ReadServed ==
    /\ intent # NoIntent /\ intent.sent /\ intent.got = NoAnswer
    /\ intent' = [intent EXCEPT !.got = channex[intent.cell]]
    /\ UNCHANGED <<remoteVars, memory, saved, faults, disturbed>> /\ Draws(forms)

\* A matching read-back writes the value into the row but keeps its version; a new
\* row has the version the command was based on.
ReadBackRow(old) ==
    IF old # NoRow THEN [old EXCEPT !.val = intent.val]
    ELSE [val |-> intent.val, ver |-> intent.base]
ReadAnswered ==
    /\ hydrated /\ intent # NoIntent /\ intent.got # NoAnswer
    /\ IF intent.got = intent.val
       THEN rows' = [rows EXCEPT ![intent.cell] = ReadBackRow(@)]
       ELSE UNCHANGED rows          \* drifted
    /\ intent' = NoIntent
    /\ UNCHANGED <<remoteVars, plans, pull, lease, now, hydrated, saved, faults, disturbed>>
    /\ Draws(IF rows' = rows THEN forms ELSE Unsettled(forms))

-----------------------------------------------------------------------------
(* Channex and restarts.                                                   *)

ChannexEdit(c, v) ==
    /\ v # channex[c] /\ faults["edit"] > 0 /\ faults' = [faults EXCEPT !["edit"] = @ - 1]
    /\ Put(c, v)
    /\ UNCHANGED <<memory, saved, intent, disturbed>> /\ Draws(forms)
Withdraw(c) ==      \* a rate plan is deleted in Channex
    /\ c \in offered /\ CanFault("withdraw") /\ Fault("withdraw")
    /\ offered' = offered \ {c}
    /\ UNCHANGED <<channex, held, memory, saved, intent, disturbed>> /\ Draws(forms)

\* A COMMIT under way may have reached the server.  The intent survives in its row
\* and is read back by the drain of the new process.
Crash ==
    /\ CanFault("crash") /\ Fault("crash")
    /\ \/ UNCHANGED saved
       \/ \E h \in Pullers : /\ At(h, "persist") /\ pull[h].save = {}
                             /\ saved' = Committed(h)
    /\ rows' = [c \in Cells |-> NoRow] /\ plans' = {}
    /\ pull' = [h \in Pullers |-> Idle] /\ lease' = Nobody /\ now' = Nobody
    /\ hydrated' = FALSE
    /\ intent' = IF intent = NoIntent THEN NoIntent ELSE [intent EXCEPT !.got = NoAnswer]
    /\ Draws(Unsettled(forms))
    /\ disturbed' = TRUE /\ UNCHANGED remoteVars

\* hydrateAriState: the saved rows and the intent; or it fails, and this process has
\* neither.
Hydrate ==
    /\ ~hydrated /\ hydrated' = TRUE
    /\ \/ rows' = saved /\ UNCHANGED <<intent, faults>>
       \/ /\ CanFault("save") /\ Fault("save")
          /\ intent' = NoIntent /\ UNCHANGED rows
    /\ UNCHANGED <<remoteVars, plans, pull, lease, now, saved, disturbed>> /\ Draws(forms)

-----------------------------------------------------------------------------
Pull(h) ==
    \/ Serve(h) \/ AvailAnswered(h) \/ PlansAnswered(h) \/ RestrAnswered(h)
    \/ (\E c \in pull[h].save : SaveRow(h, c)) \/ SaveCommits(h)
Write == Sent \/ ReadServed \/ ReadAnswered
Next ==
    \/ \E h \in Pullers : StartPull(h) \/ Pull(h) \/ PullFails(h) \/ SaveFails(h)
    \/ LeaseLapses
    \/ \E f \in forms, c \in Cells, v \in Values : Submit(f, c, v)
    \/ Write
    \/ (\E c \in Cells, v \in Values : ChannexEdit(c, v)) \/ (\E c \in Plans : Withdraw(c))
    \/ Crash \/ Hydrate

Spec == Init /\ [][Next]_vars

\* The worker and webhooks pull for ever; requests are answered or fail; a restarted
\* process is soon asked for something; the outbox finishes (module AriOutbox).
FairSpec ==
    /\ Spec
    /\ \A h \in Pullers : SF_vars(StartPull(h)) /\ SF_vars(Pull(h))
    /\ SF_vars(Write) /\ WF_vars(Hydrate)

-----------------------------------------------------------------------------
(* Properties.                                                             *)

\* Whatever answers arrive late and whatever a transaction captures, the projection is
\* a lagging copy of Channex (module LaggingCopy): it holds only values Channex has
\* really had in that cell, and loses a cell only in a restart.
Copy == INSTANCE LaggingCopy
    WITH Cell <- Cells, Value <- Values, Unknown <- NoRow,
         source <- channex, past <- held, copy <- Drawn(rows)
IsLaggingCopy == Copy!Spec

\* "monotonic snapshot version" (pull-ari.ts): within a process the version never falls, as
\* long as pulls have run one at a time: no lease has run out under a slow pull, and no two
\* pulls began in one millisecond, which the lease lets in both.  (After a restart a read-back
\* may bring a version that was never saved.)
VersionNeverFalls ==
    [][hydrated /\ hydrated' /\ ~disturbed' => VersionOf(rows') >= VersionOf(rows)]_vars

\* KTD6 "any changed targeted cell causes a hard refresh": a form that passes the
\* freshness check was drawn from the values the projection still has.  The code
\* keeps this for forms drawn while no pull was under way, until a read-back or a
\* restart.
FreshFormHolds == \A f \in forms : f.settled /\ Fresh(f.ver) => f.seen = Drawn(rows)
\* Once Channex rests, every cell it still offers ends up in the projection with the
\* value it has there.
Converges ==
    <>[](\A c \in Rooms \cup offered : rows[c] # NoRow /\ rows[c].val = channex[c])
=============================================================================
