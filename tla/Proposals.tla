-------------------------------- MODULE Proposals --------------------------------
(***************************************************************************)
(* What the model proposes and staff approve: nightly rates, which become  *)
(* write intents, and a schedule, which becomes tasks.                     *)
(*                                                                         *)
(*   apps/web/server/lib/ai-proposals.ts          the proposals            *)
(*   apps/web/server/utils/ai-pricing.ts          accepting rates          *)
(*   apps/web/server/api/ai/                      suggest, accept, approve *)
(*   apps/web/app/pages/rates.vue, tasks.vue      the pages                *)
(*                                                                         *)
(* A suggestion is an amount for a cell: a rate plan of a property on a    *)
(* range of dates; cells do not overlap.  An intent is known to PG by its  *)
(* idempotency key: the suggestion and the version it was made for.  What  *)
(* becomes of it after it is queued is in AriOutbox; here it may only be   *)
(* cancelled by a later suggestion for its cell.                           *)
(***************************************************************************)
EXTENDS Naturals, Sequences, FiniteSets, SequencesExt

CONSTANTS
    Cells,          \* what suggestions are about
    Amounts,        \* what they say
    Selections,     \* sequences of suggestions that the model can propose
    Scopes,         \* sets of cells that an approver may touch
    Approvers,      \* requests that run at once
    MaxProposals, MaxVersions, MaxTasks, MaxFaults  \* bounds: proposals, snapshot versions,
                                                    \* tasks, failing statements
Suggestions == [cell : Cells, amount : Amounts]
ASSUME ProposalsAssumption == Selections \subseteq Seq(Suggestions) /\ Scopes \subseteq SUBSET Cells

VARIABLES
    aiApply,        \* the capability aiApply of the network
    version,        \* the snapshot version of the rates in memory
    asking,         \* suggestions under way: the version their context was read at, 0 for none
    proposals,      \* [kind, status, rows, base, outcomes] in the order they were made
    intents,        \* the objects in memory: [id, key, status]
    intentRows,     \* the keys of the rows in PG
    scheduled,      \* tasks created: [proposal, index]
    accepting,      \* requests under way: [at, p, left, mine, outcomes, held, waits]
    nextIntent, faults,
    shared          \* history: the keys whose object was given to a second row
proposalVars == <<aiApply, version, asking, proposals, intents, intentRows, scheduled, accepting,
                  nextIntent, faults, shared>>

\* An outcome is the key of the intent that a row has, or nothing.
NotQueued == {}
Keys(outcomes) == UNION ToSet(outcomes)
\* An accept holds the objects it was given (appliedIntents) and waits for the row of the last.
NotAccepting == [at |-> "idle", p |-> 0, left |-> <<>>, mine |-> {}, outcomes |-> <<>>,
                 held |-> {}, waits |-> {}]
ProposalsInit ==
    /\ aiApply \in BOOLEAN /\ version = 1 /\ asking = 0 /\ proposals = <<>>
    /\ intents = {} /\ intentRows = {} /\ scheduled = <<>> /\ nextIntent = 1 /\ faults = 0
    /\ accepting = [q \in Approvers |-> NotAccepting] /\ shared = {}

Accept(q, r) == accepting' = [accepting EXCEPT ![q] = r]
Resolve(p, status, outcomes) ==
    proposals' = [proposals EXCEPT ![p].status = status, ![p].outcomes = outcomes]
\* The object an intent is, whatever its status: what indexOf looks for.
Object(i) == [id |-> i.id, key |-> i.key]
KeysIn(set) == {i.key : i \in set}

-----------------------------------------------------------------------------
(* Proposing.                                                              *)

\* The context is read, then the model is asked.
Ask ==
    /\ asking = 0 /\ Len(proposals) < MaxProposals /\ asking' = version
    /\ UNCHANGED <<aiApply, version, proposals, intents, intentRows, scheduled, accepting, nextIntent, faults, shared>>
\* createAiProposal: the base is the version of the context.
Suggest(kind, rows) ==
    /\ asking # 0 /\ asking' = 0
    /\ proposals' = Append(proposals, [kind |-> kind, status |-> "pending", rows |-> rows,
                                       base |-> asking, outcomes |-> <<>>])
    /\ UNCHANGED <<aiApply, version, intents, intentRows, scheduled, accepting, nextIntent, faults, shared>>
\* The dismiss handler asks for no status.
Dismiss(p) ==
    /\ proposals[p].kind = "pricing" /\ proposals[p].status # "dismissed"
    /\ Resolve(p, "dismissed", proposals[p].outcomes)
    /\ UNCHANGED <<aiApply, version, asking, intents, intentRows, scheduled, accepting, nextIntent, faults, shared>>

-----------------------------------------------------------------------------
(* Accepting rates.                                                        *)

Pending(p, kind) == proposals[p].kind = kind /\ proposals[p].status = "pending"
AcceptLocal(p) ==
    /\ Pending(p, "pricing") /\ ~aiApply /\ Resolve(p, "accepted_local", <<>>)
    /\ UNCHANGED <<aiApply, version, asking, intents, intentRows, scheduled, accepting, nextIntent, faults, shared>>
\* The status is looked at before the secrets are awaited, the version after.
StartAccept(q, p, mine) ==
    /\ accepting[q] = NotAccepting /\ Pending(p, "pricing") /\ aiApply
    /\ Accept(q, [NotAccepting EXCEPT !.at = "secrets", !.p = p, !.mine = mine])
    /\ UNCHANGED <<aiApply, version, asking, proposals, intents, intentRows, scheduled, nextIntent, faults, shared>>
\* A base that is not the version of the projection makes the proposal stale.
AcceptStale(q) ==
    LET r == accepting[q]
    IN  /\ r.at = "secrets" /\ proposals[r.p].base # version /\ Accept(q, NotAccepting)
        /\ Resolve(r.p, "stale", [i \in DOMAIN proposals[r.p].rows |-> NotQueued])
        /\ UNCHANGED <<aiApply, version, asking, intents, intentRows, scheduled, nextIntent, faults, shared>>
AcceptFresh(q) ==
    LET r == accepting[q]
    IN  /\ r.at = "secrets" /\ proposals[r.p].base = version
        /\ Accept(q, [r EXCEPT !.at = "rows", !.left = proposals[r.p].rows])
        /\ UNCHANGED <<aiApply, version, asking, proposals, intents, intentRows, scheduled, nextIntent, faults, shared>>

\* setRatePlanNightlyRates: refused when the version has moved.  Otherwise it cancels the queued
\* intents of the cell, then enqueueAriIntent gives the object that has the key already,
\* whatever its status, or a new one.
Cancelled(cell) == {IF i.key.cell = cell /\ i.status = "queued" THEN [i EXCEPT !.status = "cancelled"] ELSE i : i \in intents}
KeyOf(row, base) == [cell |-> row.cell, amount |-> row.amount, base |-> base]
Gives(q, rest, object) ==
    Accept(q, [rest EXCEPT !.held = @ \cup {object}, !.waits = {object}])
EnqueueKnown(q, rest, key) ==
    /\ \E i \in intents : i.key = key /\ Gives(q, rest, Object(i))
    /\ intents' = Cancelled(key.cell) /\ shared' = shared \cup {key} /\ UNCHANGED nextIntent
EnqueueNew(q, rest, key) ==
    /\ key \notin KeysIn(intents) /\ Gives(q, rest, [id |-> nextIntent, key |-> key])
    /\ intents' = Cancelled(key.cell) \cup {[id |-> nextIntent, key |-> key, status |-> "queued"]}
    /\ nextIntent' = nextIntent + 1 /\ UNCHANGED shared
AcceptRow(q) ==
    LET r == accepting[q]
        row == Head(r.left)
        base == proposals[r.p].base
        rest == [r EXCEPT !.left = Tail(@)]
    IN  /\ r.at = "rows" /\ r.left # <<>> /\ r.waits = {}
        /\ \/ /\ row.cell \notin r.mine /\ Accept(q, NotAccepting)      \* 403: it ends here
              /\ UNCHANGED <<intents, nextIntent, shared>>
           \/ /\ row.cell \in r.mine /\ base # version
              /\ Accept(q, [rest EXCEPT !.outcomes = Append(@, NotQueued)])
              /\ UNCHANGED <<intents, nextIntent, shared>>
           \/ /\ row.cell \in r.mine /\ base = version
              /\ EnqueueKnown(q, rest, KeyOf(row, base)) \/ EnqueueNew(q, rest, KeyOf(row, base))
        /\ UNCHANGED <<aiApply, version, asking, proposals, intentRows, scheduled, faults>>
\* persistAriIntent: the row is inserted, or there already.  Its answer makes the row of the
\* proposal "queued".
PersistIntent(q) ==
    LET r == accepting[q]
    IN  /\ r.waits # {} /\ intentRows' = intentRows \cup KeysIn(r.waits)
        /\ Accept(q, [r EXCEPT !.outcomes = Append(@, KeysIn(r.waits)), !.waits = {}])
        /\ UNCHANGED <<aiApply, version, asking, proposals, intents, scheduled, nextIntent, faults, shared>>
Slip_KeepsPhantom(r) == intents
RolledBack(r) == {i \in intents : Object(i) \notin r.held}
\* 503: all objects of this accept leave the memory, the rows that are in PG stay there and the
\* proposal stays pending.  The insert that fails may have been committed.
PersistFails(q) ==
    LET r == accepting[q]
    IN  /\ r.waits # {} /\ faults < MaxFaults /\ faults' = faults + 1
        /\ intents' = RolledBack(r) /\ Accept(q, NotAccepting)
        /\ intentRows' \in {intentRows, intentRows \cup KeysIn(r.waits)}
        /\ UNCHANGED <<aiApply, version, asking, proposals, scheduled, nextIntent, shared>>
Outcome(outcomes) ==
    LET failed == NotQueued \in ToSet(outcomes)
        queued == Keys(outcomes) # {}
    IN  CASE queued /\ failed -> "partial" [] queued /\ ~failed -> "queued" [] ~queued -> "failed"
EndAccept(q) ==
    LET r == accepting[q]
    IN  /\ r.at = "rows" /\ r.left = <<>> /\ r.waits = {} /\ Accept(q, NotAccepting)
        /\ Resolve(r.p, Outcome(r.outcomes), r.outcomes)
        /\ UNCHANGED <<aiApply, version, asking, intents, intentRows, scheduled, nextIntent, faults, shared>>

-----------------------------------------------------------------------------
(* Approving a schedule.                                                   *)

\* One task after another, without I/O between them; one out of the approver's scope ends it
\* with those before it created and the proposal pending.
ApproveSchedule(p, mine) ==
    LET rows == proposals[p].rows
        refused == {i \in DOMAIN rows : rows[i].cell \notin mine}
        made == {i \in DOMAIN rows : \A j \in refused : i < j}
    IN  /\ Pending(p, "schedule") /\ Len(scheduled) < MaxTasks
        /\ scheduled' = scheduled \o [i \in 1..Cardinality(made) |-> [proposal |-> p, index |-> i]]
        /\ IF refused = {} THEN Resolve(p, "applied", <<>>) ELSE UNCHANGED proposals
        /\ UNCHANGED <<aiApply, version, asking, intents, intentRows, accepting, nextIntent, faults, shared>>

-----------------------------------------------------------------------------
(* What else happens to the rates.                                         *)

\* An ARI pull that finds changes.
NewVersion ==
    /\ version < MaxVersions /\ version' = version + 1
    /\ UNCHANGED <<aiApply, asking, proposals, intents, intentRows, scheduled, accepting, nextIntent, faults, shared>>

ProposalsNext ==
    \/ Ask \/ \E kind \in {"pricing", "schedule"}, rows \in Selections : Suggest(kind, rows)
    \/ \E p \in DOMAIN proposals :
        \/ Dismiss(p) \/ AcceptLocal(p)
        \/ \E q \in Approvers, mine \in Scopes : StartAccept(q, p, mine)
        \/ \E mine \in Scopes : ApproveSchedule(p, mine)
    \/ \E q \in Approvers :
        AcceptStale(q) \/ AcceptFresh(q) \/ AcceptRow(q) \/ PersistIntent(q) \/ PersistFails(q) \/ EndAccept(q)
    \/ NewVersion
ProposalsSpec == ProposalsInit /\ [][ProposalsNext]_proposalVars

-----------------------------------------------------------------------------
(* Properties.                                                             *)

\* "Roll back phantom queued state — never report durable without PG": a row that its proposal
\* reports as queued has its intent in PG; it is in memory as well, where the worker sends it,
\* unless its key was given to a second row, whose failing insert takes the one object of both.
\* An intent of memory that is not in PG belongs to an accept that still waits for its statement.
QueuedIsDurable ==
    /\ \A p \in DOMAIN proposals :
        proposals[p].status \in {"queued", "partial"} =>
            /\ Keys(proposals[p].outcomes) \subseteq intentRows
            /\ Keys(proposals[p].outcomes) \subseteq shared \cup KeysIn(intents)
    /\ \A i \in intents : i.key \in intentRows \/ \E q \in Approvers : Object(i) \in accepting[q].waits
=============================================================================
