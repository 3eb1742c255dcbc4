------------------------------- MODULE AriOutbox -------------------------------
(***************************************************************************)
(* The outbox of ARI writes (availability, rates, restrictions): how a     *)
(* manager's command becomes a durable intent, how the worker's drain      *)
(* sends it to Channex and reads it back, and what a restart leaves.       *)
(*                                                                         *)
(*   packages/domain/src/commands/set-*.ts, update-derived-rate-modifier.ts*)
(*   packages/domain/src/ari.ts                    enqueue, supersede      *)
(*   packages/sync/src/jobs/process-ari-write-outbox.ts       the drain    *)
(*   apps/web/server/lib/ari-persistence.ts        the PostgreSQL rows     *)
(*   apps/web/server/utils/sync.ts                 drain, write-through    *)
(*                                                                         *)
(* The process is one JavaScript thread.  Code between two awaits runs     *)
(* alone: turn names the drain that holds the thread, NoRun when every     *)
(* drain and request is awaiting and any of them may be resumed.           *)
(*                                                                         *)
(* A payload is abstracted to the cells it writes (resource, date, field)  *)
(* and the one value it gives them.  A resource stands for lane, property  *)
(* and room type or rate plan together.  Only commands that pass the role, *)
(* capability and date checks are modelled: the others change nothing.     *)
(***************************************************************************)
EXTENDS Naturals, Sequences, FiniteSets

CONSTANTS
    Resources,      \* lane + property + room type or rate plan
    RatePlans,      \* the resources of the rate_plan lane
    Unmapped,       \* resources whose property has no Channex id
    PropertyOf,     \* Resources -> property id, a number
    Dates, Fields, Values,
    Inputs,         \* what managers may ask: [res, dates, fields, val]
    Clients,        \* concurrent HTTP requests that run a command
    Runs,           \* concurrent drains (POST /api/internal/sync/ari-write)
    NoRun,          \* the thread is free
    NoRow,          \* no PostgreSQL row under this key
    NoReq,          \* the client awaits nothing
    InitialValue,   \* what Channex holds before any command
    FirstDbId,      \* the table is shared by all networks: where its serial is
    MaxCommands,    \* bound: commands issued
    MaxVersion,     \* bound: snapshot versions
    MaxFaults       \* bound: faults of each kind, and "any": of all kinds together

FaultKinds == {"any", "get", "warn", "refuse", "lost", "db", "crash", "edit"}

ASSUME ConstantsAssumption ==
    /\ RatePlans \subseteq Resources /\ Unmapped \subseteq Resources
    /\ PropertyOf \in [Resources -> Nat]
    /\ Inputs \subseteq [res : Resources, dates : SUBSET Dates,
                         fields : SUBSET Fields, val : Values]
    /\ InitialValue \in Values /\ FirstDbId \in Nat \ {0}
    /\ NoRun \notin Runs
    /\ MaxCommands \in Nat /\ MaxVersion \in Nat
    /\ MaxFaults \in [FaultKinds -> Nat]

VARIABLES
    intents,    \* store.domain.ariWriteIntents: every record object, in order
    nextId,     \* store.nextId('ari_write_intent')
    version,    \* currentSnapshotVersion of the network
    client,     \* per request: NoReq, or the insert it awaits
    run,        \* per drain: its program counter and its locals
    turn,       \* the drain that holds the thread, or NoRun
    hydrating,  \* ensureSecretsHydrated has not finished loading the rows
    db,         \* table ari_write_intents, by idempotency key
    nextDbId,   \* the table's serial
    remote,     \* what Channex holds in each cell
    faults,     \* faults still allowed, per kind and in all
    clock, issued, acked    \* history: when each command was last asked, and
                            \* which commands were answered with success
memory == <<intents, nextId, version, client, run, turn, hydrating>>
durable == <<db, nextDbId>>
history == <<clock, issued, acked>>
vars == <<memory, durable, remote, faults, history>>

Statuses == {"queued", "sending", "accepted", "partial", "retry",
             "reconciling", "reconciled", "drifted", "failed", "cancelled"}
\* Variants named Slip_* put a plausible slip into the definition that follows
\* them; no specification uses them.
Slip_PartialForgotten == {"accepted", "reconciling"}
Slip_DriftedResumed == {"accepted", "partial", "reconciling", "drifted"}
RESUME_STATUSES == {"accepted", "partial", "reconciling"}
Slip_CancelledSent == {"queued", "retry", "cancelled"}
SENDABLE == {"queued", "retry"}
Terminal == {"reconciled", "drifted", "failed", "cancelled"}

\* A command is its input and the snapshot version its form was loaded at; the
\* idempotency key is a function of exactly that.
Commands == [input : Inputs, base : 0..MaxVersion]
Cells == Resources \X Dates \X Fields
CellsOf(cmd) == {cmd.input.res} \X cmd.input.dates \X cmd.input.fields
ResOf(i) == intents[i].cmd.input.res

Intent == [cmd : Commands, id : Nat, status : Statuses, backoff : BOOLEAN,
           tasked : BOOLEAN,   \* channexTaskIds is not empty
           live : BOOLEAN]     \* still in the array (persist failures splice)
Row == [id : Nat, status : Statuses, backoff : BOOLEAN, tasked : BOOLEAN]
ASSUME NoRowAssumption == NoRow \notin Row
ASSUME NoReqAssumption == NoReq \notin [obj : Nat, row : Row]
RunPcs == {"idle", "resume", "resumeGet", "property", "send", "post",
           "verifyGet", "bookings", "persist", "persistRow"}
Idle == [pc |-> "idle", seen |-> {}, at |-> 0, props |-> {}, toSend |-> {},
         cur |-> 0, row |-> NoRow, processed |-> FALSE]

SetMin(S) == CHOOSE x \in S : \A y \in S : x <= y
SetMax(S) == CHOOSE x \in S : \A y \in S : y <= x

Live == {i \in DOMAIN intents : intents[i].live}
HasStatus(i, S) == intents[i].status \in S
WithStatus(S, s) ==     \* the store with the objects in S given status s
    [i \in DOMAIN intents |->
        IF i \in S THEN [intents[i] EXCEPT !.status = s] ELSE intents[i]]
Slip_StaysSending(i) == [intents EXCEPT ![i].backoff = TRUE]
Slip_UnknownStatus(i) == [intents EXCEPT ![i].status = "error", ![i].backoff = TRUE]
\* status 'retry' with nextAttemptAt a minute ahead
WithRetry(i) == [intents EXCEPT ![i].status = "retry", ![i].backoff = TRUE]
\* a 200 brings task ids
WithTask(i, s) == [intents EXCEPT ![i].status = s, ![i].tasked = TRUE]
RowOf(i) == [id |-> intents[i].id, status |-> intents[i].status,
             backoff |-> intents[i].backoff, tasked |-> intents[i].tasked]

CanFault(kind) == faults["any"] > 0 /\ faults[kind] > 0
Fault(kind) ==
    faults' = [k \in FaultKinds |-> faults[k] - (IF k \in {"any", kind} THEN 1 ELSE 0)]

Init ==
    /\ intents = <<>> /\ nextId = 1 /\ version = 0
    /\ client = [c \in Clients |-> NoReq]
    /\ run = [r \in Runs |-> Idle]
    /\ turn = NoRun /\ hydrating = FALSE
    /\ db = [cmd \in Commands |-> NoRow] /\ nextDbId = FirstDbId
    /\ remote = [x \in Cells |-> [val |-> InitialValue, at |-> 0]]
    /\ faults = MaxFaults
    /\ clock = 0 /\ issued = [cmd \in Commands |-> 0] /\ acked = {}

-----------------------------------------------------------------------------
(* Commands.  One synchronous step: validate, supersede, enqueue; then the *)
(* request awaits the insert of the row.                                   *)

Serving == turn = NoRun /\ ~hydrating

Slip_AnyRoom(a, b) == a.dates \cap b.dates # {}
Overlaps(a, b) ==
    /\ a.res = b.res
    /\ a.res \in RatePlans \/ a.dates \cap b.dates # {}

\* The intents a command supersedes, and the one cancelQueuedIntent really
\* finds for each of them: the first object in the array with that id.
Superseded(cmd) ==
    {i \in Live : HasStatus(i, SENDABLE) /\ Overlaps(intents[i].cmd.input, cmd.input)}
FoundById(i) == SetMin({j \in Live : intents[j].id = intents[i].id})
Unfindable(cmd) ==      \* cancelQueuedIntent throws CONFLICT on these
    {i \in Superseded(cmd) :
        \/ ~HasStatus(FoundById(i), SENDABLE)
        \/ \E j \in Superseded(cmd) : j < i /\ FoundById(j) = FoundById(i)}

Ask(c, cmd) ==
    /\ Serving /\ client[c] = NoReq
    /\ clock < MaxCommands
    /\ cmd.base = version           \* assertFreshSnapshot
    /\ clock' = clock + 1
    /\ UNCHANGED <<acked, version, run, turn, hydrating, durable, remote, faults>>
Issue(cmd) == issued' = [issued EXCEPT ![cmd] = clock + 1]

CancelAll(cmd) == WithStatus({FoundById(i) : i \in Superseded(cmd)}, "cancelled")
SameKey(cmd) == {i \in Live : intents[i].cmd = cmd}

\* enqueueAriIntent with a new key; the insert carries the record as it is now.
EnqueueNew(c, cmd) ==
    /\ Ask(c, cmd) /\ Issue(cmd)
    /\ Unfindable(cmd) = {} /\ SameKey(cmd) = {}
    /\ LET new == [cmd |-> cmd, id |-> nextId, status |-> "queued",
                   backoff |-> FALSE, tasked |-> FALSE, live |-> TRUE]
       IN  /\ intents' = Append(CancelAll(cmd), new)
           /\ client' = [client EXCEPT ![c] =
                  [obj |-> Len(intents) + 1,
                   row |-> [id |-> nextId, status |-> "queued",
                            backoff |-> FALSE, tasked |-> FALSE]]]
    /\ nextId' = nextId + 1

\* enqueueAriIntent with a known key returns the object there is, whatever its
\* status: which may be the 'cancelled' this very command has just given it.
EnqueueKnown(c, cmd) ==
    /\ Ask(c, cmd) /\ Issue(cmd)
    /\ Unfindable(cmd) = {} /\ SameKey(cmd) # {}
    /\ intents' = CancelAll(cmd)
    /\ LET i == SetMin(SameKey(cmd))
       IN  client' = [client EXCEPT ![c] =
               [obj |-> i, row |-> [RowOf(i) EXCEPT !.status = intents'[i].status]]]
    /\ UNCHANGED nextId

\* Two live objects share an id, and the wrong one is no longer queued: the
\* command fails, what it cancelled before stays cancelled.
SupersedeConflict(c, cmd) ==
    /\ Ask(c, cmd)
    /\ Unfindable(cmd) # {}
    /\ LET first == SetMin(Unfindable(cmd))
       IN  intents' = WithStatus({FoundById(i) : i \in {j \in Superseded(cmd) : j < first}},
                                 "cancelled")
    /\ UNCHANGED <<client, nextId, issued>>

\* The insert: ON CONFLICT DO NOTHING, and the caller takes the row's id.
Inserted(c) ==
    LET cmd == intents[client[c].obj].cmd
    IN  IF db[cmd] # NoRow THEN UNCHANGED durable
        ELSE /\ db' = [db EXCEPT ![cmd] = [client[c].row EXCEPT !.id = nextDbId]]
             /\ nextDbId' = nextDbId + 1

PersistOk(c) ==
    /\ Serving /\ client[c] # NoReq
    /\ Inserted(c)
    /\ LET i == client[c].obj
       IN  /\ intents' = [intents EXCEPT ![i].id = db'[intents[i].cmd].id]
           /\ acked' = acked \cup {intents[i].cmd}
    /\ client' = [client EXCEPT ![c] = NoReq]
    /\ UNCHANGED <<nextId, version, run, turn, hydrating, remote, faults, clock, issued>>

Slip_ErrorSwallowed(c) ==   \* as hydration does with its errors
    /\ Serving /\ client[c] # NoReq
    /\ CanFault("db") /\ Fault("db")
    /\ acked' = acked \cup {intents[client[c].obj].cmd}
    /\ client' = [client EXCEPT ![c] = NoReq]
    /\ UNCHANGED <<intents, nextId, version, run, turn, hydrating, durable, remote,
                   clock, issued>>

\* 503: the object is spliced out of the array; the statement may have committed
\* before the connection was lost.  What the command superseded stays cancelled.
PersistFails(c) ==
    /\ Serving /\ client[c] # NoReq
    /\ CanFault("db") /\ Fault("db")
    /\ Inserted(c) \/ UNCHANGED durable
    /\ intents' = [intents EXCEPT ![client[c].obj].live = FALSE]
    /\ client' = [client EXCEPT ![c] = NoReq]
    /\ UNCHANGED <<nextId, version, run, turn, hydrating, remote, history>>

-----------------------------------------------------------------------------
(* The drain: processAriWriteOutbox.                                       *)

RunOnly == UNCHANGED <<nextId, version, client, hydrating, durable, remote, history>>
\* Give up the thread (an await) or keep it, with these changes to the locals.
Await(r, locals) == run' = [run EXCEPT ![r] = locals] /\ turn' = NoRun
Keep(r, locals) == run' = [run EXCEPT ![r] = locals] /\ turn' = r

StartDrain(r) ==
    /\ Serving /\ run[r].pc = "idle"
    /\ Keep(r, [Idle EXCEPT !.pc = "resume", !.seen = Live])
    /\ UNCHANGED <<intents, faults>> /\ RunOnly

\* The intents the resume loop has still to visit, as their status is now.
ToResume(r) ==
    {i \in run[r].seen : i > run[r].at /\ HasStatus(i, RESUME_STATUSES)}
NoTarget(i) == ResOf(i) \in Unmapped \ RatePlans

ResumeNext(r) ==
    /\ turn = r /\ run[r].pc = "resume" /\ ToResume(r) # {}
    /\ LET i == SetMin(ToResume(r))
           next == [run[r] EXCEPT !.at = i, !.processed = TRUE]
       IN  IF NoTarget(i)
           THEN intents' = WithStatus({i}, "failed") /\ Keep(r, next)
           ELSE /\ intents' = WithStatus({i}, "reconciling")
                /\ Await(r, [next EXCEPT !.pc = "resumeGet", !.cur = i])
    /\ UNCHANGED faults /\ RunOnly

\* The properties to send for are listed once, after the resume loop.
ResumeDone(r) ==
    /\ turn = r /\ run[r].pc = "resume" /\ ToResume(r) = {}
    /\ Keep(r, [run[r] EXCEPT !.pc = "property", !.at = 0,
                !.props = {PropertyOf[ResOf(i)] : i \in {j \in run[r].seen : HasStatus(j, SENDABLE)}}])
    /\ UNCHANGED <<intents, faults>> /\ RunOnly

\* A targeted GET: every cell of the intent has its value, or it has drifted.  The
\* projection rows a matching read-back writes are the state of another module.
Matches(i) == \A x \in CellsOf(intents[i].cmd) : remote[x].val = intents[i].cmd.input.val
Slip_DriftRetried(i) == IF Matches(i) THEN WithStatus({i}, "reconciled") ELSE WithRetry(i)
Compared(i) == WithStatus({i}, IF Matches(i) THEN "reconciled" ELSE "drifted")

Reading(r, pc) == turn = NoRun /\ run[r].pc = pc
ResumeGetOk(r) ==
    /\ Reading(r, "resumeGet")
    /\ intents' = Compared(run[r].cur)
    /\ Keep(r, [run[r] EXCEPT !.pc = "resume", !.cur = 0])
    /\ UNCHANGED faults /\ RunOnly

ResumeGetFails(r) ==
    /\ Reading(r, "resumeGet")
    /\ CanFault("get") /\ Fault("get")
    /\ intents' = WithRetry(run[r].cur)
    /\ Keep(r, [run[r] EXCEPT !.pc = "resume", !.cur = 0])
    /\ RunOnly

\* pickSendableByProperty: per resource the newest id, its elders cancelled.
\* The order in which the resources are sent is left open.
Candidates(r, p) ==
    {i \in run[r].seen : /\ PropertyOf[ResOf(i)] = p
                         /\ HasStatus(i, SENDABLE) /\ ~intents[i].backoff}
PickedOf(S) ==  \* the sort is stable: of equal ids the later one comes last
    {i \in S : \A j \in S : ResOf(j) = ResOf(i) =>
        \/ intents[j].id < intents[i].id
        \/ intents[j].id = intents[i].id /\ j <= i}

PickProperty(r) ==
    /\ turn = r /\ run[r].pc = "property" /\ run[r].props # {}
    /\ LET p == SetMin(run[r].props)
           cand == Candidates(r, p)
       IN  /\ intents' = WithStatus(cand \ PickedOf(cand), "cancelled")
           /\ Keep(r, [run[r] EXCEPT !.pc = "send", !.props = @ \ {p},
                                     !.toSend = PickedOf(cand)])
    /\ UNCHANGED faults /\ RunOnly

\* sendLane: nothing looks again at the status of an intent picked earlier.
SendNext(r, i) ==
    /\ turn = r /\ run[r].pc = "send" /\ i \in run[r].toSend
    /\ LET next == [run[r] EXCEPT !.toSend = @ \ {i}, !.processed = TRUE]
       IN  IF NoTarget(i)
           THEN intents' = WithStatus({i}, "failed") /\ Keep(r, next)
           ELSE /\ intents' = WithStatus({i}, "sending")
                /\ Await(r, [next EXCEPT !.pc = "post", !.cur = i])
    /\ UNCHANGED faults /\ RunOnly

SendDone(r) ==
    /\ turn = r /\ run[r].pc = "send" /\ run[r].toSend = {}
    /\ Keep(r, [run[r] EXCEPT !.pc = "property"])
    /\ UNCHANGED <<intents, faults>> /\ RunOnly

\* Channex stores absolute values.  at remembers which command a cell is from.
Write(i, cells) ==
    remote' = [x \in Cells |->
        IF x \in cells
        THEN [val |-> intents[i].cmd.input.val, at |-> issued[intents[i].cmd]]
        ELSE remote[x]]
PostReturns(r) ==
    /\ Reading(r, "post")
    /\ UNCHANGED <<nextId, version, client, hydrating, durable, history>>

\* HTTP 200 without warnings: accepted, and the reconciling GET goes out at once.
PostOk(r) ==
    /\ PostReturns(r)
    /\ LET i == run[r].cur
       IN  /\ Write(i, CellsOf(intents[i].cmd))
           /\ intents' = WithTask(i, "reconciling")
    /\ Await(r, [run[r] EXCEPT !.pc = "verifyGet"])
    /\ UNCHANGED faults

\* HTTP 200 with warnings: some rows were applied; looked at in the next drain.
PostPartial(r) ==
    /\ PostReturns(r)
    /\ LET i == run[r].cur
       IN  /\ ResOf(i) \notin RatePlans
           /\ \E cells \in SUBSET CellsOf(intents[i].cmd) : Write(i, cells)
           /\ intents' = WithTask(i, "partial")
    /\ CanFault("warn") /\ Fault("warn")
    /\ Keep(r, [run[r] EXCEPT !.pc = "send", !.cur = 0])

\* 5xx, 429 or a lost connection: applied or not, it will be sent again.
PostUnknown(r) ==
    /\ PostReturns(r)
    /\ LET i == run[r].cur
       IN  /\ Write(i, CellsOf(intents[i].cmd)) \/ UNCHANGED remote
           /\ intents' = WithRetry(i)
    /\ CanFault("lost") /\ Fault("lost")
    /\ Keep(r, [run[r] EXCEPT !.pc = "send", !.cur = 0])

\* Any other 4xx.
PostRefused(r) ==
    /\ PostReturns(r)
    /\ intents' = WithStatus({run[r].cur}, "failed")
    /\ CanFault("refuse") /\ Fault("refuse")
    /\ Keep(r, [run[r] EXCEPT !.pc = "send", !.cur = 0])
    /\ UNCHANGED remote

VerifyOk(r) ==
    /\ Reading(r, "verifyGet")
    /\ intents' = Compared(run[r].cur)
    /\ Keep(r, [run[r] EXCEPT !.pc = "send", !.cur = 0])
    /\ UNCHANGED faults /\ RunOnly

VerifyFails(r) ==
    /\ Reading(r, "verifyGet")
    /\ CanFault("get") /\ Fault("get")
    /\ intents' = WithStatus({run[r].cur}, "accepted")
    /\ Keep(r, [run[r] EXCEPT !.pc = "send", !.cur = 0])
    /\ RunOnly

-----------------------------------------------------------------------------
(* runInternalAriWrite: after the drain the status of every intent is      *)
(* written through, one UPDATE after the other.                            *)

DrainDone(r) ==
    /\ turn = r /\ run[r].pc = "property" /\ run[r].props = {}
    /\ Await(r, [Idle EXCEPT !.pc = "bookings", !.processed = run[r].processed])
    /\ UNCHANGED <<intents, faults>> /\ RunOnly

\* The drain of direct bookings comes in between, the state of another module: the
\* rows of all lanes are written when either drain had work.
BookingsDone(r) ==
    /\ Reading(r, "bookings")
    /\ \/ Keep(r, [Idle EXCEPT !.pc = "persist", !.seen = Live])
       \/ ~run[r].processed /\ run' = [run EXCEPT ![r] = Idle] /\ UNCHANGED turn
    /\ UNCHANGED <<intents, faults>> /\ RunOnly

ToPersist(r) == {i \in run[r].seen : i > run[r].at}

PersistNext(r) ==
    /\ turn = r /\ run[r].pc = "persist" /\ ToPersist(r) # {}
    /\ LET i == SetMin(ToPersist(r))
       IN  Await(r, [run[r] EXCEPT !.pc = "persistRow", !.at = i, !.row = RowOf(i)])
    /\ UNCHANGED <<intents, faults>> /\ RunOnly

PersistLoopDone(r) ==
    /\ turn = r /\ run[r].pc = "persist" /\ ToPersist(r) = {}
    /\ run' = [run EXCEPT ![r] = Idle] /\ turn' = NoRun
    /\ UNCHANGED <<intents, faults>> /\ RunOnly

\* UPDATE ... WHERE key: no row, nothing written; the id column stays.
Updated(r) ==
    LET cmd == intents[run[r].at].cmd
    IN  db' = IF db[cmd] = NoRow THEN db
              ELSE [db EXCEPT ![cmd] = [run[r].row EXCEPT !.id = db[cmd].id]]

PersistRowOk(r) ==
    /\ Reading(r, "persistRow")
    /\ Updated(r)
    /\ Keep(r, [run[r] EXCEPT !.pc = "persist", !.row = NoRow])
    /\ UNCHANGED <<intents, nextId, version, client, hydrating, nextDbId, remote,
                   faults, history>>

\* The error is swallowed and the rest of the loop skipped.
PersistRowFails(r) ==
    /\ Reading(r, "persistRow")
    /\ CanFault("db") /\ Fault("db")
    /\ run' = [run EXCEPT ![r] = Idle] /\ UNCHANGED <<intents, turn>>
    /\ RunOnly

-----------------------------------------------------------------------------
(* Restart.  Memory is lost; a statement or request under way may still    *)
(* reach its server; the first request loads the rows.                     *)

Crash ==
    /\ turn = NoRun /\ CanFault("crash") /\ Fault("crash")
    /\ \/ UNCHANGED <<durable, remote>>
       \/ \E c \in Clients : client[c] # NoReq /\ Inserted(c) /\ UNCHANGED remote
       \/ \E r \in Runs : /\ run[r].pc = "persistRow" /\ Updated(r)
                          /\ UNCHANGED <<nextDbId, remote>>
       \/ \E r \in Runs : /\ run[r].pc = "post"
                          /\ Write(run[r].cur, CellsOf(intents[run[r].cur].cmd))
                          /\ UNCHANGED durable
    /\ intents' = <<>> /\ nextId' = 1
    /\ client' = [c \in Clients |-> NoReq]
    /\ run' = [r \in Runs |-> Idle]
    /\ hydrating' = TRUE
    /\ \E v \in 0..version : version' = v   \* the projection rows that were saved
    /\ UNCHANGED <<turn, history>>

Slip_AllRows == {cmd \in Commands : db[cmd] # NoRow}
Missing == {cmd \in Commands : db[cmd] # NoRow /\ SameKey(cmd) = {}}

\* hydrateAriState pushes each row whose key is not in memory, in any order.
HydrateRow(cmd) ==
    /\ hydrating /\ cmd \in Missing
    /\ intents' = Append(intents, [cmd |-> cmd, id |-> db[cmd].id,
           status |-> db[cmd].status, backoff |-> db[cmd].backoff,
           tasked |-> db[cmd].tasked, live |-> TRUE])
    /\ UNCHANGED <<nextId, version, client, run, turn, hydrating, durable,
                   remote, faults, history>>

HydrateDone ==
    /\ hydrating /\ Missing = {}
    /\ hydrating' = FALSE
    /\ UNCHANGED <<intents, nextId, version, client, run, turn, durable, remote,
                   faults, history>>

\* The SELECT fails: the error is swallowed and the network counts as hydrated.
HydrateFails ==
    /\ hydrating /\ intents = <<>>
    /\ CanFault("db") /\ Fault("db")
    /\ hydrating' = FALSE
    /\ UNCHANGED <<intents, nextId, version, client, run, turn, durable, remote, history>>

-----------------------------------------------------------------------------
(* The environment: time, other users of Channex, ARI pulls.               *)

BackoffExpires(i) ==
    /\ intents[i].backoff
    /\ intents' = [intents EXCEPT ![i].backoff = FALSE]
    /\ UNCHANGED <<nextId, version, client, run, turn, hydrating, durable, remote,
                   faults, history>>

\* Someone edits the cell in Channex itself.
ExternalEdit(x, v) ==
    /\ turn = NoRun /\ v # remote[x].val /\ CanFault("edit") /\ Fault("edit")
    /\ remote' = [remote EXCEPT ![x] = [val |-> v, at |-> 0]]
    /\ UNCHANGED <<memory, durable, history>>

\* An ARI pull that changed a row gives the network a new snapshot version.
PullChanges ==
    /\ Serving /\ version < MaxVersion
    /\ version' = version + 1
    /\ UNCHANGED <<intents, nextId, client, run, turn, hydrating, durable, remote,
                   faults, history>>

-----------------------------------------------------------------------------
Command ==
    \E c \in Clients, cmd \in Commands :
        EnqueueNew(c, cmd) \/ EnqueueKnown(c, cmd) \/ SupersedeConflict(c, cmd)
Request == \E c \in Clients : PersistOk(c) \/ PersistFails(c)
Hydrate == (\E cmd \in Commands : HydrateRow(cmd)) \/ HydrateDone \/ HydrateFails

\* What a drain under way does next when its await, if any, has been answered.
Answered(r) ==
    \/ ResumeNext(r) \/ ResumeDone(r) \/ ResumeGetOk(r) \/ ResumeGetFails(r)
    \/ PickProperty(r) \/ (\E i \in run[r].toSend : SendNext(r, i)) \/ SendDone(r)
    \/ PostOk(r) \/ PostPartial(r) \/ PostUnknown(r) \/ PostRefused(r)
    \/ VerifyOk(r) \/ VerifyFails(r)
    \/ DrainDone(r) \/ BookingsDone(r) \/ PersistNext(r) \/ PersistLoopDone(r)
    \/ PersistRowOk(r) \/ PersistRowFails(r)
Drain == \E r \in Runs : StartDrain(r) \/ Answered(r)

Environment ==
    \/ \E i \in DOMAIN intents : BackoffExpires(i)
    \/ \E x \in Cells, v \in Values : ExternalEdit(x, v)
    \/ PullChanges

Next == Command \/ Request \/ Drain \/ Crash \/ Hydrate \/ Environment

Spec == Init /\ [][Next]_vars

\* The worker ticks for ever, awaits are answered, time passes, a restarted process
\* is soon asked for something.  Strong fairness for the insert of a request: the
\* event loop takes it when it can, however often a drain holds the thread between.
\* No fairness for commands or faults.
FairSpec ==
    /\ Spec
    /\ \A r \in Runs : SF_vars(StartDrain(r)) /\ SF_vars(Answered(r))
    /\ \A c \in Clients : SF_vars(PersistOk(c) \/ PersistFails(c))
    /\ \A i \in 1..MaxCommands : WF_vars(i \in DOMAIN intents /\ BackoffExpires(i))
    /\ WF_vars(Hydrate)

-----------------------------------------------------------------------------
(* Properties.                                                             *)

Awaited(objs) == [obj : objs, row : Row]
RunState(objs) ==
    [pc : RunPcs, seen : SUBSET objs, at : Nat, props : SUBSET Nat,
     toSend : SUBSET objs, cur : Nat, row : Row \cup {NoRow}, processed : BOOLEAN]
\* Every variable keeps its type, and references point at objects that exist.
TypeOK ==
    /\ intents \in Seq(Intent)
    /\ nextId \in Nat /\ nextDbId \in Nat /\ clock \in 0..MaxCommands
    /\ version \in 0..MaxVersion
    /\ client \in [Clients -> Awaited(DOMAIN intents) \cup {NoReq}]
    /\ run \in [Runs -> RunState(DOMAIN intents)]
    /\ turn \in Runs \cup {NoRun} /\ hydrating \in BOOLEAN
    /\ db \in [Commands -> Row \cup {NoRow}]
    /\ remote \in [Cells -> [val : Values, at : 0..MaxCommands]]
    /\ faults \in [FaultKinds -> Nat]
    /\ issued \in [Commands -> 0..MaxCommands] /\ acked \subseteq Commands

\* One live intent per idempotency key, through replays, splices and restarts:
\* the WHERE of persistAriIntentStatus must name one object.
LiveKeysUnique ==
    \A i, j \in Live : intents[i].cmd = intents[j].cmd => i = j

\* A command answered with success has its row: a restart cannot lose it (R15).
AckedIsDurable == \A cmd \in acked : db[cmd] # NoRow

\* An intent in status 'sending' is being sent by some drain.  Nothing resumes or
\* resends 'sending', so one without a sender would wait for ever.
SendingHasSender ==
    \A i \in Live : HasStatus(i, {"sending"}) =>
        \E r \in Runs : run[r].pc = "post" /\ run[r].cur = i

Posted(i) ==    \* this step sends intent i
    i \in DOMAIN intents' /\ intents'[i].status = "sending" /\ ~HasStatus(i, {"sending"})

\* "accepted/reconciling/partial never blind re-POST": what Channex has taken
\* once (it has task ids) is only read back.
NoRepostAfterAccept == [][\A i \in DOMAIN intents : Posted(i) => ~intents[i].tasked]_vars

\* A drain leaves alone what an earlier step of a drain has settled.
SettledStays ==
    [][\A i \in DOMAIN intents :
        i \in DOMAIN intents' /\ HasStatus(i, Terminal \ {"cancelled"}) =>
            intents'[i].status = intents[i].status]_vars

\* "an already accepted change is not silently overwritten": no request puts back
\* the value of an older command over that of a newer one.
NoStaleOverwrite ==
    [][\A x \in Cells : remote'[x] # remote[x] /\ remote'[x].at # 0 =>
            remote'[x].at >= remote[x].at]_vars

\* Nothing is under way: no request, no drain, no intent left to send or to read.
Quiet ==
    /\ Serving
    /\ \A c \in Clients : client[c] = NoReq
    /\ \A r \in Runs : run[r].pc = "idle"
    /\ \A i \in Live : HasStatus(i, Terminal)
LastAsked(x) ==
    SetMax({0} \cup {issued[cmd] : cmd \in {k \in Commands : x \in CellsOf(k)}})

\* Once all is quiet every cell holds what was asked for last.
LastCommandWins == Quiet => \A x \in Cells : remote[x].at = LastAsked(x)
\* The same as long as nothing failed and nothing was asked twice at one version.
DistinctCommandsWin ==
    /\ faults = MaxFaults
    /\ clock = Cardinality({cmd \in Commands : issued[cmd] > 0})
    => LastCommandWins

\* R15 "process restart resumes unsent or unconfirmed work": in the end every
\* command answered with success has an intent in memory with an outcome.
AckedSettles ==
    <>[](\A cmd \in acked : \E i \in SameKey(cmd) : HasStatus(i, Terminal))
=============================================================================
