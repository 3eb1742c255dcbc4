# pms-os: models of a hotel system and proofs about its sync core

pms-os is a hotel management system. It keeps a hotel's calendar, reservations
and rates in step with Channex, the channel manager, which in turn talks to the
booking channels. What is hard about it is that step: commands of managers, jobs
of a worker, webhooks and restarts interleave on one in-memory store, next to a
PostgreSQL database that holds part of it and a remote system whose answers are
late, lost or partial. Around that core stands a web application in which many
records are derived, and guarded, in several places that have to agree. This
directory models both in TLA+, checks them with TLC on small instances, and
proves the safety properties with TLAPS for every value of the constants.

Paths are those of the repository. `PROJECT.json` lists, definition by
definition, the source lines each definition stands for (`map`), the mistakes
each property is tested against (`mutants`), and what is hard to test in this
code, line by line (`hazards`).

## 1. The system

One Nitro process serves the web application and the internal sync endpoints;
a worker calls those endpoints for each network in turn (pull revisions, send
acknowledgements, send writes). All state of a network is one `SyncStore` in
memory, filled from PostgreSQL and Channex after a start. The process has one
JavaScript thread: code between two awaits of real I/O runs alone, and every
await is a point where any other request or job may run.

What survives a restart: write intents, ARI rows, room rows, calendar notes,
users, roles, networks, the billing row, catalog capabilities. What does not:
reservations, applied revisions, unsent acknowledgements, automation rules and
runs, approvals, tasks, reviews, proposals, the ledger, device tokens.

| Component | Modules | State | Interacts with | Hard behaviour | What makes it correct |
|---|---|---|---|---|---|
| ARI write outbox | `AriOutbox` | intents in memory and their rows | command runner, Channex, PostgreSQL | two actors on one intent; lost and partial answers; failing inserts; restart at any await | a command answered with success is durable and ends with an outcome; one live intent per key; nothing accepted is posted again; an older value never replaces a newer one |
| Sync health, drift detection | `SyncHealth` (extends `AriOutbox`) | none of its own | the outbox, the panel | read while a drain is half way | the panel is green only when there is nothing left to happen; no cell under a write is reported as drift |
| Booking revisions | `BookingRevisions` | reservations, applied revisions, acks, dead letters, lease | Channex feed, catalog, rooms | revisions twice, late, out of order, before their room type is known | no room is booked twice; one effect per revision; acknowledged after commit, and in the end |
| Booking CRS (direct bookings) | `BookingCrs` (extends `BookingRevisions`) | intents, rows, idempotency records | both above | request and drain hold one intent; revision and answer race | one create per code; confirmed by a revision only; every intent ends |
| ARI projection | `AriProjection`, `LaggingCopy` | rows, snapshot version, leases | outbox (read-back), editors' forms | a pull awaits between reading a version and writing it | it is a lagging copy of Channex that catches up; a form that passes the freshness check was not overtaken |
| Physical rooms | `PhysicalRooms` | rooms in memory, their rows | catalog import, reservations | rows are written and laid over one by one, two kinds of ids | each import leaves as many rooms as Channex counts; a stay keeps its room |
| Automation, command runner, approvals | `Automation` | rules, runs, approvals, idempotency records | commands | rules edited under a held run, retries, replays | the history tells the effects; nothing held runs without approval |
| Guest messages | `Inbox` | records per thread, outbound messages, lease | Channex, the inbox page | a pull reads first and writes per thread later | all messages come in the end |
| Calendar page | `CalendarPage` | one browser tab | shell, routes | answers overlap and are drawn as they come | a rejected stale write is drawn |
| Sync worker | `SyncWorker` | ticks, health file, leases, network status | the jobs above | a failing call ends a tick | a network is served again and again once no call for it or one before it fails |
| Accounts, memberships, tenants | `Accounts` | users, roles, scopes, networks | PostgreSQL | statements of two requests interleave, requests break off | the last administrator stays |
| Billing | `Billing` | the row, customers, subscriptions, items | Stripe | events late, twice, out of order | what is billed is what the network has |
| Calendar notes | `CalendarNotes` | notes in memory and rows | PostgreSQL | the id changes after the insert | the id staff use is the row's |
| Channex keys, groups, onboarding, import | `Tenancy` | keys, groups, listed properties | Channex | remote calls in sequence, each may fail | no property of another tenant; what was created comes back |
| AI pricing and schedules | `Proposals` | proposals, intents, tasks | outbox, snapshot | approvers at once, a failing statement in the middle | what a proposal reports as queued is in PostgreSQL |
| Front desk | `Stays` | reservations, ledger, tasks, reviews, property operations | revisions | | see the next three |
| Roles, lists, reports, owner portal | `Access`, `Screens` (extends `Stays`) | none | `Stays` | six read models of one set of bookings | they agree, for each principal |
| Routes and pages | `Routes` (extends `Screens`) | console sessions, device tokens | all of the above | guards are written apart from the pages | a page is served what it asks for, and no more |
| Rates editors | `Rates` | none | outbox commands | the mode of a plan is derived in four places | what is offered is what the command takes |
| Channex client, encryption, wire mappers, language models, website, mobile shell | not modelled | | | | |

Requests meet at three places, and the modules are cut along them: the
reservations (`BookingRevisions`, composed with direct bookings in `BookingCrs`,
read by `Stays` and `Screens`), the intents (`AriOutbox`, read by `SyncHealth`,
filled by `Proposals`), and the snapshot (`AriProjection`, checked against by
`CalendarPage` and `Proposals`).

## 2. Modules

Conventions. One action is one stretch of code between two awaits of real I/O;
a handler that awaits is a sequence of actions tied together by a per-actor
record (`run`, `pull`, `at`, `saver`, `request`, `writing`, `accepting`) with a
program counter and the locals that survive the await. Failures draw on a
budget, a record with a bound per kind and `"any"` for all kinds together, or a
counter (`MaxFaults`, `MaxMishaps`, `MaxOutages`, ...). `Slip_*` definitions are
plausible mistakes used by the mutation runs and by no specification.

`MC*` modules hold the small instances. `MCFrontDesk` and `MCSettles` put
components that share no state side by side: the first state chooses one by
`part`, and only that one takes steps, so a state of such a run is a state of one
component. Fairness in `MCSettles` is stated for the chosen one. The modules that
theorems speak of are extended, so that TLC evaluates their ASSUMEs; the others
are instances. `*Proofs` modules hold the theorems (section 4).

### AriOutbox

*State.* `intents` is `store.domain.ariWriteIntents`, a sequence of record
objects that are never removed: `live` is false for one spliced out of the list,
because a drain or a request may still hold it. `db` are the rows by idempotency
key, `client` and `run` the requests and drains under way, `remote` what Channex
holds in each cell, `hydrating` whether the rows are still being loaded.
`clock`, `issued`, `acked` are history, read by properties only.

*Actions.* `EnqueueNew`, `EnqueueKnown`, `SupersedeConflict` are a command up to
its insert (the three ways `setRoomTypeAvailability`, `setRatePlanRestrictions`
and `updateDerivedRateModifier` can end), `PersistOk` and `PersistFails` the
insert's answer. `StartDrain`, `ResumeNext`, `ResumeGetOk/Fails`, `ResumeDone`,
`PickProperty`, `SendNext`, `PostOk/Partial/Unknown/Refused`,
`VerifyOk/Fails`, `SendDone`, `DrainDone` are `processAriWriteOutbox` await by
await; `BookingsDone`, `PersistNext`, `PersistRowOk/Fails`, `PersistLoopDone`
are the rest of `runInternalAriWrite`. `Crash` and `HydrateRow`, `HydrateDone`,
`HydrateFails` are a restart. The environment lets back-offs pass, edits cells
at Channex and changes the snapshot version.

*Abstractions.* A payload is the set of cells it writes and one value. A resource
stands for lane, property and room type or rate plan. Refused commands, previews
and warnings' texts change nothing and are left out.

### BookingRevisions

*State.* A revision is a number; `revs` says what Channex says under it. `res`,
`applied`, `acks`, `letters` are the lists of the store, `mapped` what the
catalog import has stored, `acked` what has left the feed.

*Actions.* `PullStart` to `PullDone` are `runBookingRevisionPull` under its
lease, with `Apply` (dead letter, duplicate or commit) once per revision;
`Webhook`, `FetchOk`, `FetchFails` a webhook; `AckStart`, `AckOk`, `AckFails`
the ack outbox; `RetryStart` to `RetryAcks` the dead-letter retry; `Import`,
`Crash`, `LeaseExpires` and what happens at Channex complete it. `Commit` is the
whole command `applyChannexBookingRevision` including `assignPhysicalRoom`.

### BookingCrs

*State.* The reservation with id c, its Offline code `PMS-<network>-<c>` and the
intent key `booking_crs:<code>` are all c. `intents`, `rows`, `replies` and `at`
are added to the state of `BookingRevisions`.

*Actions.* `Book` is the create command, `BookAgain` its replay under the same
idempotency key, `InsertOk/Fails` the insert with its rollback, `ClientReady`
the moment `sendOrResumeBookingCrsIntent` looks at the intent, `PostArrives`
the moment Channex books (a new revision of `BookingRevisions`), `PostOk`,
`PostUnknown`, `PostRefused` the answers. `DrainStart`, `SweepSends`,
`SweepEnds`, `DrainSaved`, `DrainSaveFails` are the drain and its write-through;
a sweep is the loop up to the next POST. `Revisions` is every step of
`BookingRevisions` but its crash, with the intent a commit settles;
`Restart` is the crash with hydration.

*Abstractions.* The capability is on; hydration is one step because the
capability is loaded by the same function, and nothing here runs before. Held
approvals, and a hydration that fails (nothing is sent until the next start), are
left out.

### SyncHealth

Operators over the state of `AriOutbox`: `AriWriteHealth` counts the live intents
by status as `aggregateAriWriteHealth` does, `AriTone` is the light of the panel,
`Sampled` the cells that `detectAriDrift` compares. `AriDrainProofs` proves about
both modules what holds when the worker's drain is the only one.

### AriProjection and LaggingCopy

*State.* `rows` in memory and `saved` in PostgreSQL, `channex` and what it
`offered`, `pull` per puller, forms drawn. *Actions.* a pull property by property
(availability, restrictions, commit, save), with the lease that may run out; the
read-back of the outbox; a form drawn and submitted; changes at Channex; restart
and hydration. The lease admits its own holder again, and the holder is
`web-<milliseconds>` (`sync.ts:283`): a puller takes the `name` of the clock (`now`,
`Names`), and two pulls that begin in one millisecond both run. `LaggingCopy` is the abstract specification: each cell of the copy
is unknown or holds a value the source has had, and only a restart forgets.
`IsLaggingCopy` says that `AriProjection` implements it, with
`source <- channex`, `past <- held` (a history) and the copy read off `rows`.

### PhysicalRooms

`Reconciled` is `reconcilePhysicalRooms` for one type: labels kept, the first slots
restored, the last ones archived, missing ones made; `ReconcileAll` does it type by
type, as the import does. An import takes the counts over (`Catalog`), lays the rows
over the rooms (`Overlaid`: by id, rows of unknown ids at the end), reconciles
again and persists row by row (`Write`), while Channex recounts, staff rename and
reservations are assigned and cancelled (`CancelStay`). `Crash` forgets rooms, not
rows; `HydrateRooms` reads them.

### Automation

`runCommand` is an operator on the store: replay by idempotency key, hold by
`Held`, otherwise the effect. A run is the loop of `executeFrom`, an action of
the model per attempt; `Approve` is the approval and the resumption in one request,
`Retry`, `UpdateRule` and `Arrive` (the reservation comes) what happens between.

### Inbox

A pull reads what is stored and which bookings are known, asks thread by thread,
and stores each thread's new messages as they come; staff answer an inquiry in its
thread or a guest through the outbound queue, whose answer may be lost.

### CalendarPage

The network shell and the page of one tab: refreshes and loads are slots with the
view they were asked for, an answer is drawn if the code's test for it holds.
`SubmitCell` and `SubmitPanel` are the ways to write; `Accepted`, `Rejected` and `Refused` their
answers, compared with the server's snapshot version.

### SyncWorker

A tick over http or in local mode, call by call; any call may fail, any number of
times, and throws the tick away (`Thrown`), with the networks it had yet to come to; the
pull it asked for may go on without it. Panels and webhooks ask for the same jobs; each
sets the status. Pulls that run beside each other, because a lease ran out or two began
in one millisecond, are left out here.

### Accounts, Billing, CalendarNotes, Tenancy, Proposals

Request handlers statement by statement: who is found, what is checked, what is
written, where the request may break off. `Accounts`: sign-up, bootstrap, networks,
invite, update, remove. `Billing`: checkout, customers, the row, Stripe's events in
any order and repeated, the reconciliation of quantities at a view. `CalendarNotes`:
create (insert, then renumber), edit, delete, listing; a restart lists the rows in
any order, which the query leaves open. `Tenancy`: saving a key,
hydration, import scoped to the group, and the three requests that create a
property at Channex. `Proposals`: suggest, approve (row by row, each with its
statement), dismiss, schedules that become tasks. A suggestion is an amount for a
cell, and an intent goes by the key made of both and of the snapshot version: two
approvers of one proposal are given one object (`EnqueueKnown`), which the second has
just cancelled, and the rollback of either takes it out of memory (`RolledBack`).

### Access, Stays, Screens, Routes, Rates

`Access` holds the matrices of roles and the scope of a principal. `Stays` has one
action per front-desk command, guarded as the command is, over bookings that
revisions change. `Screens` defines each list, calendar row and bar, count and
report of it, for a principal, as an operator, and states that they agree.
`Routes` defines each handler as the set of calls it admits and the records it
answers with, and the calls each page makes. `StaysAssumption` and
`ScreensAssumption` name what the constants are: finitely many homes, some of them
hotels, each room in one, nights and windows pairs of days, principals with a role
of the matrix. `Rates` defines what the rates page,
the drawer and the day menu offer, and what commands and routes take.

## 3. Runs

Passing runs:

| Run | Instance | Question |
|---|---|---|
| `AriOutboxAnswered` | a room and a rate plan of two properties, 3 commands, versions 0 and 1, one request, one drain, two of: warnings, refusal, edit by others | Does an answered drain ever post again, put back an old value or change an outcome; does the last command win; does the health panel tell what is under way? |
| `AriOutboxConcurrent` | two rooms, one without a Channex property, 3 commands by two requests, one drain, restart and failing statements | One live intent per key, and a row for each success? |
| `AriOutboxSettles` | one room, 2 commands, three of: lost answer, failing read, warnings, edit, restart | Types; nobody waits in `sending`; every success gets an outcome |
| `BookingRevisions` | one room, three stays, histories of up to 3 revisions (two neighbours of which one moves into the other's night; new, then cancelled), two of: lost ack, failed fetch, webhook, lapsed lease, retry, restart | No double booking, one effect per revision, acknowledged after commit and in the end |
| `BookingCrs` | one night, one booking submitted by two requests, one drain, up to 2 bookings at Channex, one of: lost answer, failing statement, failing client, restart | One create, confirmed by a revision only, durable before it answers, and settled |
| `AriProjection` | a property with a room type and a rate plan, another with a rate plan, worker and webhook pulling, two milliseconds, one of: failed request, failed save, lapsed lease, two pulls in one millisecond, restart, write of a form, edit or withdrawal at Channex | Is the projection a lagging copy that catches up; are stale forms refused? |
| `Settles` | `MCSettles`: one rule with two forms and two events; one thread, 3 messages, one puller, one session; two networks, two ranges, two loads at once, one refresh, one write; two networks whose calls fail as often as they like | Does the history of a run tell its effects and nothing held go out; does each come to an end? |
| `FrontDesk` | `MCFrontDesk`: one room type, two saves at once; two users, one request at a time that may break off; one subscription of a hotel and a property; two writers of notes, whose table is empty or has 10 rows of others; two tenants, two calls; two approvers of one proposal for two cells, of whom each may touch both cells or the first only; two homes, two stays, four people, three acts | The safety of each component of the web application (next table) |

| Property of `Settles`, `FrontDesk` | What it says |
|---|---|
| `HistoryTellsEffects` | One effect for each action the history of a run notes as done, whatever is replayed, edited, held and retried |
| `MessagesApproved` | No guest message of an automation without a user's approval of that action |
| `RunsFinish`, `PullsBring`, `StaleIsDrawn`, `EveryNetworkServed` | A run ends; a guest message is stored; a page whose write was stale draws what it was stale against; a network is pulled and acknowledged again and again once no call for it or for one listed before it fails |
| `ImportTakesCounts` | After an import each slot up to the count of Channex is one active room, none is two, and without live stays none is beyond the count |
| `AdminRemains` | Requests that break off between two statements leave a network its administrator |
| `ItemsBillCounts` | A view of the page makes the items of the subscription bill what the network has |
| `ApartNotesFollowRows` | As long as no two notes have gone by one id, each listed note has the id of its own row |
| `OwnPropertiesOnly`, `OnboardedReturns` | An import lists no property of another tenant; what a request created comes back after a restart |
| `QueuedIsDurable` | What a proposal reports as queued has its row, and is in memory unless its key was given to a second row; what memory has without a row is awaited |
| `PagesAgree` | Four groups of statements about computations that the code makes apart: `ScreensAgree` (every bar has a row, nights of calendar, report and list are the same, what is written is shown), `RoutesAgree` and `GuardsAgree` (a page a role sees is served what it calls, owners get only theirs, the line in the inbox follows the bar, no schedule names a home that its approval refuses), `OffersAreTaken` (a price or modifier that can be edited is taken by the command) |

`CHECK_DEADLOCK FALSE` in the runs of components that may really stop: staff do
nothing more, a page is left alone. The two safety runs of the outbox use
symmetry in the requests and in the two values a room can be given, which the
inputs treat alike; runs with liveness use none.

The bounds are the smallest in which each hazard happens: two commands for one
cell and a third elsewhere; two actors that can hold one intent; one failure at
each await and, for the outbox, a second one after it; two neighbouring stays and
a third that overlaps both; a create and the second create a retry may make; a
pull that overlaps another and a form drawn between them; an import during a
save; an approval between two attempts. Nothing in the code counts beyond that:
intents are compared pairwise, cells, resources, rooms, networks and threads are
independent of each other. What could depend on numbers is covered by the
theorems, which have no bounds, where there are any.

Every property of a passing run is also run against a mutant: one definition is
replaced by the `Slip_*` variant named in `PROJECT.json`, and TLC then finds the
property violated.

Violations, each a statement of the repository that the code does not keep:

| Run | Statement | What happens |
|---|---|---|
| `BookingRevisionsOrder` | "Out-of-order ... revisions route to no-op" (platform plan:458) | a webhook overtakes the feed; the older revision is written over the newer one |
| `PhysicalRooms` | "never overwrites edited labels or regenerates existing slot IDs" (`packages/sync/src/physical-rooms.ts:3`) | rows whose serials differ from the ids of memory are laid over other rooms at the next import; a live stay has no room |
| `AccountsRace` | "Cannot demote the last organization admin" (`team.ts:330`) | two requests demote the last two administrators; each counts before the other writes |
| `CalendarNotes` | "memory id follows the PG serial" (`calendar/notes/index.post.ts:32`) | a new note finds another note by a memory id that is that note's row id, and gives it its own |

(platform plan: `docs/plans/2026-07-16-001-feat-pms-os-platform-plan.md`.)

Some properties of the passing runs carry a condition because TLC refutes them
without it, and the condition says where the code stops keeping them:

- `DistinctCommandsWin`: nothing failed, nothing asked twice at one version
  (asking A, B, A at one version replays the first A and leaves B).
- `NoRepostAfterAccept`, `NoStaleOverwrite`: in the run whose requests are
  answered. A read-back that fails sets an accepted intent to `retry`, and it is
  posted again (`process-ari-write-outbox.ts:755`); a retry after a lost answer
  puts an old value over a newer one (`:641`).
- `HealthTellsOutbox`: rows that a failed hydration left out are not counted.
- `OneCreatePerCode`, `OneReservationPerDirectBooking`: no lost answer, no
  restart; `ConfirmedByRevision`: no restart. A retry creates again, and a restart
  gives numbers and codes out again (`create-direct-reservation.ts:194`).
  `ConfirmedByRevision` is one direction only: an answer that comes after the
  revision sets the reservation back to pending
  (`process-booking-crs-outbox.ts:150`), and each later drain shows a reconciled
  intent as confirmed, a cancelled one too (`:78`).
- `IntentsSettle`: no restart. A row written while a request was sending is
  hydrated as `sending`, which nothing resumes.
- `FreshFormHolds`: a form drawn while no pull was under way. A read-back changes
  a value and keeps its version (`process-ari-write-outbox.ts:247`).
- `VersionNeverFalls`: within a process, with no lease run out and no two pulls begun
  in one millisecond (`memory-store.ts:317`): the slower of two pulls may write a
  version the other has passed. `Converges` speaks
  of memory: rows that could not be saved are not saved later (`sync.ts:295`)
  unless they change again.
- `RunsFinish` says *ends*, not *succeeds*: a retry attempts nothing that was
  attempted before (`engine.ts:194`).
- `PullsBring` allows a message to be stored twice, by a reply recorded between
  the read and the write of a pull (`pull-messages.ts:53`). The run has one puller:
  pulls that run beside each other are not in it.
- `EveryNetworkServed`: no call for the network or one listed before it fails for ever.
  The first call that fails ends the tick (`worker.ts:66`), so one network whose call
  always fails keeps all later ones from being served.
- `StaleIsDrawn`: drawn once. Answers are drawn as they come, and an older one may be
  drawn over it (`calendar.vue:110`).
- `ItemsBillCounts`: items the subscription has, and views that found the catalog in
  memory; one right after a restart bills nothing (`billing.ts:114`). A kind the network had none of
  at checkout has no item and is billed nowhere (`billing.ts:214`).
- `OnboardedReturns`: a network that has had one group. Two first requests at
  once make two (`channex-onboarding.ts:24`).
- `OffersAreTaken`: the drawer opens at a tab it has, except when only modifiers
  may be written (`CalendarAriDrawer.vue:104`).
- `ApartNotesFollowRows`: no two notes have gone by one id. The counter of memory and the
  serial of the rows both begin at 1 and run apart with the first restart, insert that
  fails or note of another network; what happens then is the `CalendarNotes` violation.
- `QueuedIsDurable`: in memory unless the key was given to a second row. Two approvers of
  one proposal hold one object (`ari.ts:112`), and when the insert of the second fails, its
  rollback takes what the first has reported (`ai-pricing.ts:79`); the row stays, and the
  next start brings it back. Queued may also be cancelled: a second row of the cell
  cancels the first.
- `AdminRemains`: one request at a time; two at once are the `AccountsRace` violation.
- `ImportTakesCounts`: rows begin at serial 1, so ids of memory and of rows are
  the same; the `PhysicalRooms` violation is the other case.

### Fairness

The worker runs its cycle for ever and each await is answered or fails (requests
have timeouts), hence strong fairness for each step of a drain, a pull and an ack
run (`AckedSettles`, `AllAcked`, `IntentsSettle`, `Converges`): another actor may
hold the thread in between, but the event loop comes back. In `Inbox`,
`CalendarPage` and `SyncWorker` no other actor can disable a step once it is
possible: weak fairness of a pull's steps, of the answers to a load, of the
worker's next step. Requests are answered the same way. Back-offs expire: weak
fairness. Hydration is started by the first request after a restart, and the
worker makes one. `RunsFinish` assumes, besides that a request runs to its end,
that staff look at what is held and that the feed brings the reservation: it says
nothing of runs that nobody looks at. There is no fairness for commands, faults,
imports, retries by a manager, or anything Channex does of its own accord.

## 4. Theorems

All are proved by TLAPS to the last leaf, for any constants that satisfy the
named ASSUMEs, so for any number of requests, drains, pulls, rooms, revisions and
faults; TLC evaluates the ASSUMEs in every run. Every invariant and every safety
property of the passing runs is a theorem; what TLC alone answers for is liveness.

`AriOutboxProofs`:
- `TypeCorrect`: `Spec => []TypeOK`.
- `AckedStaysDurable`: a command answered with success has its row ever after.
- `LiveKeysStayUnique`: at most one live intent per idempotency key.

The inductive invariant is `IInv == TypeOK /\ RefsOK`. `TypeOK` alone is not
inductive: after an await a drain writes to the object `cur` it held before, so
the invariant must say that a drain beyond its first step, and a request with an
insert under way, refer to an object that exists and captured a proper row
(`RefsOK`). Objects are only appended and never taken away between restarts, and
a restart forgets every reference with them. `AckedStaysDurable` then needs that
only `PersistOk` acknowledges, that it writes the row or found one, and that no
other step, a crash in the middle of a statement included, empties a row.
`LiveKeysStayUnique` needs that every other step works in place (`InPlace`: no
object becomes live, no key changes) and that the two that append, a new command
and a hydrated row, look for the key first.

`BookingRevisionsProofs`:
- `TypeCorrect`; `RoomsNeverDoubleBooked`; `BookingsStayOne`;
  `RevisionsAppliedOnce`; `CancelledNeverRevived`; `AcksFollowCommits`.

All rest on one lemma: a step either leaves reservations and applied revisions
alone, forgets them (a restart), or is the `Commit` of one revision.
`RoomsNeverDoubleBooked` then is a statement on `AssignedRoom`: the room given to
i is free of every other live stay that shares a night, and the others did not
change. `BookingsStayOne` uses that `Matched` looks for the booking before it
makes a reservation. `AcksFollowCommits` needs the strengthening
`AcksCommitted`: each ack in the outbox is of an applied revision, which is not
visible from the action that sends it.

`AriDrainProofs`, under hypotheses about how drains are run:
- `OutcomesStay` (`SettledStays`), `HealthIsTrue` (`HealthTellsOutbox`): one drain.
- `NeverRepostedWhileReadable` (`NoRepostAfterAccept`): one drain, and no read-back
  fails.
- `SendingIsAwaited` (`SendingHasSender`): one drain and one request.
- `NewerIsNotOverwritten` (`NoStaleOverwrite`): one drain, `IdsApart`, and a behaviour
  in which no answer is lost, no read-back fails and nothing restarts (`[]NoneLost`).
- `LastAskedIsThere` (`DistinctCommandsWin`): one drain, `IdsApart`, `AllMapped`,
  `WholeResources`.

`OneDrain` is what the worker does: it awaits each drain's answer before it asks
again (`worker.ts`). A session may ask for a drain beside it, and nothing in the
code serialises the two; for two drains TLC refutes all four, which is why the
hypothesis is there. The read-back is the exception of section 3
(`process-ari-write-outbox.ts:755`). Two requests for one command are the
exception of the last one: the second carries a `sending` to a row that the first
did not insert, and a restart reads it from there. The inductive invariant says
what the drain may count on when its await ends (`DrainsAtWork`: the intent it reads
back is `reconciling`, the one it posts `sending`, those it has yet to take up were
at most cancelled); that what Channex took is in a status from which no drain posts,
in memory (`TakenInMemory`) and in each row that a restart may read (`TakenInRows`);
and that `sending` is the status of the one intent whose POST is awaited, and of no
row (`Senders`). The properties see memory only, and a restart replaces memory by
rows.

The last two are about order. `InOrder`: of the intents that wait at most one is for
a cell, and so of those a drain has in hand; what is in hand was asked before what
waits; nothing at Channex is newer than either. It holds because a command looks for
the live intent of its cells and supersedes or cancels it, and it fails as soon as an
intent that was posted waits again: a lost answer, a failed read-back and a restart
each do that, hence `NoneLost`. `IdsTell` is needed because the code finds the object
of a row by id, and memory and table number separately: two live intents are told
apart if the ids of memory stay below the table's serial or if each command has its row
before the next is asked (`IdsApart`). `LastAskedIsThere` adds that nothing gets lost
(`NothingLost`: each command is at Channex, or an intent at least as new is on its way
to each of its cells). A resource without a Channex id fails its intent (`AllMapped`).
`WholeResources` says that the commands of a resource write the same dates and fields.
The code needs it: `pickSendableByProperty` compares by resource, so a newer command for
other dates of the same rate plan cancels the one that waits. The
constants of `AriOutboxAnswered` satisfy all four. Run beyond them, TLC refutes
`NoStaleOverwrite` for two drains and `DistinctCommandsWin` for two requests where the
serial of the table begins at 2; the instance with two requests is too small to
tell whether `NoStaleOverwrite` needs `IdsApart`.

`AriProjectionProofs`:
- `Invariant`; `ImplementsLaggingCopy`: the refinement, initial state and step by
  step; `VersionMonotonic`; `FreshFormsHold`.

`IInv` says of everything that is on its way (an answer of Channex, rows to save, a
write to read back) that each value in it is one its cell has had at Channex
(`AllHeld`): a commit happens awaits later. `VersionMonotonic` needs `OnePuller`:
until a lease runs out or lets in a second pull of its holder's name, one puller at most
is running, its name is the lease's and its version above all rows. That is a condition
on the behaviour, not on the constants: the theorem covers what comes before the first
such moment.
`FreshFormsHold` needs that a pull under way began after each settled form
(`FormsOvertaken`), without which a slow pull could store other values under an old
version.

`AutomationProofs`:
- `MessagesNeedApproval`; `HistoryStaysTrue`; `ActionsDoneOnce`.

The property counts effects and attempts. The invariant says instead that an action
is done at most once and noted as ok at most once, and one exactly if the other
(`DoneOnce`, `DoneIsNoted`). A retry begins after all that is done (`NextIsNew`), and
an approval finds the one attempt that waits for it (`HeldAttemptsWait`,
`ApprovalsMatch`).

`BookingCrsProofs`, on top of `BookingRevisionsProofs`:
- `CrsInvariant`; `IntentsAreDurable`; `ConfirmedOnlyByRevision`; `CreatedOnce`;
  `DirectBookingsStayOne`.

`CrsInv` has three layers. Always: types, references, rows for live intents. Before
the first restart (`Kept`): ids and codes are given once, bookings are noted where
their code says, a reconciled intent's reservation shows a revision. Before the
first lost answer as well: who is about to post a code is alone with it and nothing
was posted with it (`Senders`), so one code is one booking (`SentOnce`), one
reservation (`OneEachBooking`). The properties carry the same conditions, and
section 3 says what happens after them.

`FrontDeskProofs`:
- `NetworksListTheirOwn` (`OwnPropertiesOnly`), `AnsweredIsFoundAgain`
  (`OnboardedReturns`): `Fits` says of each request, at each of its awaits, that the
  group it read or made, the properties it was told, the key it holds are those of
  its network, though rows and memory change under it; `FitsStays` that this
  survives what others do, since groups, keys and properties only grow.
- `NotesKeepTheirRows` (`ApartNotesFollowRows`): whatever the serial begins at, as long
  as no two notes have gone by one id (`met`). The invariant `NotesApart` says that an id
  that memory has given is still that note's or lies below the serial (`Passed`), so a row
  gets its note's own id or one above all of memory; what each writer has under way
  (`Inserts`, `Deletes`); and that a saved note that is listed has its row. Deletions make
  it delicate: a row may go before its answer has come, or the note before its row.
- `ItemsAreBroughtUp` (`ItemsBillCounts`): `TaskTells` says that a view nothing came
  in the way of has the counts of now, and that what it will not update is right.
- `LastAdminStays` (`AdminRemains`): if each request is answered before the next one
  comes (`OneAtATime`; two at once are the `AccountsRace` violation). `CountsOn` says
  of a request between its count and its last write that the role it read is still
  the member's and, if that is the admin's, that another is one.
- `QueuedStaysDurable` (`QueuedIsDurable`): not inductive, as an accept whose statement
  fails takes back every object it holds, which could be one that another accept has
  reported. The invariant says for which keys that can be: an object that two accepts
  hold, or that one holds and a proposal reports, is of a key given to a second row
  (`HeldOnce`, `ReportedAreLeft`, with `shared` a history of those keys). For rows it says
  that what an accept reports or waits for is among what it holds (`RowsAreWritten`,
  `WaitingAreHeld`) and that this is in memory (`HeldAreThere`).
- `CountsAreTaken` (`ImportTakesCounts`): the invariant only says that rows are rows.
  The weight is in the algorithm: `Reconciled` settles its type whatever rows it finds
  (the k-th active slot is there to be restored or archived, by counting the slots
  below it) and keeps the rows of the other types, so after the loop over the types
  all are settled (by the first type that would not be). Imports, renames, saves that
  broke off and restarts before it do not matter.

`PagesProofs`:
- `PagesNeverDisagree` (`PagesAgree`): for any homes, rooms, people, nights and
  windows.

`StaysInv` is what the bookings keep: a room is of the home of its stay, and live
stays that share a night have different rooms (`RoomsFit`). It gives the calendar one
bar per row and day. That calendar, report and list count the same nights is a
double count: a total per day and a total per stay both count the pairs of a stay and a
day of it. The totals are folds, for which the prover has no induction; the proof
names the fold's function and takes the least subset on which it would not be the
count. The rest is by cases over the roles of the matrix and the guards of each route:
long, but with no invariant beyond that.

The ASSUMEs are about kinds, not sizes: inputs are of the record types the code
declares, "none" is none of the real values, bounds are naturals, the cells of
`AriProjection` are finitely many (a version is a maximum over rows), and so are the
homes of `Stays` (a report adds up over them). Nothing is assumed of how many actors,
faults or records there are.

Only model-checked: liveness (`AckedSettles`, `AllAcked`, `IntentsSettle`, `Converges`,
`RunsFinish`, `PullsBring`, `StaleIsDrawn`, `EveryNetworkServed`), which needs fairness
and ENABLED, out of the prover's reach; and the four violations, which are
counterexamples. `Inbox`, `CalendarPage` and `SyncWorker` have liveness properties only,
and so no theorem.

## 5. What is not modelled, and what comes next

Not modelled, as a whole: the retries and timeouts inside one Channex request and
the encryption of keys (a call is one answer: taken, refused or lost); the second
sync store (`drizzle-store.ts`), which the server does not use; wire mappers and
formats (amounts, currencies, texts, time zones are data no property tells apart);
what a language model answers (any answer is possible in `Proposals`); website,
documentation and the mobile shell but for the registration of devices. In the
modules that are partial, what is left out is in the `note` of each component of
`PROJECT.json`; mostly field checks of bodies, wording, rendering, and the saves
of the operators' console at the same time.

Abstractions worth knowing when reading a result:

- All handlers run to their next await of real I/O; an `await` of a function that
  does none is no step.
- Two homes, two windows and three lengths of stay stand for the calendar of
  `Screens` and `Routes`; dates are numbers, a night is the number of its day.
- A payload of a write is the set of cells it covers and one value.
- Values typed in an open drawer are not in `CalendarPage`: the drawer keeps what
  it was opened with and sends it with the newest version
  (`CalendarAriDrawer.vue:83`), a hazard without a property.
- `Settles` and `FrontDesk` compose components without shared state. The
  components that share state are composed for real: `BookingCrs` on
  `BookingRevisions`, `SyncHealth` on `AriOutbox`, `Screens` and `Routes` on `Stays`.

Worth doing next: `NoStaleOverwrite` behaviour by behaviour after a lost answer, where the
code keeps it for cells that no retry is for; safety of `Inbox` (what a message may be
stored as) and of `CalendarPage` (what may be drawn), which the liveness properties use
without naming; and the acknowledgement of a revision whose reservation a restart forgets,
a hazard without a property, as no statement of the repository says what should hold.

## 6. Running it

    tlc -workers 2 -config BookingCrs.cfg MCBookingCrs
    tlc -workers 2 -config FrontDesk.cfg MCFrontDesk
    tlapm BookingRevisionsProofs.tla

`PROJECT.json` names the module and the `.cfg` of every run. The longest runs take
two to four minutes with two workers (`FrontDesk`, 1.1 million states, and `AriProjection`),
the longest proof ten (`FrontDeskProofs`).
