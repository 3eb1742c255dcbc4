------------------------------ MODULE BookingCrs ------------------------------
(***************************************************************************)
(* Direct bookings: a reservation taken at the desk is created pending,    *)
(* its intent is stored and sent to the Booking CRS of Channex, and the    *)
(* revision Channex then publishes confirms it.                            *)
(*                                                                         *)
(*   packages/domain/src/commands/create-direct-reservation.ts             *)
(*   apps/web/server/utils/reservations.ts    insert, rollback, write-back *)
(*   apps/web/server/lib/reservation-query.ts applyWriteBackResult         *)
(*   packages/sync/src/jobs/process-booking-crs-outbox.ts      the drain   *)
(*   apps/web/server/utils/sync.ts            drain and write-through      *)
(*                                                                         *)
(* Composes BookingRevisions: the reservations, the feed and webhooks and  *)
(* the revision command are that module's, and the bookings sent from here *)
(* become revisions there.                                                 *)
(*                                                                         *)
(* The reservation with id c has the Offline code PMS-<network>-<c>, and   *)
(* the intent the key booking_crs:<code>: all three are c here.  Commands  *)
(* refused for role, dates, prices, vacancy or a stale form change nothing *)
(* and are left out.  The capability bookingCrsWrite is on.                *)
(***************************************************************************)
EXTENDS BookingRevisions

CONSTANTS
    Clients,        \* concurrent POST /api/reservations
    Drains,         \* concurrent POST /api/internal/sync/ari-write
    Requests,       \* what is asked for, with its idempotency key: [stay, type, key]
    NoIntent,       \* no intent, or no row, under this key
    MaxCrsFaults    \* bound: a record

CrsFaultKinds == {"any", "lost", "db", "scope", "restart"}

ASSUME CrsConstantsAssumption ==
    /\ Clients \cap Drains = {}
    /\ \A q \in Requests : q.stay \in Stays /\ q.type \in RoomTypes
    /\ MaxCrsFaults \in [CrsFaultKinds -> Nat]

VARIABLES
    intents,    \* the booking_crs intents of the process, by code
    rows,       \* their rows in ari_write_intents
    replies,    \* store.domain.idempotency: the reservation a request got, or 0
    at,         \* per client and drain: where it is
    crsFaults
crs == <<intents, rows, replies, at, crsFaults>>
all == <<vars, crs>>

Actors == Clients \cup Drains
IntentStatuses == {"queued", "sending", "accepted", "retry", "reconciling", "reconciled", "failed"}
SKIP_POST == {"accepted", "reconciling", "reconciled"}
Slip_Resend == {"queued", "retry", "sending"}
SENDABLE == {"queued", "retry"}

\* booking is channexTaskIds[0], 0 when empty; backoff: nextAttemptAt is to come.
Row == [status : IntentStatuses, backoff : BOOLEAN, booking : BookingIds, stay : Stays, type : Types]
RowOf(i) == [status |-> i.status, backoff |-> i.backoff, booking |-> i.booking,
             stay |-> i.stay, type |-> i.type]
\* live: still in the list.  One taken out by a rollback may be held by a drain.
Intent == [status : IntentStatuses, backoff : BOOLEAN, booking : BookingIds, stay : Stays,
           type : Types, live : BOOLEAN]
ASSUME NoIntentAssumption == NoIntent \notin Row \cup Intent
Queued(q) == [status |-> "queued", backoff |-> FALSE, booking |-> 0, stay |-> q.stay,
              type |-> q.type, live |-> TRUE]
Live == {c \in ResIds : intents[c] # NoIntent /\ intents[c].live}

Idle == [pc |-> "idle", cur |-> 0, booking |-> 0, todo |-> {}, did |-> FALSE, row |-> NoIntent]

CrsInit ==
    /\ Init
    /\ intents = [c \in ResIds |-> NoIntent] /\ rows = [c \in ResIds |-> NoIntent]
    /\ replies = [q \in Requests |-> 0]
    /\ at = [s \in Actors |-> Idle]
    /\ crsFaults = MaxCrsFaults

CanCrsFault(kind) == crsFaults["any"] > 0 /\ crsFaults[kind] > 0
CrsFault(kind) == crsFaults' = [crsFaults EXCEPT !["any"] = @ - 1, ![kind] = @ - 1]
\* No drain holds the thread; nor does a feed pull.
NoSweep == \A d \in Drains : at[d].pc # "sweep"
Free == Serving /\ NoSweep
Go(s, state) == at' = [at EXCEPT ![s] = state]
\* Of the variables of BookingRevisions, an action here writes res or revs.
Quiet == UNCHANGED <<applied, acks, letters, mapped, jobs, turn, acked, faults>>
NoNewRes == Quiet /\ UNCHANGED nextRes

\* The reservation object c, unless a rollback took it out of the list.
Shown(c, booking, status) ==
    IF res[c] = NoRes THEN res
    ELSE [res EXCEPT ![c].booking = IF booking = 0 THEN @ ELSE booking, ![c].status = status]
Slip_ConfirmOnAccept(c) == "confirmed"
AcceptedStatus(c) == IF intents[c].status = "reconciled" THEN "confirmed" ELSE "pending_sync"
First(a, b) == IF a # 0 THEN a ELSE b
ResBooking(c) == IF res[c] = NoRes THEN 0 ELSE res[c].booking

-----------------------------------------------------------------------------
(* The request: create, insert, write back.                                *)

\* createDirectReservation.  The intent is found by its key when a restart has
\* brought back the intent of an earlier reservation with this id.
Book(s, q) ==
    LET c == nextRes
        intent == IF intents[c] # NoIntent THEN intents[c] ELSE Queued(q)
    IN  /\ Free /\ at[s].pc = "idle" /\ replies[q] = 0 /\ c \in ResIds
        /\ {NoType, q.type} \subseteq mapped
        /\ res' = [res EXCEPT ![c] =
               [booking |-> 0, code |-> c, status |-> "pending_sync", type |-> q.type,
                stay |-> q.stay, room |-> NoRoom, src |-> 0]]
        /\ nextRes' = c + 1
        /\ intents' = [intents EXCEPT ![c] = intent]
        /\ replies' = [replies EXCEPT ![q] = c]
        /\ Go(s, [Idle EXCEPT !.pc = "insert", !.cur = c, !.row = RowOf(intent)])
        /\ UNCHANGED <<rows, revs, crsFaults>> /\ Quiet

\* defaultDirectBookingWriteBack: what Channex has accepted is not sent again.
WriteBack(s, c) ==
    IF intents[c].status \in SKIP_POST
    THEN LET booking == First(ResBooking(c), intents[c].booking)
         IN  /\ res' = Shown(c, booking, IF booking = 0 THEN "pending_sync" ELSE AcceptedStatus(c))
             /\ Go(s, Idle)
    ELSE UNCHANGED res /\ Go(s, [Idle EXCEPT !.pc = "client", !.cur = c])

\* The same key again: the stored answer is replayed, nothing is inserted, and the
\* write-back runs at once, whatever the first request is doing.
BookAgain(s, q) ==
    LET c == replies[q]
    IN  /\ Free /\ at[s].pc = "idle" /\ c # 0 /\ res[c] # NoRes
        /\ WriteBack(s, c)
        /\ UNCHANGED <<intents, rows, replies, revs, crsFaults>> /\ NoNewRes

Inserting(s) == Free /\ at[s].pc = "insert"
Inserted(c, row) == IF rows[c] = NoIntent THEN [rows EXCEPT ![c] = row] ELSE rows
InsertOk(s) ==
    /\ Inserting(s)
    /\ rows' = Inserted(at[s].cur, at[s].row)
    /\ WriteBack(s, at[s].cur)
    /\ UNCHANGED <<intents, replies, revs, crsFaults>> /\ NoNewRes

Slip_AnswerAnyway(s) ==
    /\ Inserting(s) /\ CanCrsFault("db") /\ CrsFault("db")
    /\ WriteBack(s, at[s].cur)
    /\ UNCHANGED <<intents, rows, replies, revs>> /\ NoNewRes
\* 503: intent and reservation leave their lists; the row may have been written, and
\* the stored answer stays.
InsertFails(s) ==
    LET c == at[s].cur
    IN  /\ Inserting(s) /\ CanCrsFault("db") /\ CrsFault("db")
        /\ rows' = rows \/ rows' = Inserted(c, at[s].row)
        /\ intents' = [intents EXCEPT ![c].live = FALSE]
        /\ res' = [res EXCEPT ![c] = NoRes]
        /\ Go(s, Idle)
        /\ UNCHANGED <<replies, revs>> /\ NoNewRes

Sendable(c) == intents[c].status \in SENDABLE /\ ~intents[c].backoff

\* The client is there: sendOrResumeBookingCrsIntent looks at the intent again.
ClientReady(s) ==
    LET c == at[s].cur
        booking == First(intents[c].booking, ResBooking(c))
    IN  /\ Free /\ at[s].pc = "client"
        /\ \/ /\ Sendable(c)
              /\ intents' = [intents EXCEPT ![c].status = "sending"]
              /\ Go(s, [at[s] EXCEPT !.pc = "post"])
              /\ UNCHANGED res
           \/ /\ ~Sendable(c)
              /\ res' = Shown(c, IF intents[c].status \in SKIP_POST THEN booking ELSE 0,
                     IF intents[c].status \in SKIP_POST /\ booking # 0
                     THEN AcceptedStatus(c) ELSE "pending_sync")
              /\ Go(s, Idle)
              /\ UNCHANGED intents
        /\ UNCHANGED <<rows, replies, revs, crsFaults>> /\ NoNewRes

\* The property is out of scope, or Channex does not list the group.
ClientFails(s) ==
    /\ Free /\ at[s].pc = "client" /\ CanCrsFault("scope") /\ CrsFault("scope")
    /\ res' = Shown(at[s].cur, 0, "pending_sync")
    /\ Go(s, Idle)
    /\ UNCHANGED <<intents, rows, replies, revs>> /\ NoNewRes

-----------------------------------------------------------------------------
(* POST bookings, by a request or a drain.                                 *)

\* Channex books it and publishes the revision; the answer is still to come.
PostArrives(s) ==
    LET intent == intents[at[s].cur]
        booking == Cardinality(Booked) + 1
    IN  /\ Free /\ at[s].pc = "post" /\ Len(revs) < MaxRevisions
        /\ revs' = Append(revs, [booking |-> booking, code |-> at[s].cur, status |-> "new",
                                 type |-> intent.type, stay |-> intent.stay])
        /\ Go(s, [at[s] EXCEPT !.pc = "posted", !.booking = booking])
        /\ UNCHANGED <<res, intents, rows, replies, crsFaults>> /\ NoNewRes

PostOk(s) ==
    LET c == at[s].cur
        accepted == [intents[c] EXCEPT !.status = "accepted", !.booking = at[s].booking]
    IN  /\ Free /\ at[s].pc = "posted"
        /\ intents' = [intents EXCEPT ![c] = accepted]
        /\ res' = Shown(c, at[s].booking, "pending_sync")
        /\ Go(s, IF s \in Drains THEN [at[s] EXCEPT !.pc = "sweep", !.booking = 0]
                 ELSE [at[s] EXCEPT !.pc = "save", !.row = RowOf(accepted)])
        /\ UNCHANGED <<rows, replies, revs, crsFaults>> /\ NoNewRes

\* A request answers "pending"; a drain goes on with the next intent.
NotSent(s) ==
    /\ IF s \in Drains
       THEN UNCHANGED res /\ Go(s, [at[s] EXCEPT !.pc = "sweep", !.booking = 0])
       ELSE res' = Shown(at[s].cur, 0, "pending_sync") /\ Go(s, Idle)
    /\ UNCHANGED <<rows, replies, revs>> /\ NoNewRes

Slip_StaysSending(i) == [i EXCEPT !.backoff = TRUE]
ToRetry(i) == [i EXCEPT !.status = "retry", !.backoff = TRUE]
\* 5xx or no answer, whether Channex has booked it or not.
PostUnknown(s) ==
    /\ Free /\ at[s].pc \in {"post", "posted"} /\ CanCrsFault("lost") /\ CrsFault("lost")
    /\ intents' = [intents EXCEPT ![at[s].cur] = ToRetry(@)]
    /\ NotSent(s)

\* Any 4xx, 429 among them.
PostRefused(s) ==
    /\ Free /\ at[s].pc = "post"
    /\ intents' = [intents EXCEPT ![at[s].cur].status = "failed"]
    /\ NotSent(s)
    /\ UNCHANGED crsFaults

Updated(s) == IF rows[at[s].cur] = NoIntent THEN rows
              ELSE [rows EXCEPT ![at[s].cur] = at[s].row]
\* The request stores the accepted status, best effort, and answers.
ClientSaved(s) ==
    /\ Free /\ s \in Clients /\ at[s].pc = "save"
    /\ \/ rows' = Updated(s) /\ UNCHANGED crsFaults
       \/ CanCrsFault("db") /\ CrsFault("db") /\ rows' \in {rows, Updated(s)}
    /\ res' = Shown(at[s].cur, at[s].booking, "pending_sync")
    /\ Go(s, Idle)
    /\ UNCHANGED <<intents, replies, revs>> /\ NoNewRes

-----------------------------------------------------------------------------
(* The drain: processBookingCrsOutbox, then the write-through of every row.*)

DrainStart(d) ==
    /\ Free /\ at[d].pc = "idle" /\ Live # {}
    /\ Go(d, [Idle EXCEPT !.pc = "sweep", !.todo = Live])
    /\ UNCHANGED <<res, intents, rows, replies, revs, crsFaults>> /\ NoNewRes

\* What Channex has accepted is only shown on the reservation with the intent's id.
Resumed(S) ==
    [c \in ResIds |->
        IF c \in S /\ res[c] # NoRes /\ intents[c].status \in SKIP_POST
                   /\ First(intents[c].booking, ResBooking(c)) # 0
        THEN [res[c] EXCEPT !.booking = First(intents[c].booking, @), !.status = AcceptedStatus(c)]
        ELSE res[c]]

\* The loop up to its next POST.  Intents are taken in the order of their codes,
\* in which they were created.
SweepSends(d, c) ==
    LET before == {k \in at[d].todo : k < c}
    IN  /\ at[d].pc = "sweep" /\ NoType \in mapped
        /\ c \in at[d].todo /\ Sendable(c) /\ \A k \in before : ~Sendable(k)
        /\ res' = Resumed(before)
        /\ intents' = [intents EXCEPT ![c].status = "sending"]
        /\ Go(d, [at[d] EXCEPT !.pc = "post", !.cur = c, !.did = TRUE,
                               !.todo = @ \ (before \cup {c})])
        /\ UNCHANGED <<rows, replies, revs, crsFaults>> /\ NoNewRes

\* The rows are written one after the other, each as its intent is at that moment.
SaveNext(todo, record) ==
    IF todo = {} THEN Idle
    ELSE [Idle EXCEPT !.pc = "save", !.cur = SetMin(todo), !.todo = todo \ {SetMin(todo)},
                      !.row = RowOf(record[SetMin(todo)])]

\* The rest of the loop.  Without the property in the catalog an intent fails.  Rows
\* are written when this drain or the one of the ARI lanes before it had work.
SweepEnds(d) ==
    LET failing == {c \in at[d].todo : Sendable(c)}
        did == at[d].did \/ \E c \in at[d].todo : Sendable(c) \/ intents[c].status \in SKIP_POST
    IN  /\ at[d].pc = "sweep" /\ (failing = {} \/ NoType \notin mapped)
        /\ res' = Resumed(at[d].todo)
        /\ intents' = [c \in ResIds |->
               IF c \in failing THEN [intents[c] EXCEPT !.status = "failed"] ELSE intents[c]]
        /\ \/ Go(d, SaveNext(Live, intents'))
           \/ ~did /\ Go(d, Idle)
        /\ UNCHANGED <<rows, replies, revs, crsFaults>> /\ NoNewRes

DrainSaved(d) ==
    /\ Free /\ d \in Drains /\ at[d].pc = "save"
    /\ rows' = Updated(d)
    /\ Go(d, SaveNext(at[d].todo, intents))
    /\ UNCHANGED <<res, intents, replies, revs, crsFaults>> /\ NoNewRes

\* The error is swallowed, the rest of the rows skipped.
DrainSaveFails(d) ==
    /\ Free /\ d \in Drains /\ at[d].pc = "save" /\ CanCrsFault("db") /\ CrsFault("db")
    /\ rows' \in {rows, Updated(d)}
    /\ Go(d, Idle)
    /\ UNCHANGED <<res, intents, replies, revs>> /\ NoNewRes

BackoffExpires(c) ==
    /\ intents[c] # NoIntent /\ intents[c].backoff
    /\ intents' = [intents EXCEPT ![c].backoff = FALSE]
    /\ UNCHANGED <<vars, rows, replies, at, crsFaults>>

-----------------------------------------------------------------------------
(* Revisions and restarts.                                                 *)

\* The commit of a revision also settles the intent of the reservation's code.
Reconciles ==
    LET c == res'[Matched(revs[applied'[Len(applied')]])].code
    IN  intents' = IF applied' # applied /\ c \in Live
                   THEN [intents EXCEPT ![c].status = "reconciled"] ELSE intents

Revisions ==
    /\ NoSweep /\ Running /\ Reconciles
    /\ UNCHANGED <<rows, replies, at, crsFaults>>

Hydrated(r) == [status |-> r.status, backoff |-> r.backoff, booking |-> r.booking,
                stay |-> r.stay, type |-> r.type, live |-> TRUE]
\* Reservations and replies are gone, the intents come back from their rows before
\* the capability does.  A statement under way may still be executed.
Restart ==
    /\ Free /\ Crash /\ CanCrsFault("restart") /\ CrsFault("restart")
    /\ \/ rows' = rows
       \/ \E s \in Actors : at[s].pc = "insert" /\ rows' = Inserted(at[s].cur, at[s].row)
       \/ \E s \in Actors : at[s].pc = "save" /\ rows' = Updated(s)
    /\ intents' = [c \in ResIds |-> IF rows'[c] = NoIntent THEN NoIntent ELSE Hydrated(rows'[c])]
    /\ replies' = [q \in Requests |-> 0]
    /\ at' = [s \in Actors |-> Idle]

-----------------------------------------------------------------------------
Posting(s) == PostArrives(s) \/ PostOk(s) \/ PostUnknown(s) \/ PostRefused(s)
Request(s) == \E q \in Requests : Book(s, q) \/ BookAgain(s, q)
Answering(s) ==
    InsertOk(s) \/ InsertFails(s) \/ ClientReady(s) \/ ClientFails(s) \/ Posting(s) \/ ClientSaved(s)
Drain(d) ==
    \/ DrainStart(d) \/ (\E c \in at[d].todo : SweepSends(d, c)) \/ Posting(d)
    \/ SweepEnds(d) \/ DrainSaved(d) \/ DrainSaveFails(d)

CrsNext ==
    \/ \E s \in Clients : Request(s) \/ Answering(s)
    \/ \E d \in Drains : Drain(d)
    \/ \E c \in ResIds : BackoffExpires(c)
    \/ Revisions \/ Restart

CrsSpec == CrsInit /\ [][CrsNext]_all

\* The worker ticks, what is awaited is answered, time passes; nobody has to book.
PullStep(p) == Pull(p) /\ Revisions
AckStep(a) == AckRun(a) /\ Revisions
CrsFairSpec ==
    /\ CrsSpec
    /\ \A s \in Clients : SF_all(Answering(s))
    /\ \A d \in Drains : SF_all(Drain(d))
    /\ \A c \in ResIds : WF_all(BackoffExpires(c))
    /\ \A p \in Pullers : SF_all(PullStep(p))
    /\ \A a \in Ackers : SF_all(AckStep(a))

-----------------------------------------------------------------------------
(* Properties.                                                             *)

NeverRestarted == faults["crash"] = MaxFaults["crash"]
NothingLost == NeverRestarted /\ crsFaults["lost"] = MaxCrsFaults["lost"]

\* A booking looks confirmed only when a revision of it has been committed: neither
\* the acceptance of the POST nor a resumed intent is enough (AE3).
LocalOnly == {i \in Held : res[i].status = "confirmed" /\ res[i].src = 0}
ConfirmedByRevision == NeverRestarted => LocalOnly = {}

\* Double submit, the drain beside the request, replays: one booking at Channex per
\* Offline code, as long as no answer is lost.
Creates(c) == {r \in DOMAIN revs : revs[r].code = c /\ revs[r].status = "new"}
OneCreatePerCode == NothingLost => \A c \in ResIds : Cardinality(Creates(c)) <= 1

\* The revision of a direct booking finds the reservation that waits for it,
\* whether it comes before or after the answer to the POST.
OneReservationPerDirectBooking == NothingLost => OneReservationPerBooking

\* R15: an intent in memory whose insert nobody awaits has its row.
LiveIsDurable ==
    \A c \in Live : (\A s \in Actors : at[s].pc = "insert" => at[s].cur # c) => rows[c] # NoIntent

\* Every intent ends accepted, reconciled or failed, through lost answers, failed
\* inserts and two senders.
IntentsSettle ==
    <>[](NeverRestarted => \A c \in Live : intents[c].status \in SKIP_POST \cup {"failed"})
=============================================================================
