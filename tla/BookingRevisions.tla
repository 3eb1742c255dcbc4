--------------------------- MODULE BookingRevisions ---------------------------
(***************************************************************************)
(* Booking revisions: how what happens to a booking at Channex reaches the *)
(* reservations, gets a physical room and is acknowledged.                 *)
(*                                                                         *)
(*   packages/sync/src/apply-revision.ts             gates, dead letters   *)
(*   packages/domain/src/commands/apply-channex-booking-revision.ts        *)
(*   packages/domain/src/assign-physical-room.ts     the room              *)
(*   packages/sync/src/jobs/pull-booking-revisions.ts, webhooks.ts         *)
(*   packages/sync/src/jobs/process-ack-outbox.ts    acknowledgements      *)
(*   apps/web/server/utils/sync.ts                   webhook, retry        *)
(*                                                                         *)
(* The process is one JavaScript thread; turn names the feed pull that is  *)
(* applying its revisions one after the other, NoPull when every job is    *)
(* awaiting.  Everything here but mapped is lost by a restart.             *)
(*                                                                         *)
(* One property of one network.  A revision is a number; what it says is   *)
(* the booking, the stay [from, to), a room type and a reservation code.   *)
(* Guests, occupancy and money are left out.                               *)
(***************************************************************************)
EXTENDS Naturals, Sequences, FiniteSets

CONSTANTS
    RoomTypes,
    NoType,         \* a revision without a room type
    Rooms,          \* active physical rooms, numbered in sort order
    TypeOf,         \* Rooms -> RoomTypes
    NoRoom,
    Stays,          \* [from, to] night numbers
    NoCode,         \* no ota_reservation_code
    NoRes,          \* no reservation under this id
    NoPull,         \* the thread is free
    Pullers,        \* concurrent feed pulls
    Ackers,         \* concurrent runs of the ack outbox
    Histories,      \* bound: what Channex may come to say, sequences of revisions
    MaxRevisions,   \* bound: revisions of all bookings
    MaxRes,         \* bound: reservations
    MaxFaults       \* bound: faults, webhooks, expired leases, retries: a record

FaultKinds == {"any", "get", "ack", "crash", "hook", "lease", "retry"}

ASSUME ConstantsAssumption ==
    /\ NoType \notin RoomTypes
    /\ Rooms \subseteq Nat \ {0} /\ NoRoom \notin Rooms
    /\ TypeOf \in [Rooms -> RoomTypes]
    /\ Stays \subseteq [from : Nat, to : Nat]
    /\ \A s \in Stays : s.from < s.to
    /\ NoCode = 0
    /\ NoPull \notin Pullers
    /\ MaxRevisions \in Nat /\ MaxRes \in Nat
    /\ MaxFaults \in [FaultKinds -> Nat]

VARIABLES
    res,        \* store.domain.reservations, by id
    nextRes,    \* store.nextId('reservation')
    applied,    \* store.domain.bookingRevisions: the revisions, in order
    acks,       \* store.domain.ackOutbox
    letters,    \* external ids of the dead letters, each once
    mapped,     \* what the catalog import has stored: room types, NoType for the property
    claimed,    \* webhook deliveries seen
    fetching,   \* webhooks that await the revision they announced
    pull,       \* per feed pull: where it is, and what the feed answered
    lease,      \* holder of 'pull_revisions', or NoPull
    retry,      \* the dead-letter retry: under way, and letters still to fetch
    acker,      \* per ack run: the ack awaited, 0 when idle
    turn,
    revs,       \* Channex: what each revision says
    acked,      \* Channex: acknowledged revisions, no longer in the feed
    faults
jobs == <<claimed, fetching, pull, lease, retry, acker>>
local == <<res, nextRes, applied, acks, letters>>
vars == <<local, mapped, jobs, turn, revs, acked, faults>>

ResIds == 1..MaxRes
Types == RoomTypes \cup {NoType}
Codes == 0..MaxRes          \* an Offline code is made of a reservation id
BookingIds == 0..MaxRevisions + MaxRes      \* 0: none yet
Statuses == {"pending_sync", "confirmed", "cancelled"}
Reservation == [booking : BookingIds, code : Codes, status : Statuses, type : Types,
                stay : Stays, room : Rooms \cup {NoRoom}, src : 0..MaxRevisions]
Revision == [booking : BookingIds, code : Codes, status : {"new", "modified", "cancelled"},
             type : Types, stay : Stays]
AckStatuses == {"pending", "failed", "sent"}
PullPcs == {"idle", "asked", "answered", "applying"}
IdlePull == [pc |-> "idle", list |-> {}]
NoRetry == [on |-> FALSE, todo |-> <<>>]

ASSUME HistoriesAssumption == Histories \subseteq Seq(Revision)

SetMin(S) == CHOOSE x \in S : \A y \in S : x <= y
Held == {i \in ResIds : res[i] # NoRes}
Members(s) == {s[i] : i \in DOMAIN s}
Booked == {revs[r].booking : r \in DOMAIN revs}

CanFault(kind) == faults["any"] > 0 /\ faults[kind] > 0
Fault(kind) ==
    faults' = [k \in FaultKinds |-> faults[k] - (IF k \in {"any", kind} THEN 1 ELSE 0)]

NoReservations == [i \in ResIds |-> NoRes]
IdlePulls == [p \in Pullers |-> IdlePull]
IdleAckers == [a \in Ackers |-> 0]

Init ==
    /\ res = NoReservations /\ nextRes = 1
    /\ applied = <<>> /\ acks = <<>> /\ letters = <<>> /\ mapped = {}
    /\ claimed = {} /\ fetching = {} /\ pull = IdlePulls /\ lease = NoPull
    /\ retry = NoRetry /\ acker = IdleAckers /\ turn = NoPull
    /\ revs = <<>> /\ acked = {} /\ faults = MaxFaults

-----------------------------------------------------------------------------
(* Rooms: assignPhysicalRoom.                                              *)

IsLiveStay(r) == r.status # "cancelled"
Overlap(a, b) == a.from < b.to /\ b.from < a.to     \* half-open stays

Taken(i, stay) ==
    {res[o].room : o \in {k \in Held \ {i} :
        IsLiveStay(res[k]) /\ res[k].room # NoRoom /\ Overlap(stay, res[k].stay)}}

Slip_KeepRoom(i, new) ==
    LET candidates == {k \in Rooms : TypeOf[k] = new.type}
        free == candidates \ Taken(i, new.stay)
    IN  IF ~IsLiveStay(new) \/ candidates = {} THEN NoRoom
        ELSE IF new.room \in candidates THEN new.room
        ELSE IF free = {} THEN NoRoom ELSE SetMin(free)
\* The room reservation i gets, with the record new: the one it has if that is
\* of its type and free, or else the first free one.
AssignedRoom(i, new) ==
    LET free == {k \in Rooms : TypeOf[k] = new.type} \ Taken(i, new.stay)
    IN  IF ~IsLiveStay(new) \/ free = {} THEN NoRoom
        ELSE IF new.room \in free THEN new.room ELSE SetMin(free)

-----------------------------------------------------------------------------
(* applyBookingRevision and the command it runs.                           *)

Slip_LiveBooking(rev) ==
    {i \in Held : res[i].booking = rev.booking /\ IsLiveStay(res[i])}
ByBooking(rev) == {i \in Held : res[i].booking = rev.booking}
Slip_Confirmed(rev) ==
    {i \in Held : rev.code # NoCode /\ res[i].code = rev.code /\ res[i].status = "confirmed"}
\* A direct booking that waits for its revision is found by its Offline code.
ByCode(rev) ==
    {i \in Held : /\ rev.code # NoCode /\ res[i].code = rev.code
                  /\ res[i].status = "pending_sync"}
Matched(rev) ==
    IF ByBooking(rev) # {} THEN SetMin(ByBooking(rev))
    ELSE IF ByCode(rev) # {} THEN SetMin(ByCode(rev)) ELSE nextRes

Slip_Revived(old, rev) == IF rev.status = "cancelled" THEN "cancelled" ELSE "confirmed"
StatusAfter(old, rev) ==
    CASE rev.status = "cancelled" -> "cancelled"
      [] rev.status # "cancelled" /\ old.status = "pending_sync" -> "confirmed"
      [] OTHER -> old.status

\* The reservation with the fields Channex owns replaced, whatever revision they
\* were from before; a new reservation starts as confirmed or cancelled.
Projected(i, r) ==
    LET rev == revs[r]
        old == IF res[i] # NoRes THEN res[i]
               ELSE [booking |-> rev.booking, code |-> rev.code, status |-> "confirmed",
                     type |-> rev.type, stay |-> rev.stay, room |-> NoRoom, src |-> r]
    IN  [old EXCEPT !.booking = rev.booking, !.stay = rev.stay, !.type = rev.type,
                    !.code = IF rev.code # NoCode THEN rev.code ELSE @,
                    !.status = StatusAfter(old, rev), !.src = r]

Slip_BySource(r) == \E i \in Held : res[i].src = r
Known(r) == r \in Members(applied)
IsMapped(r) == {revs[r].type, NoType} \subseteq mapped

Slip_AckAnyway(r) ==
    /\ ~IsMapped(r)
    /\ letters' = IF r \in Members(letters) THEN letters ELSE Append(letters, r)
    /\ acks' = IF r \in Members(letters) THEN acks
               ELSE Append(acks, [rev |-> r, status |-> "pending"])
    /\ UNCHANGED <<res, nextRes, applied>>
\* An unmapped property or room type: a dead letter, before anything is looked up.
DeadLetter(r) ==
    /\ ~IsMapped(r)
    /\ letters' = IF r \in Members(letters) THEN letters ELSE Append(letters, r)
    /\ UNCHANGED <<res, nextRes, applied, acks>>

Duplicate(r) == IsMapped(r) /\ Known(r) /\ UNCHANGED local

Commit(r) ==
    /\ IsMapped(r) /\ ~Known(r)
    /\ LET i == Matched(revs[r])
           new == Projected(i, r)
       IN  /\ i \in ResIds
           /\ res' = [res EXCEPT ![i] = [new EXCEPT !.room = AssignedRoom(i, new)]]
           /\ nextRes' = IF i = nextRes THEN nextRes + 1 ELSE nextRes
    /\ applied' = Append(applied, r)
    /\ acks' = Append(acks, [rev |-> r, status |-> "pending"])
    /\ UNCHANGED letters

Apply(r) == DeadLetter(r) \/ Duplicate(r) \/ Commit(r)

-----------------------------------------------------------------------------
(* The feed: a pull under a lease, then every revision in one go.          *)

Serving == turn = NoPull
Remote == <<revs, acked>>

\* A lease admits its own holder again, and the holder is web-<milliseconds>: two pulls that
\* begin in one millisecond run beside each other as after LeaseExpires, which stands for both.
PullStart(p) ==
    /\ Serving /\ pull[p].pc = "idle" /\ lease = NoPull
    /\ lease' = p
    /\ pull' = [pull EXCEPT ![p].pc = "asked"]
    /\ UNCHANGED <<local, mapped, claimed, fetching, retry, acker, turn, Remote, faults>>

\* The revisions nobody has acknowledged, which Channex lists oldest first.
Feed == DOMAIN revs \ acked
FeedAnswers(p) ==
    /\ Serving /\ pull[p].pc = "asked"
    /\ pull' = [pull EXCEPT ![p] = [pc |-> "answered", list |-> Feed]]
    /\ UNCHANGED <<local, mapped, claimed, fetching, lease, retry, acker, turn, Remote, faults>>

PullResumes(p) ==
    /\ Serving /\ pull[p].pc = "answered"
    /\ pull' = [pull EXCEPT ![p].pc = "applying"] /\ turn' = p
    /\ UNCHANGED <<local, mapped, claimed, fetching, lease, retry, acker, Remote, faults>>

PullApplies(p) ==
    /\ turn = p /\ pull[p].list # {}
    /\ Apply(SetMin(pull[p].list))
    /\ pull' = [pull EXCEPT ![p].list = @ \ {SetMin(@)}]
    /\ UNCHANGED <<mapped, claimed, fetching, lease, retry, acker, turn, Remote, faults>>

Released(p) == IF lease = p THEN NoPull ELSE lease
PullDone(p) ==
    /\ turn = p /\ pull[p].list = {}
    /\ pull' = [pull EXCEPT ![p] = IdlePull] /\ turn' = NoPull
    /\ lease' = Released(p)
    /\ UNCHANGED <<local, mapped, claimed, fetching, retry, acker, Remote, faults>>

PullFails(p) ==
    /\ Serving /\ pull[p].pc = "asked" /\ CanFault("get") /\ Fault("get")
    /\ pull' = [pull EXCEPT ![p] = IdlePull]
    /\ lease' = Released(p)
    /\ UNCHANGED <<local, mapped, claimed, fetching, retry, acker, turn, Remote>>

\* Two minutes pass before the feed answers: another pull may start.
LeaseExpires ==
    /\ Serving /\ lease # NoPull /\ CanFault("lease") /\ Fault("lease")
    /\ lease' = NoPull
    /\ UNCHANGED <<local, mapped, claimed, fetching, pull, retry, acker, turn, Remote>>

-----------------------------------------------------------------------------
(* Webhooks: any order, any delay, repeated or never.                      *)

Webhook(r) ==
    /\ Serving /\ r \in DOMAIN revs /\ r \notin claimed
    /\ CanFault("hook") /\ Fault("hook")
    /\ claimed' = claimed \cup {r} /\ fetching' = fetching \cup {r}
    /\ UNCHANGED <<local, mapped, pull, lease, retry, acker, turn, Remote>>

FetchOk(r) ==
    /\ Serving /\ r \in fetching
    /\ Apply(r)
    /\ fetching' = fetching \ {r}
    /\ UNCHANGED <<mapped, claimed, pull, lease, retry, acker, turn, Remote, faults>>

\* The delivery stays claimed: a second one is taken for a replay.
FetchFails(r) ==
    /\ Serving /\ r \in fetching /\ CanFault("get") /\ Fault("get")
    /\ fetching' = fetching \ {r}
    /\ UNCHANGED <<local, mapped, claimed, pull, lease, retry, acker, turn, Remote>>

-----------------------------------------------------------------------------
(* Acknowledgements.                                                       *)

Slip_PastEnd(list, i) == i + 1
Slip_PendingOnly(list, i) ==
    LET later == {j \in DOMAIN list : j > i /\ list[j].status = "pending"}
    IN  IF later = {} THEN 0 ELSE SetMin(later)
\* The next ack after place i that is not sent; 0 when the loop ends.
NextUnsent(list, i) ==
    LET later == {j \in DOMAIN list : j > i /\ list[j].status # "sent"}
    IN  IF later = {} THEN 0 ELSE SetMin(later)

AckStart(a) ==
    /\ Serving /\ acker[a] = 0 /\ NextUnsent(acks, 0) # 0
    /\ acker' = [acker EXCEPT ![a] = NextUnsent(acks, 0)]
    /\ UNCHANGED <<local, mapped, claimed, fetching, pull, lease, retry, turn, Remote, faults>>

AckReturns(a, status) ==
    /\ Serving /\ acker[a] # 0
    /\ acks' = [acks EXCEPT ![acker[a]].status = status]
    /\ acker' = [acker EXCEPT ![a] = NextUnsent(acks', acker[a])]
    /\ UNCHANGED <<res, nextRes, applied, letters, mapped, claimed, fetching, pull,
                   lease, retry, turn, revs>>

AckOk(a) ==
    /\ AckReturns(a, "sent")
    /\ acked' = acked \cup {acks[acker[a]].rev}
    /\ UNCHANGED faults

\* Refused, or taken and the answer lost.
AckFails(a) ==
    /\ CanFault("ack") /\ Fault("ack")
    /\ AckReturns(a, "failed")
    /\ acked' = acked \/ acked' = acked \cup {acks[acker[a]].rev}

-----------------------------------------------------------------------------
(* runRetryDeadLetters: every letter is fetched again, then failed acks    *)
(* are pending and the ack outbox runs.  Letters are never removed.        *)

RetryStart ==
    /\ Serving /\ ~retry.on /\ letters # <<>> /\ CanFault("retry") /\ Fault("retry")
    /\ retry' = [on |-> TRUE, todo |-> letters]
    /\ UNCHANGED <<local, mapped, claimed, fetching, pull, lease, acker, turn, Remote>>

RetryFetchOk ==
    /\ Serving /\ retry.todo # <<>>
    /\ Apply(Head(retry.todo))
    /\ retry' = [retry EXCEPT !.todo = Tail(@)]
    /\ UNCHANGED <<mapped, claimed, fetching, pull, lease, acker, turn, Remote, faults>>

RetryFetchFails ==
    /\ Serving /\ retry.todo # <<>> /\ CanFault("get") /\ Fault("get")
    /\ retry' = [retry EXCEPT !.todo = Tail(@)]
    /\ UNCHANGED <<local, mapped, claimed, fetching, pull, lease, acker, turn, Remote>>

RetryAcks(a) ==
    /\ Serving /\ retry.on /\ retry.todo = <<>> /\ acker[a] = 0
    /\ acks' = [k \in DOMAIN acks |->
           IF acks[k].status = "failed" THEN [acks[k] EXCEPT !.status = "pending"] ELSE acks[k]]
    /\ acker' = [acker EXCEPT ![a] = NextUnsent(acks', 0)]
    /\ retry' = NoRetry
    /\ UNCHANGED <<res, nextRes, applied, letters, mapped, claimed, fetching, pull, lease,
                   turn, Remote, faults>>

-----------------------------------------------------------------------------
(* Import, restart, and what happens at Channex.                           *)

\* The import that the first request or a manager starts: the property, and then
\* page by page its room types.
Import(t) ==
    /\ Serving /\ t \notin mapped
    /\ t # NoType => NoType \in mapped
    /\ mapped' = mapped \cup {t}
    /\ UNCHANGED <<local, jobs, turn, Remote, faults>>

\* An ack under way may still reach Channex.
Crash ==
    /\ Serving /\ CanFault("crash") /\ Fault("crash")
    /\ res' = NoReservations /\ nextRes' = 1
    /\ applied' = <<>> /\ acks' = <<>> /\ letters' = <<>> /\ mapped' = {}
    /\ claimed' = {} /\ fetching' = {} /\ pull' = IdlePulls /\ lease' = NoPull
    /\ retry' = NoRetry /\ acker' = IdleAckers
    /\ \/ UNCHANGED acked
       \/ \E a \in Ackers : acker[a] # 0 /\ acked' = acked \cup {acks[acker[a]].rev}
    /\ UNCHANGED <<turn, revs>>

IsPrefix(s, h) == Len(s) <= Len(h) /\ s = SubSeq(h, 1, Len(s))
Says(rev) ==
    /\ Serving /\ Len(revs) < MaxRevisions
    /\ \E h \in Histories : IsPrefix(Append(revs, rev), h)
    /\ revs' = Append(revs, rev)
    /\ UNCHANGED <<local, mapped, jobs, turn, acked, faults>>

\* A channel brings a booking; its own code is none of ours.
NewBooking(stay, t) ==
    /\ Says([booking |-> Cardinality(Booked) + 1, code |-> NoCode, status |-> "new",
             type |-> t, stay |-> stay])

Last(b) == revs[CHOOSE r \in DOMAIN revs : revs[r].booking = b /\
                    \A q \in DOMAIN revs : revs[q].booking = b => q <= r]
Modified(b, stay) ==
    /\ Last(b).status # "cancelled" /\ Last(b).stay # stay
    /\ Says([Last(b) EXCEPT !.status = "modified", !.stay = stay])
\* A cancellation may come without rooms.
Cancelled(b, t) ==
    /\ Last(b).status # "cancelled" /\ t \in {Last(b).type, NoType}
    /\ Says([Last(b) EXCEPT !.status = "cancelled", !.type = t])

-----------------------------------------------------------------------------
Pull(p) ==
    \/ PullStart(p) \/ FeedAnswers(p) \/ PullResumes(p) \/ PullApplies(p)
    \/ PullDone(p) \/ PullFails(p)
Hook(r) == Webhook(r) \/ FetchOk(r) \/ FetchFails(r)
AckRun(a) == AckStart(a) \/ AckOk(a) \/ AckFails(a)
Retry == RetryStart \/ RetryFetchOk \/ RetryFetchFails \/ \E a \in Ackers : RetryAcks(a)
Channex ==
    \/ \E stay \in Stays, t \in RoomTypes : NewBooking(stay, t)
    \/ \E b \in Booked, stay \in Stays : Modified(b, stay)
    \/ \E b \in Booked, t \in Types : Cancelled(b, t)

Running ==
    \/ \E p \in Pullers : Pull(p)
    \/ \E r \in DOMAIN revs : Hook(r)
    \/ \E a \in Ackers : AckRun(a)
    \/ Retry \/ LeaseExpires \/ Channex
    \/ \E t \in Types : Import(t)

Next == Running \/ Crash

Spec == Init /\ [][Next]_vars

\* The worker ticks for ever and what is awaited is answered; nothing obliges a
\* manager to import or to retry, or Channex to call a webhook.
FairSpec ==
    /\ Spec
    /\ \A p \in Pullers : SF_vars(Pull(p))
    /\ \A a \in Ackers : SF_vars(AckRun(a))

-----------------------------------------------------------------------------
(* Properties.                                                             *)

\* Every variable keeps its type; jobs refer to acks and revisions there are.
TypeOK ==
    /\ res \in [ResIds -> Reservation \cup {NoRes}] /\ nextRes \in Nat
    /\ applied \in Seq(DOMAIN revs) /\ letters \in Seq(DOMAIN revs)
    /\ acks \in Seq([rev : DOMAIN revs, status : AckStatuses])
    /\ mapped \subseteq Types
    /\ claimed \subseteq DOMAIN revs /\ fetching \subseteq claimed
    /\ pull \in [Pullers -> [pc : PullPcs, list : SUBSET DOMAIN revs]]
    /\ lease \in Pullers \cup {NoPull} /\ turn \in Pullers \cup {NoPull}
    /\ retry \in [on : BOOLEAN, todo : Seq(DOMAIN revs)]
    /\ acker \in [Ackers -> 0..Len(acks)]
    /\ revs \in Seq(Revision) /\ Len(revs) <= MaxRevisions
    /\ acked \subseteq DOMAIN revs /\ faults \in [FaultKinds -> Nat]

Stayers == {i \in Held : IsLiveStay(res[i]) /\ res[i].room # NoRoom}
\* No physical room is given to two live stays that share a night, whatever order
\* revisions come in and however dates move; and the room is of the type booked.
NoDoubleBooking ==
    /\ \A i, j \in Stayers : i # j /\ Overlap(res[i].stay, res[j].stay) =>
            res[i].room # res[j].room
    /\ \A i \in Stayers : TypeOf[res[i].room] = res[i].type

\* A booking is one reservation, whichever of its revisions is seen first.
OneReservationPerBooking ==
    \A i, j \in Held : res[i].booking = res[j].booking /\ res[i].booking # 0 => i = j

\* KTD22 "exactly-once local effect": feed, webhook and retry may all bring a
\* revision, and only the first of them is committed.
AppliedOnce == \A k, n \in DOMAIN applied : applied[k] = applied[n] => k = n

\* KTD7: Channex is told of a revision only after it has been committed here.
AckAfterCommit == [][acked' \ acked \subseteq Members(applied)]_vars

\* A late revision does not bring a cancelled reservation back to life.
CancelledStays ==
    [][\A i \in Held : res[i].status = "cancelled" /\ res'[i] # NoRes =>
            res'[i].status = "cancelled"]_vars

\* Every revision whose property and room type are imported is acknowledged in
\* the end: webhooks, leases, failed pulls and acks, restarts leave none behind.
AllAcked ==
    <>[](\A r \in DOMAIN revs : IsMapped(r) => r \in acked)

\* "Out-of-order revisions route to no-op": a reservation never goes back to an
\* older revision than the one it shows.
NewestStays ==
    [][\A i \in Held : res'[i] # NoRes => res'[i].src >= res[i].src]_vars
=============================================================================
