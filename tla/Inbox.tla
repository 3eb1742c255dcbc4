---------------------------------- MODULE Inbox ----------------------------------
(***************************************************************************)
(* Guest messages: pulls copy the threads of Channex into memory, one      *)
(* request per thread and under a lease; staff answer an inquiry in its    *)
(* thread, or a guest of a reservation through an outbound message; the    *)
(* inbox page composes conversations from both.                            *)
(*                                                                         *)
(*   packages/sync/src/jobs/pull-messages.ts        the pull               *)
(*   packages/sync/src/store/memory-store.ts        leases                 *)
(*   apps/web/server/api/inbox/*.ts                 staff                  *)
(*   apps/web/app/pages/inbox.vue                   the page               *)
(*                                                                         *)
(* All threads are of one property that Channex and the store both know;   *)
(* a listing fits one page.                                                *)
(***************************************************************************)
EXTENDS Naturals, Sequences, FiniteSets

CONSTANTS
    Threads,
    BookingOf,      \* thread -> the booking it is about, or NoBooking
    NoBooking,
    Pullers,        \* worker ticks, webhooks and staff: all have a holder name of their own
    Staff,          \* sessions that answer
    NoHolder,
    MaxRemote,      \* bound: messages at Channex
    MaxTroubles     \* bound: failed or lost requests, and pulls longer than the lease

VARIABLES
    remote,         \* the messages at Channex, by their id
    channelMessages,    \* the records stored: of which message, linked to which booking
    outboundMessages,   \* of a reservation: booking, status, the message it became
    reserved,       \* the bookings that have a reservation in the store
    messageLease,   \* holder of the lease pull_messages
    puller, staffer,    \* requests in progress
    troubles
inboxVars == <<remote, channelMessages, outboundMessages, reserved, messageLease, puller,
               staffer, troubles>>

Resting == [phase |-> "idle", todo |-> {}, seen |-> {}, linked |-> {}]
AtDesk == [phase |-> "idle", thread |-> NoBooking, row |-> 0, message |-> 0]
Bookings == {BookingOf[t] : t \in Threads} \ {NoBooking}

InboxInit ==
    /\ remote = <<>> /\ channelMessages = <<>> /\ outboundMessages = <<>> /\ reserved = {}
    /\ messageLease = NoHolder /\ troubles = 0
    /\ puller = [p \in Pullers |-> Resting] /\ staffer = [s \in Staff |-> AtDesk]

Trouble == troubles < MaxTroubles /\ troubles' = troubles + 1

-----------------------------------------------------------------------------
(* The pull.                                                               *)

\* Channex registers a message.
Registered(t, from) == remote' = Append(remote, [thread |-> t, from |-> from])
GuestWrites(t) ==
    /\ Len(remote) < MaxRemote /\ Registered(t, "guest")
    /\ UNCHANGED <<channelMessages, outboundMessages, reserved, messageLease, puller, staffer, troubles>>

\* A revision of the feed creates the reservation.
Book(b) ==
    /\ b \notin reserved /\ reserved' = reserved \cup {b}
    /\ UNCHANGED <<remote, channelMessages, outboundMessages, messageLease, puller, staffer, troubles>>

\* Without the lease a pull returns.
StartPull(p) ==
    /\ puller[p].phase = "idle" /\ messageLease = NoHolder
    /\ messageLease' = p /\ puller' = [puller EXCEPT ![p].phase = "list"]
    /\ UNCHANGED <<remote, channelMessages, outboundMessages, reserved, staffer, troubles>>
\* A pull that takes longer than the lease loses it to the next.  Two pulls that begin in one
\* millisecond have one holder's name, and the lease lets both in: they run as after this.
LeaseExpires ==
    /\ messageLease # NoHolder /\ messageLease' = NoHolder /\ Trouble
    /\ UNCHANGED <<remote, channelMessages, outboundMessages, reserved, puller, staffer>>

Stored == {channelMessages[i].message : i \in DOMAIN channelMessages}
Slip_OlderThanNewest == {m \in DOMAIN remote : \E n \in Stored : m <= n}
Seen == Stored
\* What is stored and which bookings have a reservation is read once, with the list of
\* threads; then there is a request for each thread.
ThreadsAnswer(p) ==
    /\ puller[p].phase = "list"
    /\ puller' = [puller EXCEPT ![p] =
           [phase |-> "read", todo |-> {remote[m].thread : m \in DOMAIN remote},
            seen |-> Seen, linked |-> reserved]]
    /\ UNCHANGED <<remote, channelMessages, outboundMessages, reserved, messageLease, staffer, troubles>>

Link(p, t) == IF BookingOf[t] \in puller[p].linked THEN BookingOf[t] ELSE NoBooking
MessagesAnswer(p, t) ==
    LET new == SelectSeq([m \in DOMAIN remote |-> m],
                         LAMBDA m : remote[m].thread = t /\ m \notin puller[p].seen)
    IN  /\ puller[p].phase = "read" /\ t \in puller[p].todo
        /\ channelMessages' = channelMessages \o
               [i \in DOMAIN new |-> [message |-> new[i], link |-> Link(p, t)]]
        /\ puller' = [puller EXCEPT ![p].todo = @ \ {t}, ![p].seen = @ \cup {new[i] : i \in DOMAIN new}]
        /\ UNCHANGED <<remote, outboundMessages, reserved, messageLease, staffer, troubles>>

\* releaseLease, of the holder only.
Release(p) ==
    /\ messageLease' = IF messageLease = p THEN NoHolder ELSE messageLease
    /\ puller' = [puller EXCEPT ![p] = Resting]
PullEnds(p) ==
    /\ puller[p].phase = "read" /\ puller[p].todo = {} /\ Release(p)
    /\ UNCHANGED <<remote, channelMessages, outboundMessages, reserved, staffer, troubles>>
\* A request fails: what was stored stays, the threads left wait for the next pull.
PullFails(p) ==
    /\ puller[p].phase # "idle" /\ Trouble /\ Release(p)
    /\ UNCHANGED <<remote, channelMessages, outboundMessages, reserved, staffer>>

-----------------------------------------------------------------------------
(* Staff answer.                                                           *)

\* The first record of the thread decides: without a reservation it is an inquiry.
IsInquiry(t) ==
    \E i \in DOMAIN channelMessages :
        /\ remote[channelMessages[i].message].thread = t /\ channelMessages[i].link = NoBooking
        /\ \A j \in 1..(i - 1) : remote[channelMessages[j].message].thread # t

\* POST /api/inbox for an inquiry: the thread is read at Channex, then the message sent.
AnswerInquiry(s, t) ==
    /\ staffer[s].phase = "idle" /\ IsInquiry(t)
    /\ staffer' = [staffer EXCEPT ![s] = [AtDesk EXCEPT !.phase = "verify", !.thread = t]]
    /\ UNCHANGED <<remote, channelMessages, outboundMessages, reserved, messageLease, puller, troubles>>
ThreadVerified(s) ==
    /\ staffer[s].phase = "verify" /\ staffer' = [staffer EXCEPT ![s].phase = "send"]
    /\ UNCHANGED <<remote, channelMessages, outboundMessages, reserved, messageLease, puller, troubles>>

\* POST /api/inbox for a reservation: queueGuestMessage, then the message is sent.
AnswerGuest(s, t) ==
    /\ staffer[s].phase = "idle" /\ BookingOf[t] \in reserved /\ Len(remote) < MaxRemote
    /\ outboundMessages' = Append(outboundMessages, [booking |-> BookingOf[t], status |-> "queued", became |-> 0])
    /\ staffer' = [staffer EXCEPT ![s] =
           [phase |-> "send", thread |-> t, row |-> Len(outboundMessages'), message |-> 0]]
    /\ UNCHANGED <<remote, channelMessages, reserved, messageLease, puller, troubles>>

\* Channex takes the message; the answer is on its way.
Delivered(s) ==
    /\ staffer[s].phase = "send" /\ Len(remote) < MaxRemote
    /\ Registered(staffer[s].thread, "property")
    /\ staffer' = [staffer EXCEPT ![s].phase = "answer", ![s].message = Len(remote')]
    /\ outboundMessages' = IF staffer[s].row = 0 THEN outboundMessages
                           ELSE [outboundMessages EXCEPT ![staffer[s].row].became = Len(remote')]
    /\ UNCHANGED <<channelMessages, reserved, messageLease, puller, troubles>>

\* An inquiry is recorded, unless its id is stored already; an outbound row gets its status.
Answered(s) ==
    LET m == staffer[s].message
    IN  /\ staffer[s].phase = "answer"
        /\ \/ /\ staffer[s].row = 0
              /\ channelMessages' = IF m \in Stored THEN channelMessages
                                    ELSE Append(channelMessages, [message |-> m, link |-> NoBooking])
              /\ UNCHANGED outboundMessages
           \/ /\ staffer[s].row # 0
              /\ outboundMessages' = [outboundMessages EXCEPT ![staffer[s].row].status = "sent"]
              /\ UNCHANGED channelMessages
        /\ staffer' = [staffer EXCEPT ![s] = AtDesk]
        /\ UNCHANGED <<remote, reserved, messageLease, puller, troubles>>
\* A request to Channex fails, or its answer is lost.
AnswerFails(s) ==
    /\ staffer[s].phase # "idle" /\ Trouble
    /\ outboundMessages' = IF staffer[s].row = 0 THEN outboundMessages
                           ELSE [outboundMessages EXCEPT ![staffer[s].row].status = "failed"]
    /\ staffer' = [staffer EXCEPT ![s] = AtDesk]
    /\ UNCHANGED <<remote, channelMessages, reserved, messageLease, puller>>

-----------------------------------------------------------------------------
PullStep(p) == ThreadsAnswer(p) \/ (\E t \in Threads : MessagesAnswer(p, t)) \/ PullEnds(p)
InboxNext ==
    \/ \E t \in Threads : GuestWrites(t)
    \/ \E b \in Bookings : Book(b)
    \/ \E p \in Pullers : StartPull(p) \/ PullStep(p) \/ PullFails(p)
    \/ LeaseExpires
    \/ \E s \in Staff :
        \/ \E t \in Threads : AnswerInquiry(s, t) \/ AnswerGuest(s, t)
        \/ ThreadVerified(s) \/ Delivered(s) \/ Answered(s) \/ AnswerFails(s)

InboxSpec == InboxInit /\ [][InboxNext]_inboxVars
\* The worker pulls on every tick, and Channex answers a pull.
InboxFairSpec ==
    InboxSpec /\ \A p \in Pullers : WF_inboxVars(StartPull(p)) /\ WF_inboxVars(PullStep(p))

-----------------------------------------------------------------------------
(* Properties.                                                             *)

\* Again and again everything registered at Channex has been brought by a pull, whatever is
\* stored out of order by answers of staff, whichever pulls fail half way or outlive their lease.
PullsBring == []<>(DOMAIN remote \subseteq Stored)
=============================================================================
