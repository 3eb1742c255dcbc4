------------------------------- MODULE MCSettles -------------------------------
(* Automation, the inbox, the calendar page and the sync worker, which share  *)
(* no state: the first state chooses one, and only that one takes steps.    *)
(* What each must come to is checked in one run, under the fairness that its *)
(* module states.                                                           *)
EXTENDS Automation, Integers, Sequences
CONSTANT r1
CONSTANTS h1, b1, Threads, BookingOf, NoBooking, Pullers, Staff, NoHolder, MaxRemote, MaxTroubles
CONSTANTS Networks, FirstNetwork, Ranges, FirstRange, Nowhere, Refreshes, Loads, MaxSnapshot,
          MaxWrites, MaxMoves
CONSTANTS v1, v2, WorkerNetworks

VARIABLES remote, channelMessages, outboundMessages, reserved, messageLease, puller, staffer, troubles
VARIABLES snapshot, current, range, catalogOf, refreshes, loads, shown, panel, write, waiting,
          moves, writes
VARIABLES mode, tick, file, lease, status, served
VARIABLE part

Inbox == INSTANCE Inbox
Page == INSTANCE CalendarPage
Worker == INSTANCE SyncWorker

-----------------------------------------------------------------------------
(* Values of the constants.                                                *)

Does(actions, cond) == [actions |-> actions, cond |-> cond]
MCFirst == Does(<<"createTask", "queueGuestMessage", "notifyStaff">>, {"booked", "failed"})
MCForms == {Does(<<"queueGuestMessage", "notifyStaff">>, {"booked"})}
MCEvents == [n \in {"booked", "failed"} |->
    [reservation |-> n = "booked", property |-> n = "failed"]]
MCBookingOf == [t \in Threads |-> IF t = h1 THEN b1 ELSE NoBooking]
MCList == <<v1, v2>>

-----------------------------------------------------------------------------
\* TLC needs the tuples of UNCHANGED defined here.
messages == <<remote, channelMessages, outboundMessages, reserved, messageLease, puller, staffer,
              troubles>>
calendar == <<snapshot, current, range, catalogOf, refreshes, loads, shown, panel, write, waiting,
              moves, writes>>
ticks == <<mode, tick, file, lease, status, served>>
settleVars == <<part, autoVars, messages, calendar, ticks>>

At(p) ==
    /\ part = p /\ part' = p
    /\ IF p = "automation" THEN TRUE ELSE UNCHANGED autoVars
    /\ IF p = "inbox" THEN TRUE ELSE UNCHANGED messages
    /\ IF p = "page" THEN TRUE ELSE UNCHANGED calendar
    /\ IF p = "worker" THEN TRUE ELSE UNCHANGED ticks

Parts == {"automation", "inbox", "page", "worker"}
Init ==
    /\ part \in Parts
    /\ AutoInit /\ Inbox!InboxInit /\ Page!PageInit /\ Worker!WorkerInit
    /\ part # "worker" => mode = "http"
Next ==
    \/ At("automation") /\ AutoNext
    \/ At("inbox") /\ Inbox!InboxNext
    \/ At("page") /\ Page!PageNext
    \/ At("worker") /\ Worker!WorkerNext
Spec ==
    /\ Init /\ [][Next]_settleVars
    /\ WF_settleVars(At("automation") /\ \E key \in Keys : Step(key))
    /\ SF_settleVars(At("automation") /\ \E a \in DOMAIN approvals : Approve(a))
    /\ SF_settleVars(At("automation") /\ Arrive)
    /\ \A p \in Pullers :
        /\ WF_settleVars(At("inbox") /\ Inbox!StartPull(p))
        /\ WF_settleVars(At("inbox") /\ Inbox!PullStep(p))
    /\ \A l \in Loads : WF_settleVars(At("page") /\ Page!LoadStep(l))
    /\ WF_settleVars(At("worker") /\ Worker!WorkerStep)

-----------------------------------------------------------------------------
(* The properties of the instances, under the names their modules give them. *)

PullsBring == part = "inbox" => Inbox!PullsBring
StaleIsDrawn == Page!StaleIsDrawn
EveryNetworkServed == part = "worker" => Worker!EveryNetworkServed
=============================================================================
