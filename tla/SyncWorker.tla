------------------------------- MODULE SyncWorker -------------------------------
(***************************************************************************)
(* The worker process: every tick it asks the web server, for each network *)
(* in turn, to pull, to acknowledge and to drain the write intents, and    *)
(* writes a health file.  The same jobs are asked for by the panel of the  *)
(* settings page, and all of them keep a status per network.               *)
(*                                                                         *)
(*   packages/sync/src/worker.ts                  ticks, the health file   *)
(*   apps/web/server/utils/sync.ts                the web server's side    *)
(*   packages/sync/src/sync-health.ts             the status               *)
(*                                                                         *)
(* What the jobs do to bookings and intents is in BookingRevisions and     *)
(* AriOutbox: here a job is answered or fails, and decides the status.     *)
(***************************************************************************)
EXTENDS Naturals, Sequences

CONSTANT WorkerNetworks     \* SYNC_NETWORK_IDS, in order

VARIABLES
    mode,       \* SYNC_WORKER_MODE
    tick,       \* the tick under way, and the network it is at
    file,       \* the health file
    lease,      \* pull_revisions of each network: who holds it
    status,     \* sync health of each network
    served      \* history: the jobs answered in this tick
workerVars == <<mode, tick, file, lease, status, served>>

Asleep == [at |-> "asleep", k |-> 0]
ServedNetworks == {WorkerNetworks[k] : k \in 1..Len(WorkerNetworks)}
WorkerInit ==
    /\ mode \in {"http", "local"} /\ tick = Asleep /\ file = "starting"
    /\ lease = [n \in ServedNetworks |-> "free"] /\ status = [n \in ServedNetworks |-> "idle"]
    /\ served = {}

-----------------------------------------------------------------------------
(* The status of a network, as the last job to speak of it leaves it.      *)

\* pullBookingRevisionFeed: "failed" stays when a revision could not be applied.
PullLeaves == {"healthy", "failed"}
\* processAckOutbox marks it healthy when it sent one, the drain also failed.
AckLeaves(n) == {"healthy", status[n]}
DrainLeaves(n) == {"healthy", "failed", status[n]}
Leaves(n, outcomes) == \E s \in outcomes : status' = [status EXCEPT ![n] = s]

-----------------------------------------------------------------------------
(* A tick of the worker.                                                   *)

Serving == WorkerNetworks[tick.k]
To(at) == tick' = [tick EXCEPT !.at = at]
Answered(job) == served' = served \cup {<<Serving, job>>}
Held(n, holder) == lease' = [lease EXCEPT ![n] = holder]

StartTick ==
    /\ tick = Asleep /\ served' = {} /\ tick' = [at |-> "pull", k |-> 1]
    /\ UNCHANGED <<mode, file, lease, status>>
\* runInternalPull takes the lease; when another pull has it the answer is "skipped".  (It is
\* not when that pull began in the same millisecond or has outlived the lease: then both run.)
Pull ==
    /\ mode = "http" /\ tick.at = "pull"
    /\ IF lease[Serving] = "free" THEN Held(Serving, "worker") /\ To("pulling") /\ UNCHANGED served
       ELSE Answered("pull") /\ To("ack") /\ UNCHANGED lease
    /\ UNCHANGED <<mode, file, status>>
Pulled ==
    /\ tick.at = "pulling" /\ Leaves(Serving, PullLeaves) /\ Held(Serving, "free")
    /\ Answered("pull") /\ To("ack") /\ UNCHANGED <<mode, file>>
Ack ==
    /\ tick.at = "ack" /\ Leaves(Serving, AckLeaves(Serving)) /\ Answered("ack") /\ To("ariWrite")
    /\ UNCHANGED <<mode, file, lease>>
\* The drain may fail, or be unknown to the web server; then the next network.
Onward ==
    IF tick.k = Len(WorkerNetworks) THEN tick' = Asleep /\ file' = "ok"
    ELSE tick' = [at |-> "pull", k |-> tick.k + 1] /\ UNCHANGED file
AriWrite ==
    /\ tick.at = "ariWrite" /\ Onward
    /\ \/ Leaves(Serving, DrainLeaves(Serving)) /\ Answered("ariWrite")
       \/ UNCHANGED <<status, served>>
    /\ UNCHANGED <<mode, lease>>

Slip_ThrowsOut == tick' = [tick EXCEPT !.at = "exited"] /\ UNCHANGED file
\* startWorkerLoop catches what the cycle throws, past the networks that are left.
Thrown == tick' = Asleep /\ file' = "failed"
\* An answer that is not ok, or none: then the pull may be running still, as one that nobody
\* of the worker waits for.  Any call may fail, any number of times.
CallFails ==
    /\ mode = "http" /\ tick.at \in {"pull", "pulling", "ack"} /\ Thrown
    /\ IF tick.at = "pulling" THEN \E holder \in {"free", "panel"} : Held(Serving, holder)
       ELSE UNCHANGED lease
    /\ UNCHANGED <<mode, status, served>>
\* runLocalWorkerCycle: the store of a tick is a new one, without a key.
LocalCycle ==
    /\ mode = "local" /\ tick.at = "pull" /\ Thrown
    /\ UNCHANGED <<mode, lease, status, served>>

-----------------------------------------------------------------------------
(* The panel, and webhooks.                                                *)

PanelPull(n) ==
    /\ lease[n] = "free" /\ Held(n, "panel")
    /\ UNCHANGED <<mode, tick, file, status, served>>
\* The pull ends, or its call fails, which leaves the status.
PanelPulled(n) ==
    /\ lease[n] = "panel" /\ Held(n, "free")
    /\ Leaves(n, PullLeaves) \/ UNCHANGED status
    /\ UNCHANGED <<mode, tick, file, served>>
\* handleChannexWebhook, before it looks at what was delivered.
Webhook(n) ==
    /\ status[n] = "failed" /\ Leaves(n, {"healthy"})
    /\ UNCHANGED <<mode, tick, file, lease, served>>

WorkerStep ==
    \/ StartTick \/ Pull \/ Pulled \/ Ack \/ AriWrite \/ LocalCycle
WorkerNext ==
    \/ WorkerStep \/ CallFails
    \/ \E n \in ServedNetworks : PanelPull(n) \/ PanelPulled(n) \/ Webhook(n)
\* The loop sleeps and ticks for ever, and each call is answered or fails.
WorkerSpec == WorkerInit /\ [][WorkerNext]_workerVars /\ WF_workerVars(WorkerStep)

-----------------------------------------------------------------------------
(* Properties.                                                             *)

\* Over http a network is pulled and acknowledged again and again (a pull that found another
\* one under way counts) if from some time on no call for it, nor for a network listed before
\* it, fails: whatever failed until then, whatever calls for later networks and whatever drains
\* fail, panels pull and leases are held.  When that is so of all networks the health file says
\* so.  The condition is needed: runHttpWorkerCycle throws at the first call that fails, so a
\* network whose call fails in every tick keeps all later ones from being served.
Spared(k) == ~(CallFails /\ tick.k <= k)
Served(n) == {<<n, "pull">>, <<n, "ack">>} \subseteq served
EveryNetworkServed ==
    \A k \in 1..Len(WorkerNetworks) :
        <>[][Spared(k)]_workerVars =>
            []<>(\/ mode = "local"
                 \/ Served(WorkerNetworks[k]) /\ (k = Len(WorkerNetworks) => file = "ok"))
=============================================================================
