------------------------------- MODULE SyncHealth -------------------------------
(***************************************************************************)
(* What the integrations page tells of the outbox, and which cells the     *)
(* nightly drift detection leaves alone: both read the intents while       *)
(* requests and drains change them.                                        *)
(*                                                                         *)
(*   packages/sync/src/sync-health.ts              the counts              *)
(*   packages/sync/src/jobs/detect-ari-drift.ts    the sampled cells       *)
(*   apps/web/app/components/integrations/SyncHealthPanel.vue   the light  *)
(***************************************************************************)
EXTENDS AriOutbox

Slip_PartialIsClosed == {"queued", "sending", "accepted", "retry", "reconciling"}
OPEN_STATUSES == {"queued", "sending", "accepted", "partial", "retry", "reconciling"}
ACCEPTED_UNRECONCILED == {"accepted", "reconciling"}

Count(S, statuses) == Cardinality({i \in S : HasStatus(i, statuses)})
\* aggregateAriWriteHealth, of the network or of the intents of one property.
AriWriteHealth(S) ==
    [pending |-> Count(S, OPEN_STATUSES), unreconciled |-> Count(S, ACCEPTED_UNRECONCILED),
     partial |-> Count(S, {"partial"}), drifted |-> Count(S, {"drifted"}),
     retry |-> Count(S, {"retry"})]
\* The colour of the panel; stuck: an accepted intent is half an hour old.
AriTone(h, stuck) ==
    CASE stuck \/ h.drifted > 0 -> "failed"
      [] ~stuck /\ h.drifted = 0 /\ h.unreconciled + h.retry + h.partial + h.pending > 0 -> "warning"
      [] ~stuck /\ h.drifted = 0 /\ h.unreconciled + h.retry + h.partial + h.pending = 0 -> "healthy"

\* dateHasOpenStaffIntent, and the cells that detectAriDrift compares: the lanes of the
\* availability and of the restrictions.
HasOpenIntent(cell) ==
    \E i \in Live : HasStatus(i, OPEN_STATUSES) /\ ResOf(i) \notin RatePlans /\ cell \in CellsOf(intents[i].cmd)
Sampled == {cell \in (Resources \ (RatePlans \cup Unmapped)) \X Dates \X Fields : ~HasOpenIntent(cell)}

-----------------------------------------------------------------------------
\* What a drain is at, or the next one takes up.
UnderWay ==
    {i \in Live : HasStatus(i, SENDABLE \cup RESUME_STATUSES) \/ \E r \in Runs : run[r].cur = i}
\* "Intents still in the write/reconcile pipeline": nothing that a drain may still send or
\* read back is missing from the counts, the panel is green only when every command that was
\* answered with success has an outcome, and "skips dates covered by unresolved staff intents":
\* no cell is compared with Channex while a drain is writing it.
HealthTellsOutbox ==
    Serving =>
        LET health == AriWriteHealth(Live)
        IN  /\ Cardinality(UnderWay) <= health.pending
            /\ AriTone(health, FALSE) = "healthy" =>
                \A i \in Live : intents[i].cmd \in acked => HasStatus(i, Terminal \ {"drifted"})
            /\ \A i \in UnderWay : ResOf(i) \notin RatePlans => CellsOf(intents[i].cmd) \cap Sampled = {}
=============================================================================
