------------------------------- MODULE Automation -------------------------------
(***************************************************************************)
(* Automation rules and the command runner under them: events fire rules,  *)
(* a run attempts the actions of its rule one after the other through      *)
(* runCommand, a guest message is held until somebody approves it, and a   *)
(* run that failed is retried.                                             *)
(*                                                                         *)
(*   packages/domain/src/run.ts                  the command runner        *)
(*   packages/domain/src/automation/*.ts         rules, conditions, runs   *)
(*   apps/web/server/utils/automation.ts         requests                  *)
(*                                                                         *)
(* Everything is in memory and a request is served to its end before the   *)
(* next one; executing is the run it is in, between two actions.           *)
(***************************************************************************)
EXTENDS Naturals, Sequences, FiniteSets

CONSTANTS
    Rules,
    Forms,          \* what a rule may be changed to: its actions and condition
    FirstForm,      \* of every rule
    Events,         \* event -> which of property and reservation it names
    Nobody,         \* no run is executing
    NoRun, NoApproval,
    MaxVersion,     \* bound: changes of a rule
    MaxAttempts     \* bound: entries in the history of a run

VARIABLES
    autoRules,      \* the rules: version, form, isActive
    autoRuns,       \* automationRuns, by run key
    approvals,      \* pendingApprovals, by their number
    remembered,     \* store.idempotency of the actions: their keys and results
    effects,        \* history: what commands have done, in order
    arrived,        \* the reservation the events are about is in the store
    executing
autoVars == <<autoRules, autoRuns, approvals, remembered, effects, arrived, executing>>

\* auto:<rule>:v<version>:<event>
Keys == Rules \X (1..MaxVersion) \X DOMAIN Events
RuleOf(key) == key[1]
EventOf(key) == Events[key[3]]
ActionsOf(key) == autoRules[RuleOf(key)].form.actions

Kinds == {"createTask", "notifyStaff", "queueGuestMessage"}
Form == [actions : Seq(Kinds), cond : SUBSET DOMAIN Events]
AttemptStatuses == {"ok", "dry_run", "rejected", "awaiting_approval"}
RunStatuses == {"running", "awaiting_approval", "succeeded", "partial_failure", "failed"}
Commands == {"createTask", "attachReservationNote", "queueGuestMessage"}
AttemptRecord == [index : Nat \ {0}, command : Commands \cup {"invalid", "none"},
                  status : AttemptStatuses, approval : Nat \cup {NoApproval}]
Run == [status : RunStatuses, dry : BOOLEAN, next : Nat \ {0}, attempts : Seq(AttemptRecord)]
ASSUME AutomationAssumption ==
    /\ Forms \subseteq Form /\ FirstForm \in Form /\ MaxVersion \in Nat \ {0}
    /\ Events \in [DOMAIN Events -> [reservation : BOOLEAN, property : BOOLEAN]]
    /\ NoRun \notin Run /\ NoApproval \notin Nat /\ Nobody \notin Keys

AutoInit ==
    /\ autoRules = [r \in Rules |-> [version |-> 1, form |-> FirstForm, active |-> TRUE]]
    /\ autoRuns = [key \in Keys |-> NoRun]
    /\ approvals = <<>> /\ remembered = {} /\ effects = <<>>
    /\ arrived = FALSE /\ executing = Nobody

-----------------------------------------------------------------------------
(* The command runner.                                                     *)

\* mapActionToCommand: a note goes to the reservation, or becomes a task without one;
\* a message needs a reservation.
CommandFor(kind, event) ==
    CASE kind = "createTask" -> "createTask"
      [] kind = "notifyStaff" -> IF event.reservation THEN "attachReservationNote" ELSE "createTask"
      [] kind = "queueGuestMessage" ->
            IF event.reservation THEN "queueGuestMessage" ELSE "invalid"

RequiresApproval(command) == command = "queueGuestMessage"
\* What execute does: the commands on a reservation throw when it is not in the store.
Executes(command) == command = "createTask" \/ arrived

Slip_NeverHeld(command, actor) == FALSE
\* shouldAwaitApproval
Held(command, actor) == RequiresApproval(command) /\ actor = "automation"

Remembered(key, i, command) ==
    {m \in remembered : m.key = key /\ m.index = i /\ m.command = command}
Remember(key, i, command, status, approval) ==
    remembered' = remembered \cup {[key |-> key, index |-> i, command |-> command,
                                    status |-> status, approval |-> approval]}
Effect(key, i, command, actor) ==
    effects' = Append(effects, [key |-> key, index |-> i, command |-> command, actor |-> actor])

\* The entry of an attempt; the run stops at a held action.
Attempt(i, command, status, approval) ==
    [index |-> i, command |-> command, status |-> status, approval |-> approval]
Noted(key, i, command, status, approval) ==
    /\ autoRuns' = [autoRuns EXCEPT ![key].attempts = Append(@, Attempt(i, command, status, approval)),
                                    ![key].next = i + 1,
                                    ![key].status = IF status = "awaiting_approval" THEN status ELSE @]
    /\ executing' = IF status = "awaiting_approval" THEN Nobody ELSE key

\* runCommand, in its order: a known key is replayed, a dry run does nothing, a message
\* of the automation is held, and the rest is executed or rejected.  A rejection is not
\* remembered.
Replay(key, i, command) ==
    \E m \in Remembered(key, i, command) :
        Noted(key, i, command, m.status, m.approval) /\ UNCHANGED <<approvals, remembered, effects>>
DryRun(key, i, command) ==
    Noted(key, i, command, "dry_run", NoApproval) /\ UNCHANGED <<approvals, remembered, effects>>
Hold(key, i, command) ==
    /\ approvals' = Append(approvals, [key |-> key, index |-> i, command |-> command,
                                       status |-> "awaiting_approval"])
    /\ Noted(key, i, command, "awaiting_approval", Len(approvals'))
    /\ Remember(key, i, command, "awaiting_approval", Len(approvals'))
    /\ UNCHANGED effects
Execute(key, i, command) ==
    /\ \/ /\ Executes(command)
          /\ Effect(key, i, command, "automation")
          /\ Noted(key, i, command, "ok", NoApproval)
          /\ Remember(key, i, command, "ok", NoApproval)
       \/ /\ ~Executes(command)
          /\ Noted(key, i, command, "rejected", NoApproval)
          /\ UNCHANGED <<effects, remembered>>
    /\ UNCHANGED approvals
RunCommand(key, i, command) ==
    IF Remembered(key, i, command) # {} THEN Replay(key, i, command)
    ELSE IF autoRuns[key].dry THEN DryRun(key, i, command)
    ELSE IF Held(command, "automation") THEN Hold(key, i, command)
    ELSE Execute(key, i, command)

RunAction(key) ==
    LET i == autoRuns[key].next
        command == CommandFor(ActionsOf(key)[i], EventOf(key))
    IN  /\ executing = key /\ i <= Len(ActionsOf(key))
        /\ IF command = "invalid"
           THEN /\ Noted(key, i, command, "rejected", NoApproval)
                /\ UNCHANGED <<approvals, remembered, effects>>
           ELSE RunCommand(key, i, command)
        /\ UNCHANGED <<autoRules, arrived>>

-----------------------------------------------------------------------------
(* Runs.                                                                   *)

ScopeKnown(key) == EventOf(key).property \/ (EventOf(key).reservation /\ arrived)

\* executeFrom(run): fails at once when the event names no property; else the run goes
\* on with its next action.
ExecuteFrom(key, run) ==
    IF ScopeKnown(key)
    THEN /\ autoRuns' = [autoRuns EXCEPT ![key] = [run EXCEPT !.status = "running"]]
         /\ executing' = key
    ELSE /\ autoRuns' = [autoRuns EXCEPT ![key] =
                [run EXCEPT !.status = "failed",
                            !.attempts = Append(@, Attempt(run.next, "none", "rejected", NoApproval))]]
         /\ UNCHANGED executing

\* deriveStatus, when there is nothing left to do.
Derived(attempts) ==
    LET statuses == {attempts[i].status : i \in DOMAIN attempts}
    IN  CASE "awaiting_approval" \in statuses -> "awaiting_approval"
          [] "rejected" \notin statuses -> "succeeded"
          [] statuses \cap {"ok", "dry_run"} # {} -> "partial_failure"
          [] OTHER -> "failed"
FinishRun(key) ==
    /\ executing = key /\ autoRuns[key].next > Len(ActionsOf(key))
    /\ autoRuns' = [autoRuns EXCEPT ![key].status = Derived(autoRuns[key].attempts)]
    /\ executing' = Nobody
    /\ UNCHANGED <<autoRules, approvals, remembered, effects, arrived>>

MayRetry(key) == Len(autoRuns[key].attempts) + Len(ActionsOf(key)) <= MaxAttempts
Matches(form, e) == e \in form.cond
\* runRule: a run of this key is found again, or made.
Fire(r, e, dry) ==
    LET key == <<r, autoRules[r].version, e>>
        run == autoRuns[key]
        new == [status |-> "succeeded", dry |-> dry, next |-> 1, attempts |-> <<>>]
    IN  /\ executing = Nobody /\ autoRules[r].active
        /\ \/ /\ run = NoRun /\ Matches(autoRules[r].form, e)
              /\ ExecuteFrom(key, new)
           \/ /\ run = NoRun /\ ~Matches(autoRules[r].form, e)
              /\ autoRuns' = [autoRuns EXCEPT ![key] = new] /\ UNCHANGED executing
           \/ /\ run # NoRun /\ run.status \in {"failed", "partial_failure"}
              /\ MayRetry(key) /\ ExecuteFrom(key, run)
        /\ UNCHANGED <<autoRules, approvals, remembered, effects, arrived>>

Retry(key) ==
    /\ executing = Nobody /\ autoRuns[key] # NoRun
    /\ autoRuns[key].status \in {"failed", "partial_failure"}
    /\ MayRetry(key) /\ ExecuteFrom(key, autoRuns[key])
    /\ UNCHANGED <<autoRules, approvals, remembered, effects, arrived>>

Slip_AnyStatus(a) == TRUE
Awaiting(a) == approvals[a].status = "awaiting_approval"
\* The run of an approval: held attempts that are approved count as done.
Waits(key, a) ==
    /\ autoRuns[key] # NoRun /\ autoRuns[key].status = "awaiting_approval"
    /\ \E i \in DOMAIN autoRuns[key].attempts : autoRuns[key].attempts[i].approval = a
Slip_StillHeld(attempts) == attempts
Resumed(attempts) ==
    [i \in DOMAIN attempts |->
        IF attempts[i].status = "awaiting_approval" /\ approvals'[attempts[i].approval].status = "approved"
        THEN [attempts[i] EXCEPT !.status = "ok"] ELSE attempts[i]]
\* approveHeldAction: the held command runs as the approver and without a key; when it
\* is refused nothing changes.  Then the run that waits for it goes on.
Approve(a) ==
    /\ executing = Nobody /\ Awaiting(a) /\ Executes(approvals[a].command)
    /\ Effect(approvals[a].key, approvals[a].index, approvals[a].command, "user")
    /\ approvals' = [approvals EXCEPT ![a].status = "approved"]
    /\ \/ \E key \in Keys :
            /\ Waits(key, a)
            /\ ExecuteFrom(key, [autoRuns[key] EXCEPT !.attempts = Resumed(@)])
       \/ /\ \A key \in Keys : ~Waits(key, a)
          /\ UNCHANGED <<autoRuns, executing>>
    /\ UNCHANGED <<autoRules, remembered, arrived>>

-----------------------------------------------------------------------------
(* Rules and reservations.                                                 *)

UpdateRule(r, form, active) ==
    /\ executing = Nobody /\ autoRules[r].version < MaxVersion
    /\ autoRules' = [autoRules EXCEPT ![r] =
           [version |-> @.version + 1, form |-> form, active |-> active]]
    /\ UNCHANGED <<autoRuns, approvals, remembered, effects, arrived, executing>>

\* A revision of the feed creates the reservation.
Arrive ==
    /\ executing = Nobody /\ ~arrived /\ arrived' = TRUE
    /\ UNCHANGED <<autoRules, autoRuns, approvals, remembered, effects, executing>>

Step(key) == RunAction(key) \/ FinishRun(key)
AutoNext ==
    \/ \E key \in Keys : Step(key) \/ Retry(key)
    \/ \E r \in Rules, e \in DOMAIN Events, dry \in BOOLEAN : Fire(r, e, dry)
    \/ \E a \in DOMAIN approvals : Approve(a)
    \/ \E r \in Rules, form \in Forms, active \in BOOLEAN : UpdateRule(r, form, active)
    \/ Arrive

AutoSpec == AutoInit /\ [][AutoNext]_autoVars
\* A request is served to its end, held messages are looked at, and the feed brings
\* the reservation.
AutoFairSpec ==
    /\ AutoSpec
    /\ WF_autoVars(\E key \in Keys : Step(key))
    /\ SF_autoVars(\E a \in DOMAIN approvals : Approve(a)) /\ SF_autoVars(Arrive)

-----------------------------------------------------------------------------
(* Properties.                                                             *)

\* R9, R16: however a run is fired, held, approved, edited and retried, its history
\* tells what was done: one effect for each action noted as ok, and no other effect.
HistoryTellsEffects ==
    \A key \in Keys, i \in 1..MaxAttempts :
        Cardinality({n \in DOMAIN effects : effects[n].key = key /\ effects[n].index = i}) =
        IF autoRuns[key] = NoRun THEN 0
        ELSE Cardinality({n \in DOMAIN autoRuns[key].attempts :
                autoRuns[key].attempts[n].index = i /\ autoRuns[key].attempts[n].status = "ok"})

\* "High-risk automation actions have approval": a message is only queued by a user who
\* approved that very action.
MessagesApproved ==
    \A n \in DOMAIN effects : effects[n].command = "queueGuestMessage" =>
        /\ effects[n].actor = "user"
        /\ \E a \in DOMAIN approvals :
            /\ approvals[a].key = effects[n].key /\ approvals[a].index = effects[n].index
            /\ approvals[a].status = "approved"

\* Every run gets an outcome once its messages are approved.
Finished(key) ==
    autoRuns[key] # NoRun /\ autoRuns[key].status \in {"succeeded", "partial_failure", "failed"}
RunsFinish == \A key \in Keys : autoRuns[key] # NoRun ~> Finished(key)
=============================================================================
