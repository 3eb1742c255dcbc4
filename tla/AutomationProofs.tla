--------------------------- MODULE AutomationProofs ---------------------------
(***************************************************************************)
(* Proofs about Automation, for every value of its constants: any rules,   *)
(* forms and events, any number of versions, approvals and retries.        *)
(*                                                                         *)
(* HistoryTellsEffects counts; the invariant below says instead that an    *)
(* action of a run is done at most once, noted as ok at most once, and one *)
(* exactly when the other.  That needs that no action before the next is   *)
(* attempted again (NextIsNew), and that an approval finds the one attempt *)
(* that waits for it (ApprovalsMatch).                                     *)
(***************************************************************************)
EXTENDS Automation, TLAPS, FiniteSetTheorems

EffectRecord == [key : Keys, index : Nat \ {0}, command : Commands, actor : {"automation", "user"}]
Approval == [key : Keys, index : Nat \ {0}, command : Commands,
             status : {"awaiting_approval", "approved"}]
Memory == [key : Keys, index : Nat \ {0}, command : Commands,
           status : {"ok", "awaiting_approval"}, approval : Nat \cup {NoApproval}]
Rule == [version : 1..MaxVersion, form : Form, active : BOOLEAN]
TypeOK ==
    /\ autoRules \in [Rules -> Rule]
    /\ autoRuns \in [Keys -> Run \cup {NoRun}]
    /\ approvals \in Seq(Approval)
    /\ remembered \subseteq Memory
    /\ effects \in Seq(EffectRecord)
    /\ arrived \in BOOLEAN /\ executing \in Keys \cup {Nobody}

\* What has been done of a run, remembered or noted as done or held, is before its next action;
\* without a run there is nothing.
NextIsNew ==
    /\ \A n \in DOMAIN effects : LET run == autoRuns[effects[n].key]
                                 IN  run # NoRun /\ effects[n].index < run.next
    /\ \A m \in remembered : autoRuns[m.key] # NoRun /\ m.index < autoRuns[m.key].next
    /\ \A key \in Keys : autoRuns[key] # NoRun =>
        \A n \in DOMAIN autoRuns[key].attempts :
            autoRuns[key].attempts[n].status \in {"ok", "awaiting_approval"} =>
                autoRuns[key].attempts[n].index < autoRuns[key].next
\* An action is done once, and noted as done or held once.
DoneOnce ==
    /\ \A n, m \in DOMAIN effects :
        effects[n].key = effects[m].key /\ effects[n].index = effects[m].index => n = m
    /\ \A key \in Keys : autoRuns[key] # NoRun =>
        LET a == autoRuns[key].attempts
        IN  \A n, m \in DOMAIN a :
                /\ a[n].status \in {"ok", "awaiting_approval"} /\ a[m].status \in {"ok", "awaiting_approval"}
                /\ a[n].index = a[m].index
                => n = m
\* It is done exactly when it is noted as done.
DoneIsNoted ==
    /\ \A n \in DOMAIN effects : \E m \in DOMAIN autoRuns[effects[n].key].attempts :
        /\ autoRuns[effects[n].key].attempts[m].index = effects[n].index
        /\ autoRuns[effects[n].key].attempts[m].status = "ok"
    /\ \A key \in Keys : autoRuns[key] # NoRun =>
        LET a == autoRuns[key].attempts
        IN  \A m \in DOMAIN a : a[m].status = "ok" =>
                \E n \in DOMAIN effects : effects[n].key = key /\ effects[n].index = a[m].index
\* An attempt that waits is the only one of its run, which waits too, for an approval of this action.
HeldAttemptsWait ==
    \A key \in Keys : autoRuns[key] # NoRun =>
        LET a == autoRuns[key].attempts
        IN  \A n \in DOMAIN a : a[n].status = "awaiting_approval" =>
                /\ autoRuns[key].status = "awaiting_approval"
                /\ \A m \in DOMAIN a : a[m].status = "awaiting_approval" => m = n
                /\ a[n].approval \in DOMAIN approvals
                /\ approvals[a[n].approval].index = a[n].index
                /\ approvals[a[n].approval].status = "awaiting_approval"
\* An attempt names an approval of its run; an approval that waits has its attempt.
ApprovalsMatch ==
    /\ \A key \in Keys : autoRuns[key] # NoRun =>
        LET a == autoRuns[key].attempts
        IN  \A n \in DOMAIN a : a[n].approval # NoApproval =>
                a[n].approval \in DOMAIN approvals /\ approvals[a[n].approval].key = key
    /\ \A p \in DOMAIN approvals : approvals[p].status = "awaiting_approval" =>
        /\ autoRuns[approvals[p].key] # NoRun
        /\ \E n \in DOMAIN autoRuns[approvals[p].key].attempts :
            /\ autoRuns[approvals[p].key].attempts[n].approval = p
            /\ autoRuns[approvals[p].key].attempts[n].status = "awaiting_approval"
\* The run that executes is running.
ExecutingRuns ==
    executing # Nobody => autoRuns[executing] # NoRun /\ autoRuns[executing].status = "running"
IInv ==
    /\ TypeOK /\ NextIsNew /\ DoneOnce /\ DoneIsNoted /\ HeldAttemptsWait /\ ApprovalsMatch
    /\ ExecutingRuns /\ MessagesApproved

-----------------------------------------------------------------------------
(* Lemmas about the operators.                                             *)

\* A sequence with one more element.
LEMMA AppendIs ==
    ASSUME NEW S, NEW s \in Seq(S), NEW e \in S
    PROVE  /\ Append(s, e) \in Seq(S) /\ DOMAIN Append(s, e) = DOMAIN s \cup {Len(s) + 1}
           /\ Len(s) + 1 \notin DOMAIN s /\ Append(s, e)[Len(s) + 1] = e
           /\ Len(Append(s, e)) = Len(s) + 1 /\ Len(s) \in Nat
           /\ \A n \in DOMAIN s : Append(s, e)[n] = s[n]
<1>1. DOMAIN Append(s, e) = 1..Len(s) + 1 /\ DOMAIN s = 1..Len(s) /\ Len(s) \in Nat
  OBVIOUS
<1>2. DOMAIN Append(s, e) = DOMAIN s \cup {Len(s) + 1} /\ Len(s) + 1 \notin DOMAIN s
  BY <1>1
<1> QED
  BY <1>1, <1>2

\* The attempts a of a run keep those it had; what is new in them is neither done nor held.
Noting(attempt) == attempt.status \in {"ok", "awaiting_approval"}
Keeps(a, key) ==
    /\ autoRuns[key] # NoRun =>
        \A n \in DOMAIN autoRuns[key].attempts : n \in DOMAIN a /\ a[n] = autoRuns[key].attempts[n]
    /\ \A n \in DOMAIN a : Noting(a[n]) \/ a[n].approval # NoApproval =>
        autoRuns[key] # NoRun /\ n \in DOMAIN autoRuns[key].attempts

LEMMA KeepsAppend ==
    ASSUME NEW key \in Keys, NEW a \in Seq(AttemptRecord), Keeps(a, key), NEW e \in AttemptRecord,
           ~Noting(e), e.approval = NoApproval
    PROVE  Keeps(Append(a, e), key)
<1>1. /\ DOMAIN Append(a, e) = DOMAIN a \cup {Len(a) + 1}
      /\ \A n \in DOMAIN a : Append(a, e)[n] = a[n]
      /\ Append(a, e)[Len(a) + 1] = e
  BY AppendIs
<1>2. \A n \in DOMAIN Append(a, e) :
        Noting(Append(a, e)[n]) \/ Append(a, e)[n].approval # NoApproval =>
            n \in DOMAIN a /\ Append(a, e)[n] = a[n]
  BY <1>1
<1> QED
  BY <1>1, <1>2 DEF Keeps

LEMMA KeepsSame ==
    ASSUME NEW key \in Keys, autoRuns[key] # NoRun
    PROVE  Keeps(autoRuns[key].attempts, key)
BY DEF Keeps

LEMMA KeepsNothing ==
    ASSUME NEW key \in Keys, autoRuns[key] = NoRun
    PROVE  Keeps(<<>>, key)
BY DEF Keeps

\* The run with one more attempt.
NotedRun(key, i, e) ==
    [autoRuns[key] EXCEPT !.attempts = Append(@, e), !.next = i + 1,
                          !.status = IF e.status = "awaiting_approval" THEN e.status ELSE @]
LEMMA NotedIs ==
    ASSUME TypeOK, NEW key \in Keys, autoRuns[key] # NoRun, NEW i \in Nat \ {0}, NEW command, NEW status,
           NEW approval, Attempt(i, command, status, approval) \in AttemptRecord,
           Noted(key, i, command, status, approval)
    PROVE  LET e == Attempt(i, command, status, approval)
               new == NotedRun(key, i, e)
           IN  /\ autoRuns' = [autoRuns EXCEPT ![key] = new]
               /\ new \in Run /\ new.next = i + 1
               /\ new.attempts = Append(autoRuns[key].attempts, e)
               /\ new.status = IF status = "awaiting_approval" THEN status ELSE autoRuns[key].status
<1> DEFINE e == Attempt(i, command, status, approval)
<1> DEFINE new == NotedRun(key, i, e)
<1>1. autoRuns[key] \in Run /\ e.status = status
  BY DEF TypeOK, Attempt
<1>2. e \in AttemptRecord /\ e.status \in AttemptStatuses
  BY DEF AttemptRecord
<1>3. autoRuns' = [autoRuns EXCEPT ![key].attempts = Append(@, e), ![key].next = i + 1,
                                   ![key].status = IF status = "awaiting_approval" THEN status ELSE @]
  BY DEF Noted
<1> HIDE DEF e
<1>4. autoRuns' = [autoRuns EXCEPT ![key] = new]
  BY <1>1, <1>3 DEF NotedRun, Run, TypeOK
<1>5. Append(autoRuns[key].attempts, e) \in Seq(AttemptRecord)
  BY <1>1, <1>2 DEF Run
<1>6. /\ new \in Run /\ new.next = i + 1
      /\ new.attempts = Append(autoRuns[key].attempts, e)
      /\ new.status = IF status = "awaiting_approval" THEN status ELSE autoRuns[key].status
  <2>1. i + 1 \in Nat \ {0}
    OBVIOUS
  <2>2. (IF status = "awaiting_approval" THEN status ELSE autoRuns[key].status) \in RunStatuses
    BY <1>1 DEF Run, RunStatuses
  <2> QED
    BY <1>1, <1>5, <2>1, <2>2 DEF NotedRun, Run
<1> QED
  BY <1>4, <1>6 DEF e

LEMMA ElementsTyped ==
    ASSUME TypeOK
    PROVE  /\ \A n \in DOMAIN effects : effects[n].key \in Keys /\ effects[n].index \in Nat \ {0}
           /\ \A p \in DOMAIN approvals :
                approvals[p].key \in Keys /\ approvals[p].index \in Nat \ {0} /\ approvals[p].command \in Commands
<1>1. \A n \in DOMAIN effects : effects[n] \in EffectRecord
  BY DEF TypeOK
<1>2. \A p \in DOMAIN approvals : approvals[p] \in Approval
  BY DEF TypeOK
<1> QED
  BY <1>1, <1>2 DEF EffectRecord, Approval

\* The rules tell actions that the runner knows.
LEMMA ActionKnown ==
    ASSUME TypeOK, NEW key \in Keys, NEW i \in Nat \ {0}, i <= Len(ActionsOf(key))
    PROVE  CommandFor(ActionsOf(key)[i], EventOf(key)) \in Commands \cup {"invalid"}
<1>1. RuleOf(key) \in Rules
  BY DEF Keys, RuleOf
<1>2. ActionsOf(key) \in Seq(Kinds)
  BY <1>1 DEF TypeOK, Rule, Form, ActionsOf
<1>3. ActionsOf(key)[i] \in Kinds
  BY <1>2
<1> QED
  BY <1>3 DEF Kinds, CommandFor, Commands

\* A run that executes, or may be retried, holds nothing.
LEMMA OnlyWaitingHolds ==
    ASSUME HeldAttemptsWait, NEW key \in Keys, autoRuns[key] # NoRun,
           autoRuns[key].status # "awaiting_approval"
    PROVE  \A n \in DOMAIN autoRuns[key].attempts :
              autoRuns[key].attempts[n].status # "awaiting_approval"
BY DEF HeldAttemptsWait

-----------------------------------------------------------------------------
(* The steps.                                                              *)

LEMMA InitHolds == AutoInit => IInv
<1> SUFFICES ASSUME AutoInit PROVE IInv
  OBVIOUS
<1>1. \A key \in Keys : autoRuns[key] = NoRun
  BY DEF AutoInit
<1>2. TypeOK
  <2>1. [version |-> 1, form |-> FirstForm, active |-> TRUE] \in Rule
    BY AutomationAssumption DEF Rule
  <2>2. <<>> \in Seq(Approval) /\ <<>> \in Seq(EffectRecord)
    OBVIOUS
  <2> QED
    BY <2>1, <2>2 DEF AutoInit, TypeOK
<1>3. DOMAIN effects = {} /\ DOMAIN approvals = {}
  BY DEF AutoInit
<1>4. NextIsNew /\ DoneOnce /\ DoneIsNoted
  BY <1>1, <1>3 DEF AutoInit, NextIsNew, DoneOnce, DoneIsNoted
<1>5. HeldAttemptsWait /\ ApprovalsMatch /\ ExecutingRuns /\ MessagesApproved
  BY <1>1, <1>3 DEF AutoInit, HeldAttemptsWait, ApprovalsMatch, ExecutingRuns, MessagesApproved
<1> QED
  BY <1>2, <1>4, <1>5 DEF IInv

\* A run changes and nothing is done or held.
LEMMA QuietRunHolds ==
    ASSUME IInv, NEW key \in Keys, NEW new \in Run, autoRuns' = [autoRuns EXCEPT ![key] = new],
           Keeps(new.attempts, key), autoRuns[key] # NoRun => autoRuns[key].next <= new.next,
           \A n \in DOMAIN new.attempts : new.attempts[n].status # "awaiting_approval",
           executing' = Nobody \/ (executing' = key /\ new.status = "running"),
           UNCHANGED <<autoRules, approvals, remembered, effects, arrived>>
    PROVE  IInv'
<1> USE DEF IInv
<1>1. /\ autoRuns' \in [Keys -> Run \cup {NoRun}]
      /\ autoRuns'[key] = new /\ new # NoRun
      /\ \A k \in Keys : k # key => autoRuns'[k] = autoRuns[k]
  BY AutomationAssumption DEF TypeOK
<1>2. autoRuns[key] # NoRun => autoRuns[key].next \in Nat /\ new.next \in Nat
  BY DEF TypeOK, Run
<1>3. \A k \in Keys : autoRuns[k] # NoRun => autoRuns[k].next \in Nat
  BY DEF TypeOK, Run
<1>4. \A n \in DOMAIN effects : effects[n].key \in Keys /\ effects[n].index \in Nat
  BY ElementsTyped
<1>5. \A m \in remembered : m.key \in Keys /\ m.index \in Nat
  BY DEF TypeOK, Memory
<1>6. \A n \in DOMAIN new.attempts : new.attempts[n].index \in Nat
  <2>1. new.attempts \in Seq(AttemptRecord)
    BY DEF Run
  <2>2. \A n \in DOMAIN new.attempts : new.attempts[n] \in AttemptRecord
    BY <2>1
  <2> QED
    BY <2>2 DEF AttemptRecord
<1>7. TypeOK'
  BY <1>1 DEF TypeOK
<1>8. NextIsNew'
  <2>1. \A k \in Keys : autoRuns[k] # NoRun => autoRuns'[k] # NoRun /\ autoRuns[k].next <= autoRuns'[k].next
    BY <1>1, <1>3
  <2>2. \A n \in DOMAIN effects : autoRuns'[effects[n].key] # NoRun /\ effects[n].index < autoRuns'[effects[n].key].next
    <3>1. \A n \in DOMAIN effects : autoRuns[effects[n].key] # NoRun /\ effects[n].index < autoRuns[effects[n].key].next
      BY DEF NextIsNew
    <3> QED
      BY <1>1, <1>2, <1>3, <1>4, <2>1, <3>1
  <2>3. \A m \in remembered : autoRuns'[m.key] # NoRun /\ m.index < autoRuns'[m.key].next
    <3>1. \A m \in remembered : autoRuns[m.key] # NoRun /\ m.index < autoRuns[m.key].next
      BY DEF NextIsNew
    <3> QED
      BY <1>1, <1>2, <1>3, <1>5, <2>1, <3>1
  <2>4. \A n \in DOMAIN new.attempts : Noting(new.attempts[n]) => new.attempts[n].index < new.next
    <3> SUFFICES ASSUME NEW n \in DOMAIN new.attempts, Noting(new.attempts[n])
                 PROVE  new.attempts[n].index < new.next
      OBVIOUS
    <3>1. /\ autoRuns[key] # NoRun /\ n \in DOMAIN autoRuns[key].attempts
          /\ new.attempts[n] = autoRuns[key].attempts[n]
      BY DEF Keeps
    <3>2. new.attempts[n].index < autoRuns[key].next
      BY <3>1 DEF NextIsNew, Noting
    <3> QED
      BY <1>2, <1>6, <3>1, <3>2
  <2>5. \A k \in Keys : autoRuns'[k] # NoRun =>
            \A n \in DOMAIN autoRuns'[k].attempts :
                autoRuns'[k].attempts[n].status \in {"ok", "awaiting_approval"} =>
                    autoRuns'[k].attempts[n].index < autoRuns'[k].next
    BY <1>1, <2>4 DEF NextIsNew, Noting
  <2> QED
    BY <2>2, <2>3, <2>5 DEF NextIsNew
<1>9. DoneOnce'
  <2>1. \A n, m \in DOMAIN new.attempts :
            /\ Noting(new.attempts[n]) /\ Noting(new.attempts[m])
            /\ new.attempts[n].index = new.attempts[m].index
            => n = m
    BY DEF DoneOnce, Keeps, Noting
  <2> QED
    BY <1>1, <2>1 DEF DoneOnce, Noting
<1>10. DoneIsNoted'
  <2>1. \A n \in DOMAIN effects : \E m \in DOMAIN autoRuns'[effects[n].key].attempts :
            /\ autoRuns'[effects[n].key].attempts[m].index = effects[n].index
            /\ autoRuns'[effects[n].key].attempts[m].status = "ok"
    <3> SUFFICES ASSUME NEW n \in DOMAIN effects
                 PROVE  \E m \in DOMAIN autoRuns'[effects[n].key].attempts :
                            /\ autoRuns'[effects[n].key].attempts[m].index = effects[n].index
                            /\ autoRuns'[effects[n].key].attempts[m].status = "ok"
      OBVIOUS
    <3>1. PICK m \in DOMAIN autoRuns[effects[n].key].attempts :
            /\ autoRuns[effects[n].key].attempts[m].index = effects[n].index
            /\ autoRuns[effects[n].key].attempts[m].status = "ok"
      BY DEF DoneIsNoted
    <3>2. autoRuns[effects[n].key] # NoRun
      BY DEF NextIsNew
    <3> QED
      BY <1>1, <1>4, <3>1, <3>2 DEF Keeps
  <2>2. \A m \in DOMAIN new.attempts : new.attempts[m].status = "ok" =>
            \E n \in DOMAIN effects : effects[n].key = key /\ effects[n].index = new.attempts[m].index
    BY DEF DoneIsNoted, Keeps, Noting
  <2> QED
    BY <1>1, <2>1, <2>2 DEF DoneIsNoted
<1>11. HeldAttemptsWait'
  BY <1>1 DEF HeldAttemptsWait
<1>12. ApprovalsMatch'
  <2>1. \A n \in DOMAIN new.attempts : new.attempts[n].approval # NoApproval =>
            new.attempts[n].approval \in DOMAIN approvals /\ approvals[new.attempts[n].approval].key = key
    BY DEF ApprovalsMatch, Keeps
  <2>2. \A p \in DOMAIN approvals : approvals[p].key \in Keys
    BY ElementsTyped
  <2>3. \A p \in DOMAIN approvals : approvals[p].status = "awaiting_approval" =>
            /\ autoRuns'[approvals[p].key] # NoRun
            /\ \E n \in DOMAIN autoRuns'[approvals[p].key].attempts :
                /\ autoRuns'[approvals[p].key].attempts[n].approval = p
                /\ autoRuns'[approvals[p].key].attempts[n].status = "awaiting_approval"
    BY <1>1, <2>2 DEF ApprovalsMatch, Keeps
  <2> QED
    BY <1>1, <2>1, <2>3 DEF ApprovalsMatch
<1>13. ExecutingRuns'
  BY <1>1 DEF ExecutingRuns
<1>14. MessagesApproved'
  BY DEF MessagesApproved
<1> QED
  BY <1>7, <1>8, <1>9, <1>10, <1>11, <1>12, <1>13, <1>14

\* An action j of a run is done, and noted as ok in its attempt n: a new one, or the one that
\* waited for its approval.
DoneStep(key, new, n, j, done) ==
    /\ autoRuns[key] # NoRun /\ n \in DOMAIN new.attempts
    /\ autoRuns' = [autoRuns EXCEPT ![key] = new]
    /\ autoRuns[key].next <= new.next /\ j < new.next
    /\ \A m \in DOMAIN new.attempts : new.attempts[m].status # "awaiting_approval"
    /\ new.attempts[n].status = "ok" /\ new.attempts[n].index = j
    /\ n \in DOMAIN autoRuns[key].attempts =>
        /\ autoRuns[key].attempts[n].status = "awaiting_approval"
        /\ autoRuns[key].attempts[n].approval = new.attempts[n].approval
    /\ n \notin DOMAIN autoRuns[key].attempts => new.attempts[n].approval = NoApproval
    /\ \A m \in DOMAIN autoRuns[key].attempts : m # n =>
        /\ m \in DOMAIN new.attempts /\ new.attempts[m] = autoRuns[key].attempts[m]
        /\ Noting(new.attempts[m]) => new.attempts[m].index # j
    /\ \A m \in DOMAIN new.attempts :
        /\ m # n
        /\ Noting(new.attempts[m]) \/ new.attempts[m].approval # NoApproval
        => m \in DOMAIN autoRuns[key].attempts
    /\ effects' = Append(effects, done) /\ done.key = key /\ done.index = j
    /\ remembered' \subseteq Memory
    /\ \A m \in remembered' : m \in remembered \/ (m.key = key /\ m.index = j)
    /\ approvals' \in Seq(Approval) /\ DOMAIN approvals' = DOMAIN approvals
    /\ \A p \in DOMAIN approvals :
        /\ approvals'[p].key = approvals[p].key /\ approvals'[p].index = approvals[p].index
        /\ approvals[p].key # key => approvals'[p] = approvals[p]
        /\ approvals[p].key = key => approvals'[p].status = "approved"
    /\ done.command = "queueGuestMessage" =>
        /\ done.actor = "user"
        /\ \E p \in DOMAIN approvals : approvals[p].key = key /\ approvals[p].index = j
    /\ executing' = Nobody \/ (executing' = key /\ new.status = "running")
    /\ UNCHANGED <<autoRules, arrived>>
LEMMA DoneHolds ==
    ASSUME IInv, NEW key \in Keys, NEW new \in Run, NEW n, NEW j \in Nat \ {0},
           NEW done \in EffectRecord, DoneStep(key, new, n, j, done)
    PROVE  IInv'
<1> USE DEF IInv, DoneStep
<1> DEFINE a == autoRuns[key].attempts
<1> DEFINE b == new.attempts
<1>1. /\ autoRuns' \in [Keys -> Run \cup {NoRun}]
      /\ autoRuns'[key] = new /\ new # NoRun
      /\ \A k \in Keys : k # key => autoRuns'[k] = autoRuns[k]
  BY AutomationAssumption DEF TypeOK
<1>2. /\ new.next \in Nat
      /\ \A k \in Keys : autoRuns[k] # NoRun => autoRuns[k].next \in Nat
  BY DEF TypeOK, Run
<1>3. /\ effects' \in Seq(EffectRecord) /\ DOMAIN effects' = DOMAIN effects \cup {Len(effects) + 1}
      /\ Len(effects) + 1 \notin DOMAIN effects /\ effects'[Len(effects) + 1] = done
      /\ \A m \in DOMAIN effects : effects'[m] = effects[m]
  BY AppendIs DEF TypeOK
<1>4. \A m \in DOMAIN effects : effects[m].key \in Keys /\ effects[m].index \in Nat
  BY ElementsTyped
<1>5. \A m \in remembered : m.key \in Keys /\ m.index \in Nat
  BY DEF TypeOK, Memory
<1>6. \A m \in DOMAIN b : b[m].index \in Nat
  <2>1. b \in Seq(AttemptRecord)
    BY DEF Run
  <2>2. \A m \in DOMAIN b : b[m] \in AttemptRecord
    BY <2>1
  <2> QED
    BY <2>2 DEF AttemptRecord
<1>7. \A m \in DOMAIN effects : effects[m].key = key => effects[m].index # j
  <2> SUFFICES ASSUME NEW m \in DOMAIN effects, effects[m].key = key, effects[m].index = j
               PROVE  FALSE
    OBVIOUS
  <2>1. PICK o \in DOMAIN a : a[o].index = j /\ a[o].status = "ok"
    BY DEF DoneIsNoted
  <2>2. o # n
    BY <2>1
  <2> QED
    BY <2>1, <2>2 DEF Noting
<1>8. TypeOK'
  BY <1>1, <1>3 DEF TypeOK
<1>9. NextIsNew'
  <2>1. \A k \in Keys : autoRuns[k] # NoRun => autoRuns'[k] # NoRun /\ autoRuns[k].next <= autoRuns'[k].next
    BY <1>1, <1>2
  <2>2. \A m \in DOMAIN effects : autoRuns'[effects[m].key] # NoRun /\ effects[m].index < autoRuns'[effects[m].key].next
    <3>1. \A m \in DOMAIN effects : autoRuns[effects[m].key] # NoRun /\ effects[m].index < autoRuns[effects[m].key].next
      BY DEF NextIsNew
    <3> QED
      BY <1>1, <1>2, <1>4, <2>1, <3>1
  <2>3. \A m \in DOMAIN effects' : autoRuns'[effects'[m].key] # NoRun /\ effects'[m].index < autoRuns'[effects'[m].key].next
    BY <1>1, <1>3, <2>2
  <2>4. \A m \in remembered' : autoRuns'[m.key] # NoRun /\ m.index < autoRuns'[m.key].next
    <3>1. \A m \in remembered : autoRuns[m.key] # NoRun /\ m.index < autoRuns[m.key].next
      BY DEF NextIsNew
    <3>2. \A m \in remembered : autoRuns'[m.key] # NoRun /\ m.index < autoRuns'[m.key].next
      BY <1>1, <1>2, <1>5, <2>1, <3>1
    <3> QED
      BY <1>1, <3>2
  <2>5. \A m \in DOMAIN b : Noting(b[m]) => b[m].index < new.next
    <3> SUFFICES ASSUME NEW m \in DOMAIN b, Noting(b[m]), m # n
                 PROVE  b[m].index < new.next
      OBVIOUS
    <3>1. m \in DOMAIN a /\ b[m] = a[m]
      OBVIOUS
    <3>2. a[m].index < autoRuns[key].next
      BY <3>1 DEF NextIsNew, Noting
    <3> QED
      BY <1>2, <1>6, <3>1, <3>2
  <2>6. \A k \in Keys : autoRuns'[k] # NoRun =>
            \A m \in DOMAIN autoRuns'[k].attempts :
                autoRuns'[k].attempts[m].status \in {"ok", "awaiting_approval"} =>
                    autoRuns'[k].attempts[m].index < autoRuns'[k].next
    BY <1>1, <2>5 DEF NextIsNew, Noting
  <2> QED
    BY <2>3, <2>4, <2>6 DEF NextIsNew
<1>10. DoneOnce'
  <2>1. \A m, o \in DOMAIN effects' :
            effects'[m].key = effects'[o].key /\ effects'[m].index = effects'[o].index => m = o
    BY <1>3, <1>7 DEF DoneOnce
  <2>2. \A m, o \in DOMAIN b : Noting(b[m]) /\ Noting(b[o]) /\ b[m].index = b[o].index => m = o
    <3>1. \A m, o \in DOMAIN a : Noting(a[m]) /\ Noting(a[o]) /\ a[m].index = a[o].index => m = o
      BY DEF DoneOnce, Noting
    <3>2. \A m \in DOMAIN b : m # n /\ Noting(b[m]) => m \in DOMAIN a /\ b[m] = a[m] /\ b[m].index # j
      OBVIOUS
    <3> HIDE DEF a, b
    <3> QED
      BY <3>1, <3>2 DEF b
  <2>3. \A k \in Keys : autoRuns'[k] # NoRun =>
            \A m, o \in DOMAIN autoRuns'[k].attempts :
                /\ Noting(autoRuns'[k].attempts[m]) /\ Noting(autoRuns'[k].attempts[o])
                /\ autoRuns'[k].attempts[m].index = autoRuns'[k].attempts[o].index
                => m = o
    BY <1>1, <2>2 DEF DoneOnce, Noting
  <2> QED
    BY <2>1, <2>3 DEF DoneOnce, Noting
<1>11. DoneIsNoted'
  <2>1. \A m \in DOMAIN effects' : \E o \in DOMAIN autoRuns'[effects'[m].key].attempts :
            /\ autoRuns'[effects'[m].key].attempts[o].index = effects'[m].index
            /\ autoRuns'[effects'[m].key].attempts[o].status = "ok"
    <3>1. \E o \in DOMAIN autoRuns'[key].attempts :
            autoRuns'[key].attempts[o].index = j /\ autoRuns'[key].attempts[o].status = "ok"
      BY <1>1
    <3>2. ASSUME NEW m \in DOMAIN effects
          PROVE  \E o \in DOMAIN autoRuns'[effects[m].key].attempts :
                    /\ autoRuns'[effects[m].key].attempts[o].index = effects[m].index
                    /\ autoRuns'[effects[m].key].attempts[o].status = "ok"
      <4>1. PICK o \in DOMAIN autoRuns[effects[m].key].attempts :
                /\ autoRuns[effects[m].key].attempts[o].index = effects[m].index
                /\ autoRuns[effects[m].key].attempts[o].status = "ok"
        BY DEF DoneIsNoted
      <4>2. CASE effects[m].key = key
        <5>1. o # n
          BY <4>1, <4>2
        <5> QED
          BY <1>1, <4>1, <4>2, <5>1
      <4>3. CASE effects[m].key # key
        BY <1>1, <1>4, <4>1, <4>3
      <4> QED
        BY <4>2, <4>3
    <3>3. ASSUME NEW m \in DOMAIN effects'
          PROVE  \E o \in DOMAIN autoRuns'[effects'[m].key].attempts :
                    /\ autoRuns'[effects'[m].key].attempts[o].index = effects'[m].index
                    /\ autoRuns'[effects'[m].key].attempts[o].status = "ok"
      <4>1. CASE m \in DOMAIN effects
        <5>1. effects'[m] = effects[m]
          BY <1>3, <4>1
        <5> QED
          BY <3>2, <4>1, <5>1
      <4>2. CASE m = Len(effects) + 1
        <5>1. effects'[m].key = key /\ effects'[m].index = j
          BY <1>3, <4>2
        <5> QED
          BY <3>1, <5>1
      <4> QED
        BY <1>3, <4>1, <4>2
    <3> QED
      BY <3>3
  <2>2. \A m \in DOMAIN b : b[m].status = "ok" =>
            \E o \in DOMAIN effects' : effects'[o].key = key /\ effects'[o].index = b[m].index
    <3>1. ASSUME NEW m \in DOMAIN b, b[m].status = "ok", m # n
          PROVE  \E o \in DOMAIN effects' : effects'[o].key = key /\ effects'[o].index = b[m].index
      <4>1. m \in DOMAIN a /\ b[m] = a[m]
        BY <3>1 DEF Noting
      <4>2. PICK o \in DOMAIN effects : effects[o].key = key /\ effects[o].index = a[m].index
        BY <3>1, <4>1 DEF DoneIsNoted
      <4> QED
        BY <1>3, <4>1, <4>2
    <3> QED
      BY <1>3, <3>1
  <2>3. ASSUME NEW k \in Keys, autoRuns'[k] # NoRun, NEW m \in DOMAIN autoRuns'[k].attempts,
               autoRuns'[k].attempts[m].status = "ok"
        PROVE  \E o \in DOMAIN effects' :
                    effects'[o].key = k /\ effects'[o].index = autoRuns'[k].attempts[m].index
    <3>1. CASE k = key
      BY <1>1, <2>2, <2>3, <3>1
    <3>2. CASE k # key
      <4>1. autoRuns'[k] = autoRuns[k]
        BY <1>1, <3>2
      <4>2. PICK o \in DOMAIN effects :
                effects[o].key = k /\ effects[o].index = autoRuns[k].attempts[m].index
        BY <2>3, <4>1 DEF DoneIsNoted
      <4> QED
        BY <1>3, <4>1, <4>2
    <3> QED
      BY <3>1, <3>2
  <2> QED
    BY <2>1, <2>3 DEF DoneIsNoted
<1>12. HeldAttemptsWait'
  <2>1. ASSUME NEW k \in Keys, k # key, autoRuns[k] # NoRun, NEW m \in DOMAIN autoRuns[k].attempts,
               autoRuns[k].attempts[m].status = "awaiting_approval"
        PROVE  LET p == autoRuns[k].attempts[m].approval
               IN  p \in DOMAIN approvals /\ approvals'[p] = approvals[p]
    <3> DEFINE p == autoRuns[k].attempts[m].approval
    <3>1. p \in DOMAIN approvals
      BY <2>1 DEF HeldAttemptsWait
    <3>2. p # NoApproval
      BY <3>1, AutomationAssumption DEF TypeOK
    <3>3. approvals[p].key = k
      BY <2>1, <3>2 DEF ApprovalsMatch
    <3> QED
      BY <2>1, <3>1, <3>3
  <2> QED
    BY <1>1, <2>1 DEF HeldAttemptsWait
<1>13. ApprovalsMatch'
  <2>1. \A m \in DOMAIN b : b[m].approval # NoApproval =>
            b[m].approval \in DOMAIN approvals /\ approvals[b[m].approval].key = key
    <3>1. \A m \in DOMAIN a : a[m].approval # NoApproval =>
            a[m].approval \in DOMAIN approvals /\ approvals[a[m].approval].key = key
      BY DEF ApprovalsMatch
    <3>2. \A m \in DOMAIN b : b[m].approval # NoApproval => m \in DOMAIN a /\ b[m].approval = a[m].approval
      OBVIOUS
    <3> QED
      BY <3>1, <3>2, SMTT(30)
  <2>2. \A k \in Keys : autoRuns'[k] # NoRun =>
            \A m \in DOMAIN autoRuns'[k].attempts : autoRuns'[k].attempts[m].approval # NoApproval =>
                /\ autoRuns'[k].attempts[m].approval \in DOMAIN approvals'
                /\ approvals'[autoRuns'[k].attempts[m].approval].key = k
    BY <1>1, <2>1 DEF ApprovalsMatch
  <2>3. \A p \in DOMAIN approvals : approvals[p].key \in Keys
    BY ElementsTyped
  <2>4. \A p \in DOMAIN approvals : approvals'[p].status = "awaiting_approval" =>
            approvals[p].key # key /\ approvals'[p] = approvals[p]
    OBVIOUS
  <2>5. \A p \in DOMAIN approvals' : approvals'[p].status = "awaiting_approval" =>
            /\ autoRuns'[approvals'[p].key] # NoRun
            /\ \E m \in DOMAIN autoRuns'[approvals'[p].key].attempts :
                /\ autoRuns'[approvals'[p].key].attempts[m].approval = p
                /\ autoRuns'[approvals'[p].key].attempts[m].status = "awaiting_approval"
    BY <1>1, <2>3, <2>4 DEF ApprovalsMatch
  <2> QED
    BY <2>2, <2>5 DEF ApprovalsMatch
<1>14. ExecutingRuns'
  BY <1>1 DEF ExecutingRuns
<1>15. MessagesApproved'
  <2>1. \A p \in DOMAIN approvals : approvals[p].status = "approved" => approvals'[p].status = "approved"
    OBVIOUS
  <2>2. \A m \in DOMAIN effects : effects[m].command = "queueGuestMessage" =>
            /\ effects[m].actor = "user"
            /\ \E p \in DOMAIN approvals' : /\ approvals'[p].key = effects[m].key
                                            /\ approvals'[p].index = effects[m].index
                                            /\ approvals'[p].status = "approved"
    BY <2>1 DEF MessagesApproved
  <2>3. done.command = "queueGuestMessage" =>
            /\ done.actor = "user"
            /\ \E p \in DOMAIN approvals' : /\ approvals'[p].key = done.key
                                            /\ approvals'[p].index = done.index
                                            /\ approvals'[p].status = "approved"
    OBVIOUS
  <2> QED
    BY <1>3, <2>2, <2>3, SMTT(30) DEF MessagesApproved
<1> QED
  BY <1>8, <1>9, <1>10, <1>11, <1>12, <1>13, <1>14, <1>15

\* A run that is running holds an action: an approval is asked for, and both wait.
LEMMA HoldHolds ==
    ASSUME IInv, NEW key \in Keys, autoRuns[key] # NoRun, autoRuns[key].status = "running",
           NEW command \in Commands, Hold(key, autoRuns[key].next, command),
           UNCHANGED <<autoRules, arrived>>
    PROVE  IInv'
<1> USE DEF IInv
<1> DEFINE a == autoRuns[key].attempts
<1> DEFINE j == autoRuns[key].next
<1> DEFINE p == Len(approvals) + 1
<1> DEFINE ap == [key |-> key, index |-> j, command |-> command, status |-> "awaiting_approval"]
<1> DEFINE e == Attempt(j, command, "awaiting_approval", p)
<1> DEFINE new == NotedRun(key, j, e)
<1> DEFINE n == Len(a) + 1
<1>1. autoRuns[key] \in Run /\ j \in Nat \ {0} /\ a \in Seq(AttemptRecord)
  BY DEF TypeOK, Run
<1>2. ap \in Approval
  BY <1>1 DEF Approval
<1>3. /\ approvals' = Append(approvals, ap) /\ approvals' \in Seq(Approval)
      /\ DOMAIN approvals' = DOMAIN approvals \cup {p} /\ p \notin DOMAIN approvals
      /\ approvals'[p] = ap /\ Len(approvals') = p /\ p \in Nat
      /\ \A q \in DOMAIN approvals : approvals'[q] = approvals[q]
  <2>1. approvals' = Append(approvals, ap)
    BY DEF Hold
  <2>2. approvals \in Seq(Approval)
    BY DEF TypeOK
  <2> HIDE DEF ap
  <2> QED
    BY <1>2, <2>1, <2>2, AppendIs
<1>4. e \in AttemptRecord /\ e.status = "awaiting_approval" /\ e.approval = p /\ e.index = j
  BY <1>1, <1>3 DEF Attempt, AttemptRecord, AttemptStatuses
<1>5. Noted(key, j, command, "awaiting_approval", p)
  BY <1>3 DEF Hold
<1>6. /\ autoRuns' = [autoRuns EXCEPT ![key] = new]
      /\ new \in Run /\ new.next = j + 1 /\ new.attempts = Append(a, e)
      /\ new.status = "awaiting_approval"
  <2>1. Attempt(j, command, "awaiting_approval", p) \in AttemptRecord
    BY <1>4
  <2> HIDE DEF e, new, a, j, p
  <2> QED
    BY <1>1, <1>5, <2>1, NotedIs DEF e, new, a
<1>7. /\ executing' = Nobody /\ effects' = effects
      /\ remembered' = remembered \cup {[key |-> key, index |-> j, command |-> command,
                                         status |-> "awaiting_approval", approval |-> p]}
  BY <1>3, <1>5 DEF Hold, Noted, Remember
<1>8. \A m \in DOMAIN a : a[m].status # "awaiting_approval"
  BY OnlyWaitingHolds
<1> HIDE DEF new, e, a, j, ap, p
<1>9. /\ DOMAIN new.attempts = DOMAIN a \cup {n} /\ n \notin DOMAIN a
      /\ new.attempts[n] = e
      /\ \A m \in DOMAIN a : new.attempts[m] = a[m]
  BY <1>1, <1>4, <1>6, AppendIs
<1> HIDE DEF n
<1>10. /\ autoRuns' \in [Keys -> Run \cup {NoRun}] /\ autoRuns'[key] = new /\ new # NoRun
       /\ \A k \in Keys : k # key => autoRuns'[k] = autoRuns[k]
  BY <1>6, AutomationAssumption DEF TypeOK
<1>11. \A k \in Keys : autoRuns[k] # NoRun => autoRuns[k].next \in Nat
  BY DEF TypeOK, Run
<1>12. \A m \in DOMAIN effects : effects[m].key \in Keys /\ effects[m].index \in Nat
  BY ElementsTyped
<1>13. ap.key = key /\ ap.index = j /\ ap.status = "awaiting_approval"
  BY DEF ap
<1>14. TypeOK'
  <2>1. remembered' \subseteq Memory
    BY <1>1, <1>3, <1>7 DEF TypeOK, Memory
  <2> QED
    BY <1>3, <1>7, <1>10, <2>1 DEF TypeOK
<1>15. NextIsNew'
  <2>1. \A k \in Keys : autoRuns[k] # NoRun => autoRuns'[k] # NoRun /\ autoRuns[k].next <= autoRuns'[k].next
    BY <1>1, <1>6, <1>10, <1>11 DEF j
  <2>2. \A m \in DOMAIN effects : autoRuns'[effects[m].key] # NoRun /\ effects[m].index < autoRuns'[effects[m].key].next
    <3>1. \A m \in DOMAIN effects : autoRuns[effects[m].key] # NoRun /\ effects[m].index < autoRuns[effects[m].key].next
      BY DEF NextIsNew
    <3> QED
      BY <1>1, <1>6, <1>10, <1>11, <1>12, <2>1, <3>1 DEF j
  <2>3. \A m \in remembered' : autoRuns'[m.key] # NoRun /\ m.index < autoRuns'[m.key].next
    <3>1. \A m \in remembered : autoRuns[m.key] # NoRun /\ m.index < autoRuns[m.key].next
      BY DEF NextIsNew
    <3>2. \A m \in remembered : m.key \in Keys /\ m.index \in Nat
      BY DEF TypeOK, Memory
    <3>3. \A m \in remembered : autoRuns'[m.key] # NoRun /\ m.index < autoRuns'[m.key].next
      BY <1>1, <1>6, <1>10, <1>11, <2>1, <3>1, <3>2 DEF j
    <3> QED
      BY <1>1, <1>6, <1>7, <1>10, <3>3
  <2>4. \A m \in DOMAIN new.attempts : Noting(new.attempts[m]) => new.attempts[m].index < new.next
    <3>1. \A m \in DOMAIN a : Noting(a[m]) => a[m].index < j
      BY DEF NextIsNew, Noting, a, j
    <3>2. \A m \in DOMAIN a : a[m].index \in Nat
      <4>1. \A m \in DOMAIN a : a[m] \in AttemptRecord
        BY <1>1
      <4> QED
        BY <4>1 DEF AttemptRecord
    <3> QED
      BY <1>1, <1>4, <1>6, <1>9, <3>1, <3>2
  <2> QED
    BY <1>7, <1>10, <2>2, <2>3, <2>4 DEF NextIsNew, Noting
<1>16. DoneOnce'
  <2>1. \A m, o \in DOMAIN new.attempts :
            /\ Noting(new.attempts[m]) /\ Noting(new.attempts[o])
            /\ new.attempts[m].index = new.attempts[o].index
            => m = o
    <3>1. \A m \in DOMAIN a : Noting(a[m]) => a[m].index # j
      <4>1. \A m \in DOMAIN a : Noting(a[m]) => a[m].index < j
        BY DEF NextIsNew, Noting, a, j
      <4> QED
        BY <1>1, <4>1
    <3>2. \A m, o \in DOMAIN a : Noting(a[m]) /\ Noting(a[o]) /\ a[m].index = a[o].index => m = o
      BY DEF DoneOnce, Noting, a
    <3> QED
      BY <1>4, <1>9, <3>1, <3>2
  <2> QED
    BY <1>7, <1>10, <2>1 DEF DoneOnce, Noting
<1>17. DoneIsNoted'
  <2>1. ASSUME NEW m \in DOMAIN effects
        PROVE  \E o \in DOMAIN autoRuns'[effects[m].key].attempts :
                    /\ autoRuns'[effects[m].key].attempts[o].index = effects[m].index
                    /\ autoRuns'[effects[m].key].attempts[o].status = "ok"
    <3>1. PICK o \in DOMAIN autoRuns[effects[m].key].attempts :
            /\ autoRuns[effects[m].key].attempts[o].index = effects[m].index
            /\ autoRuns[effects[m].key].attempts[o].status = "ok"
      BY DEF DoneIsNoted
    <3>2. CASE effects[m].key = key
      BY <1>9, <1>10, <3>1, <3>2 DEF a
    <3>3. CASE effects[m].key # key
      BY <1>10, <1>12, <3>1, <3>3
    <3> QED
      BY <3>2, <3>3
  <2>2. \A m \in DOMAIN new.attempts : new.attempts[m].status = "ok" =>
            \E o \in DOMAIN effects : effects[o].key = key /\ effects[o].index = new.attempts[m].index
    BY <1>4, <1>9 DEF DoneIsNoted, a
  <2> QED
    BY <1>7, <1>10, <2>1, <2>2 DEF DoneIsNoted
<1>18. HeldAttemptsWait'
  <2>1. \A m \in DOMAIN new.attempts : new.attempts[m].status = "awaiting_approval" => m = n
    BY <1>8, <1>9
  <2>2. \A k \in Keys : k # key /\ autoRuns[k] # NoRun =>
            \A m \in DOMAIN autoRuns[k].attempts : autoRuns[k].attempts[m].status = "awaiting_approval" =>
                /\ autoRuns[k].attempts[m].approval \in DOMAIN approvals'
                /\ approvals'[autoRuns[k].attempts[m].approval] = approvals[autoRuns[k].attempts[m].approval]
    BY <1>3 DEF HeldAttemptsWait
  <2>3. new.attempts[n].approval \in DOMAIN approvals' /\ approvals'[new.attempts[n].approval] = ap
    BY <1>3, <1>4, <1>9
  <2>4. ASSUME NEW k \in Keys, autoRuns'[k] # NoRun, NEW m \in DOMAIN autoRuns'[k].attempts,
               autoRuns'[k].attempts[m].status = "awaiting_approval"
        PROVE  /\ autoRuns'[k].status = "awaiting_approval"
               /\ \A o \in DOMAIN autoRuns'[k].attempts :
                    autoRuns'[k].attempts[o].status = "awaiting_approval" => o = m
               /\ autoRuns'[k].attempts[m].approval \in DOMAIN approvals'
               /\ approvals'[autoRuns'[k].attempts[m].approval].index = autoRuns'[k].attempts[m].index
               /\ approvals'[autoRuns'[k].attempts[m].approval].status = "awaiting_approval"
    <3>1. CASE k = key
      <4>1. m = n /\ autoRuns'[k] = new
        BY <1>10, <2>1, <2>4, <3>1
      <4> QED
        BY <1>4, <1>6, <1>9, <1>13, <2>1, <2>3, <4>1
    <3>2. CASE k # key
      <4>1. autoRuns'[k] = autoRuns[k]
        BY <1>10, <3>2
      <4> QED
        BY <2>2, <2>4, <3>2, <4>1 DEF HeldAttemptsWait
    <3> QED
      BY <3>1, <3>2
  <2> QED
    BY <2>4 DEF HeldAttemptsWait
<1>19. ApprovalsMatch'
  <2>1. ASSUME NEW k \in Keys, autoRuns'[k] # NoRun, NEW m \in DOMAIN autoRuns'[k].attempts,
               autoRuns'[k].attempts[m].approval # NoApproval
        PROVE  /\ autoRuns'[k].attempts[m].approval \in DOMAIN approvals'
               /\ approvals'[autoRuns'[k].attempts[m].approval].key = k
    <3>1. CASE k = key /\ m = n
      BY <1>3, <1>4, <1>9, <1>10, <1>13, <3>1
    <3>2. CASE k = key /\ m # n
      <4>1. m \in DOMAIN a /\ autoRuns'[k].attempts[m] = a[m]
        BY <1>9, <1>10, <2>1, <3>2
      <4>2. a[m].approval \in DOMAIN approvals /\ approvals[a[m].approval].key = key
        BY <2>1, <4>1 DEF ApprovalsMatch, a
      <4> QED
        BY <1>3, <3>2, <4>1, <4>2
    <3>3. CASE k # key
      <4>1. autoRuns'[k] = autoRuns[k]
        BY <1>10, <3>3
      <4>2. /\ autoRuns[k].attempts[m].approval \in DOMAIN approvals
            /\ approvals[autoRuns[k].attempts[m].approval].key = k
        BY <2>1, <4>1 DEF ApprovalsMatch
      <4> QED
        BY <1>3, <4>1, <4>2
    <3> QED
      BY <3>1, <3>2, <3>3
  <2>2. ASSUME NEW q \in DOMAIN approvals', approvals'[q].status = "awaiting_approval"
        PROVE  /\ autoRuns'[approvals'[q].key] # NoRun
               /\ \E m \in DOMAIN autoRuns'[approvals'[q].key].attempts :
                    /\ autoRuns'[approvals'[q].key].attempts[m].approval = q
                    /\ autoRuns'[approvals'[q].key].attempts[m].status = "awaiting_approval"
    <3>1. CASE q = p
      BY <1>3, <1>4, <1>9, <1>10, <1>13, <3>1
    <3>2. CASE q \in DOMAIN approvals
      <4>1. approvals'[q] = approvals[q] /\ approvals[q].key \in Keys
        BY <1>3, <3>2, ElementsTyped
      <4>2. approvals[q].key # key
        BY <1>8, <2>2, <3>2, <4>1 DEF ApprovalsMatch, a
      <4> QED
        BY <1>10, <2>2, <3>2, <4>1, <4>2 DEF ApprovalsMatch
    <3> QED
      BY <1>3, <3>1, <3>2
  <2> QED
    BY <2>1, <2>2 DEF ApprovalsMatch
<1>20. ExecutingRuns'
  BY <1>7 DEF ExecutingRuns
<1>21. MessagesApproved'
  BY <1>3, <1>7 DEF MessagesApproved
<1> QED
  BY <1>14, <1>15, <1>16, <1>17, <1>18, <1>19, <1>20, <1>21

\* The run that executes takes its next action.
LEMMA RunActionHolds ==
    ASSUME IInv, NEW key \in Keys, RunAction(key)
    PROVE  IInv'
<1> USE DEF IInv
<1> DEFINE i == autoRuns[key].next
<1> DEFINE command == CommandFor(ActionsOf(key)[i], EventOf(key))
<1>1. executing = key /\ i <= Len(ActionsOf(key)) /\ UNCHANGED <<autoRules, arrived>>
  BY DEF RunAction
<1>2. key # Nobody /\ autoRuns[key] # NoRun /\ autoRuns[key].status = "running"
  BY <1>1, AutomationAssumption DEF ExecutingRuns
<1>3. autoRuns[key] \in Run /\ i \in Nat \ {0} /\ autoRuns[key].attempts \in Seq(AttemptRecord)
  BY <1>2 DEF TypeOK, Run
<1>4. command \in Commands \cup {"invalid"}
  BY <1>1, <1>3, ActionKnown
<1>5. \A n \in DOMAIN autoRuns[key].attempts : autoRuns[key].attempts[n].status # "awaiting_approval"
  BY <1>2, OnlyWaitingHolds
<1>6. Keeps(autoRuns[key].attempts, key)
  BY <1>2, KeepsSame
<1>7. ASSUME NEW status \in {"rejected", "dry_run"}, Noted(key, i, command, status, NoApproval),
             UNCHANGED <<approvals, remembered, effects>>
      PROVE  IInv'
  <2> DEFINE e == Attempt(i, command, status, NoApproval)
  <2> DEFINE new == NotedRun(key, i, e)
  <2>1. e \in AttemptRecord /\ ~Noting(e) /\ e.approval = NoApproval /\ e.status = status
    BY <1>3, <1>4 DEF Attempt, AttemptRecord, AttemptStatuses, Noting
  <2>2. /\ autoRuns' = [autoRuns EXCEPT ![key] = new] /\ new \in Run /\ new.next = i + 1
        /\ new.attempts = Append(autoRuns[key].attempts, e) /\ new.status = autoRuns[key].status
    <3> HIDE DEF i, command
    <3>1. /\ autoRuns' = [autoRuns EXCEPT ![key] = new] /\ new \in Run /\ new.next = i + 1
          /\ new.attempts = Append(autoRuns[key].attempts, e)
          /\ new.status = IF status = "awaiting_approval" THEN status ELSE autoRuns[key].status
      BY <1>2, <1>3, <1>7, <2>1, NotedIs
    <3> QED
      BY <3>1
  <2>3. executing' = key
    BY <1>7 DEF Noted
  <2> HIDE DEF new, e, command
  <2>4. Keeps(new.attempts, key)
    BY <1>3, <1>6, <2>1, <2>2, KeepsAppend
  <2>5. \A n \in DOMAIN new.attempts : new.attempts[n].status # "awaiting_approval"
    BY <1>3, <1>5, <2>1, <2>2, AppendIs
  <2>6. autoRuns[key].next <= new.next
    BY <1>3, <2>2
  <2> QED
    BY <1>1, <1>2, <1>7, <2>2, <2>3, <2>4, <2>5, <2>6, QuietRunHolds
<1>8. CASE command = "invalid"
  BY <1>7, <1>8 DEF RunAction
<1>9. CASE command \in Commands
  <2>1. Remembered(key, i, command) = {}
    <3>1. \A m \in remembered : m.index \in Nat
      BY DEF TypeOK, Memory
    <3>2. \A m \in remembered : m.key = key => m.index < i
      BY DEF NextIsNew
    <3> QED
      BY <1>3, <3>1, <3>2 DEF Remembered
  <2>2. \/ DryRun(key, i, command)
        \/ Hold(key, i, command)
        \/ ~Held(command, "automation") /\ Execute(key, i, command)
    BY <1>9, <2>1 DEF RunAction, RunCommand, Commands
  <2>3. CASE DryRun(key, i, command)
    BY <1>7, <2>3 DEF DryRun
  <2>4. CASE Hold(key, i, command)
    BY <1>1, <1>2, <1>9, <2>4, HoldHolds
  <2>5. CASE Execute(key, i, command) /\ ~Executes(command)
    BY <1>7, <2>5 DEF Execute
  <2>6. CASE Execute(key, i, command) /\ Executes(command) /\ ~Held(command, "automation")
    <3> DEFINE e == Attempt(i, command, "ok", NoApproval)
    <3> DEFINE new == NotedRun(key, i, e)
    <3> DEFINE n == Len(autoRuns[key].attempts) + 1
    <3> DEFINE done == [key |-> key, index |-> i, command |-> command, actor |-> "automation"]
    <3>1. /\ effects' = Append(effects, done) /\ Noted(key, i, command, "ok", NoApproval)
          /\ Remember(key, i, command, "ok", NoApproval) /\ UNCHANGED approvals
      BY <2>6 DEF Execute, Effect
    <3>2. e \in AttemptRecord /\ e.approval = NoApproval /\ e.status = "ok" /\ e.index = i
      BY <1>3, <1>9 DEF Attempt, AttemptRecord, AttemptStatuses
    <3>3. done \in EffectRecord /\ done.key = key /\ done.index = i /\ done.command = command
      BY <1>3, <1>9 DEF EffectRecord
    <3>4. command # "queueGuestMessage"
      BY <2>6 DEF Held, RequiresApproval
    <3>5. executing' = key
      BY <3>1 DEF Noted
    <3>6. /\ remembered' \subseteq Memory
          /\ \A m \in remembered' : m \in remembered \/ (m.key = key /\ m.index = i)
      BY <1>3, <1>9, <3>1 DEF Remember, TypeOK, Memory
    <3> HIDE DEF done, command
    <3>7. /\ autoRuns' = [autoRuns EXCEPT ![key] = new] /\ new \in Run /\ new.next = i + 1
          /\ new.attempts = Append(autoRuns[key].attempts, e) /\ new.status = autoRuns[key].status
      <4> HIDE DEF i
      <4>1. /\ autoRuns' = [autoRuns EXCEPT ![key] = new] /\ new \in Run /\ new.next = i + 1
            /\ new.attempts = Append(autoRuns[key].attempts, e)
            /\ new.status = IF "ok" = "awaiting_approval" THEN "ok" ELSE autoRuns[key].status
        BY <1>2, <1>3, <3>1, <3>2, NotedIs
      <4> QED
        BY <4>1
    <3> HIDE DEF new, e
    <3>8. /\ DOMAIN new.attempts = DOMAIN autoRuns[key].attempts \cup {n}
          /\ n \notin DOMAIN autoRuns[key].attempts /\ new.attempts[n] = e
          /\ \A m \in DOMAIN autoRuns[key].attempts : new.attempts[m] = autoRuns[key].attempts[m]
      BY <1>3, <3>2, <3>7, AppendIs
    <3>9. \A m \in DOMAIN new.attempts : new.attempts[m].status # "awaiting_approval"
      BY <1>5, <3>2, <3>8
    <3>10. \A m \in DOMAIN autoRuns[key].attempts :
                Noting(new.attempts[m]) => new.attempts[m].index # i
      <4>1. \A m \in DOMAIN autoRuns[key].attempts :
                Noting(autoRuns[key].attempts[m]) => autoRuns[key].attempts[m].index < i
        BY <1>2 DEF NextIsNew, Noting
      <4> QED
        BY <1>3, <3>8, <4>1
    <3>11. \A p \in DOMAIN approvals : approvals[p].key = key => approvals[p].status = "approved"
      <4>1. \A p \in DOMAIN approvals : approvals[p].status \in {"awaiting_approval", "approved"}
        <5>1. \A p \in DOMAIN approvals : approvals[p] \in Approval
          BY DEF TypeOK
        <5> QED
          BY <5>1 DEF Approval
      <4> QED
        BY <1>5, <4>1 DEF ApprovalsMatch
    <3>12. autoRuns[key].next <= new.next /\ i < new.next
      BY <1>3, <3>7
    <3>13. approvals' \in Seq(Approval)
      BY <3>1 DEF TypeOK
    <3> HIDE DEF n
    <3>14. /\ n \in DOMAIN new.attempts /\ new.attempts[n].status = "ok" /\ new.attempts[n].index = i
           /\ n \in DOMAIN autoRuns[key].attempts =>
                /\ autoRuns[key].attempts[n].status = "awaiting_approval"
                /\ autoRuns[key].attempts[n].approval = new.attempts[n].approval
           /\ n \notin DOMAIN autoRuns[key].attempts => new.attempts[n].approval = NoApproval
      BY <3>2, <3>8
    <3>15. \A m \in DOMAIN autoRuns[key].attempts : m # n =>
                /\ m \in DOMAIN new.attempts /\ new.attempts[m] = autoRuns[key].attempts[m]
                /\ Noting(new.attempts[m]) => new.attempts[m].index # i
      BY <3>8, <3>10
    <3>16. \A m \in DOMAIN new.attempts :
                /\ m # n
                /\ Noting(new.attempts[m]) \/ new.attempts[m].approval # NoApproval
                => m \in DOMAIN autoRuns[key].attempts
      BY <3>8
    <3>17. \A p \in DOMAIN approvals :
                /\ approvals'[p].key = approvals[p].key /\ approvals'[p].index = approvals[p].index
                /\ approvals[p].key # key => approvals'[p] = approvals[p]
                /\ approvals[p].key = key => approvals'[p].status = "approved"
      BY <3>1, <3>11
    <3>18. done.command = "queueGuestMessage" =>
                /\ done.actor = "user"
                /\ \E p \in DOMAIN approvals : approvals[p].key = key /\ approvals[p].index = i
      BY <3>3, <3>4
    <3>19. DOMAIN approvals' = DOMAIN approvals /\ (executing' = key /\ new.status = "running")
      BY <1>2, <3>1, <3>5, <3>7
    <3> HIDE DEF i
    <3>20. DoneStep(key, new, n, i, done)
      BY <1>1, <1>2, <3>1, <3>3, <3>6, <3>7, <3>9, <3>12, <3>13, <3>14, <3>15, <3>16, <3>17, <3>18,
         <3>19 DEF DoneStep
    <3> QED
      BY <1>3, <3>3, <3>7, <3>20, DoneHolds
  <2> QED
    BY <2>2, <2>3, <2>4, <2>5, <2>6
<1> QED
  BY <1>4, <1>8, <1>9

\* A run starts or goes on, when it holds nothing.
LEMMA ExecuteFromHolds ==
    ASSUME IInv, NEW key \in Keys, NEW run \in Run, executing = Nobody, ExecuteFrom(key, run),
           Keeps(run.attempts, key), autoRuns[key] # NoRun => autoRuns[key].next <= run.next,
           \A n \in DOMAIN run.attempts : run.attempts[n].status # "awaiting_approval",
           UNCHANGED <<autoRules, approvals, remembered, effects, arrived>>
    PROVE  IInv'
<1>1. CASE ScopeKnown(key)
  <2> DEFINE new == [run EXCEPT !.status = "running"]
  <2>1. new \in Run /\ new.attempts = run.attempts /\ new.next = run.next /\ new.status = "running"
    BY DEF Run, RunStatuses
  <2>2. autoRuns' = [autoRuns EXCEPT ![key] = new] /\ executing' = key
    BY <1>1 DEF ExecuteFrom
  <2> HIDE DEF new
  <2> QED
    BY <2>1, <2>2, QuietRunHolds
<1>2. CASE ~ScopeKnown(key)
  <2> DEFINE e == Attempt(run.next, "none", "rejected", NoApproval)
  <2> DEFINE new == [run EXCEPT !.status = "failed", !.attempts = Append(@, e)]
  <2>1. e \in AttemptRecord /\ ~Noting(e) /\ e.approval = NoApproval /\ e.status = "rejected"
    BY DEF Attempt, AttemptRecord, AttemptStatuses, Noting, Run
  <2>2. autoRuns' = [autoRuns EXCEPT ![key] = new] /\ executing' = Nobody
    BY <1>2 DEF ExecuteFrom
  <2>3. run.attempts \in Seq(AttemptRecord)
    BY DEF Run
  <2> HIDE DEF e
  <2>4. Append(run.attempts, e) \in Seq(AttemptRecord)
    BY <2>1, <2>3
  <2>5. new \in Run /\ new.attempts = Append(run.attempts, e) /\ new.next = run.next
    BY <2>4 DEF Run, RunStatuses
  <2> HIDE DEF new
  <2>6. Keeps(new.attempts, key)
    BY <2>1, <2>3, <2>5, KeepsAppend
  <2>7. \A n \in DOMAIN new.attempts : new.attempts[n].status # "awaiting_approval"
    BY <2>1, <2>3, <2>5, AppendIs
  <2> QED
    BY <2>2, <2>5, <2>6, <2>7, QuietRunHolds
<1> QED
  BY <1>1, <1>2

LEMMA FinishRunHolds ==
    ASSUME IInv, NEW key \in Keys, FinishRun(key)
    PROVE  IInv'
<1> DEFINE new == [autoRuns[key] EXCEPT !.status = Derived(autoRuns[key].attempts)]
<1>1. autoRuns[key] # NoRun /\ autoRuns[key].status = "running"
  BY AutomationAssumption DEF IInv, ExecutingRuns, FinishRun
<1>2. autoRuns[key] \in Run
  BY <1>1 DEF IInv, TypeOK
<1>3. \A n \in DOMAIN autoRuns[key].attempts : autoRuns[key].attempts[n].status # "awaiting_approval"
  BY <1>1, OnlyWaitingHolds DEF IInv
<1>4. Derived(autoRuns[key].attempts) \in RunStatuses
  BY DEF Derived, RunStatuses
<1>5. new \in Run /\ new.attempts = autoRuns[key].attempts /\ new.next = autoRuns[key].next
  BY <1>2, <1>4 DEF Run
<1>6. autoRuns' = [autoRuns EXCEPT ![key] = new] /\ executing' = Nobody
  BY <1>2 DEF FinishRun, IInv, TypeOK, Run
<1> HIDE DEF new
<1>7. autoRuns[key].next <= new.next
  BY <1>2, <1>5 DEF Run
<1>8. UNCHANGED <<autoRules, approvals, remembered, effects, arrived>>
  BY DEF FinishRun
<1>9. Keeps(new.attempts, key) /\ \A n \in DOMAIN new.attempts : new.attempts[n].status # "awaiting_approval"
  BY <1>1, <1>3, <1>5, KeepsSame
<1> QED
  BY <1>5, <1>6, <1>7, <1>8, <1>9, QuietRunHolds

\* A run that failed is found again, by an event or by whoever retries it.
LEMMA RetryHolds ==
    ASSUME IInv, NEW key \in Keys, executing = Nobody, autoRuns[key] # NoRun,
           autoRuns[key].status \in {"failed", "partial_failure"}, ExecuteFrom(key, autoRuns[key]),
           UNCHANGED <<autoRules, approvals, remembered, effects, arrived>>
    PROVE  IInv'
<1>1. autoRuns[key] \in Run /\ autoRuns[key].next <= autoRuns[key].next
  BY DEF IInv, TypeOK, Run
<1>2. \A n \in DOMAIN autoRuns[key].attempts : autoRuns[key].attempts[n].status # "awaiting_approval"
  BY OnlyWaitingHolds DEF IInv
<1> QED
  BY <1>1, <1>2, KeepsSame, ExecuteFromHolds

LEMMA FireHolds ==
    ASSUME IInv, NEW r \in Rules, NEW e \in DOMAIN Events, NEW dry \in BOOLEAN, Fire(r, e, dry)
    PROVE  IInv'
<1> DEFINE key == <<r, autoRules[r].version, e>>
<1> DEFINE new == [status |-> "succeeded", dry |-> dry, next |-> 1, attempts |-> <<>>]
<1>1. key \in Keys
  BY DEF IInv, TypeOK, Rule, Keys
<1>2. /\ new \in Run /\ new.attempts = <<>>
      /\ \A n \in DOMAIN new.attempts : new.attempts[n].status # "awaiting_approval"
  BY DEF Run, RunStatuses
<1>3. executing = Nobody /\ UNCHANGED <<autoRules, approvals, remembered, effects, arrived>>
  BY DEF Fire
<1>4. \/ autoRuns[key] = NoRun /\ ExecuteFrom(key, new)
      \/ autoRuns[key] = NoRun /\ autoRuns' = [autoRuns EXCEPT ![key] = new] /\ UNCHANGED executing
      \/ /\ autoRuns[key] # NoRun /\ autoRuns[key].status \in {"failed", "partial_failure"}
         /\ ExecuteFrom(key, autoRuns[key])
  BY DEF Fire
<1> HIDE DEF key, new
<1>5. CASE autoRuns[key] = NoRun /\ ExecuteFrom(key, new)
  BY <1>1, <1>2, <1>3, <1>5, KeepsNothing, ExecuteFromHolds
<1>6. CASE autoRuns[key] = NoRun /\ autoRuns' = [autoRuns EXCEPT ![key] = new] /\ UNCHANGED executing
  BY <1>1, <1>2, <1>3, <1>6, KeepsNothing, QuietRunHolds
<1>7. CASE /\ autoRuns[key] # NoRun /\ autoRuns[key].status \in {"failed", "partial_failure"}
           /\ ExecuteFrom(key, autoRuns[key])
  BY <1>1, <1>3, <1>7, RetryHolds
<1> QED
  BY <1>4, <1>5, <1>6, <1>7

\* An approval runs its command, and its run goes on with the attempt noted as ok.
LEMMA ApproveHolds ==
    ASSUME IInv, NEW a \in DOMAIN approvals, Approve(a)
    PROVE  IInv'
<1> USE DEF IInv
<1> DEFINE key == approvals[a].key
<1> DEFINE j == approvals[a].index
<1> DEFINE old == autoRuns[key].attempts
<1> DEFINE done == [key |-> key, index |-> j, command |-> approvals[a].command, actor |-> "user"]
<1>1. approvals[a] \in Approval /\ key \in Keys /\ j \in Nat \ {0} /\ a \in Nat
  <2>1. approvals[a] \in Approval /\ a \in Nat
    BY DEF TypeOK
  <2> QED
    BY <2>1 DEF Approval
<1>2. executing = Nobody /\ approvals[a].status = "awaiting_approval"
  BY DEF Approve, Awaiting
<1>3. autoRuns[key] # NoRun /\ autoRuns[key] \in Run /\ old \in Seq(AttemptRecord)
  BY <1>1, <1>2 DEF ApprovalsMatch, TypeOK, Run
<1>4. PICK n \in DOMAIN old : old[n].approval = a /\ old[n].status = "awaiting_approval"
  BY <1>2 DEF ApprovalsMatch
<1>5. /\ autoRuns[key].status = "awaiting_approval" /\ old[n].index = j
      /\ \A m \in DOMAIN old : old[m].status = "awaiting_approval" => m = n
  BY <1>1, <1>3, <1>4 DEF HeldAttemptsWait
<1>6. /\ approvals' = [approvals EXCEPT ![a].status = "approved"]
      /\ effects' = Append(effects, done)
      /\ UNCHANGED <<autoRules, remembered, arrived>>
  BY DEF Approve, Effect
<1>7. /\ approvals' \in Seq(Approval) /\ DOMAIN approvals' = DOMAIN approvals
      /\ \A p \in DOMAIN approvals : p # a => approvals'[p] = approvals[p]
      /\ approvals'[a].key = key /\ approvals'[a].index = j /\ approvals'[a].status = "approved"
  <2> DEFINE approved == [approvals[a] EXCEPT !.status = "approved"]
  <2>1. approved \in Approval /\ approved.key = key /\ approved.index = j /\ approved.status = "approved"
    BY <1>1 DEF Approval
  <2>2. approvals' = [approvals EXCEPT ![a] = approved]
    BY <1>1, <1>6 DEF Approval
  <2> HIDE DEF approved
  <2> QED
    BY <2>1, <2>2 DEF TypeOK
<1>8. done \in EffectRecord /\ done.key = key /\ done.index = j /\ done.actor = "user"
  BY <1>1 DEF EffectRecord, Approval
<1> HIDE DEF done
<1> DEFINE resumed == Resumed(old)
<1>9. /\ resumed \in Seq(AttemptRecord) /\ DOMAIN resumed = DOMAIN old
      /\ resumed[n].status = "ok" /\ resumed[n].index = j /\ resumed[n].approval = a
      /\ \A m \in DOMAIN old : m # n => resumed[m] = old[m]
  <2> DEFINE ok == [old[n] EXCEPT !.status = "ok"]
  <2>1. \A m \in DOMAIN old : old[m] \in AttemptRecord
    BY <1>3
  <2>2. ok \in AttemptRecord /\ ok.status = "ok" /\ ok.index = j /\ ok.approval = a
    BY <1>4, <1>5, <2>1 DEF AttemptRecord, AttemptStatuses
  <2>3. DOMAIN resumed = DOMAIN old
    BY DEF Resumed
  <2>4. resumed[n] = ok
    BY <1>4, <1>7 DEF Resumed
  <2>5. \A m \in DOMAIN old : m # n => resumed[m] = old[m]
    BY <1>5 DEF Resumed
  <2>6. resumed \in Seq(AttemptRecord)
    <3>1. \A m \in DOMAIN old : resumed[m] \in AttemptRecord
      BY <2>1, <2>2, <2>4, <2>5
    <3>2. DOMAIN old = 1..Len(old) /\ Len(old) \in Nat
      BY <1>3
    <3>3. resumed = [m \in 1..Len(old) |-> resumed[m]]
      BY <3>2 DEF Resumed
    <3> HIDE DEF resumed, old
    <3> QED
      BY <3>1, <3>2, <3>3
  <2> HIDE DEF ok
  <2> QED
    BY <2>2, <2>3, <2>4, <2>5, <2>6
<1>10. \A m \in DOMAIN resumed : resumed[m].status # "awaiting_approval"
  BY <1>5, <1>9
<1> DEFINE run == [autoRuns[key] EXCEPT !.attempts = resumed]
<1>11. ExecuteFrom(key, run)
  <2>1. Waits(key, a)
    BY <1>3, <1>4, <1>5 DEF Waits
  <2>2. PICK k \in Keys : Waits(k, a) /\ ExecuteFrom(k, [autoRuns[k] EXCEPT !.attempts = Resumed(@)])
    BY <1>1, <2>1 DEF Approve
  <2>3. k = key
    <3>1. a # NoApproval
      BY <1>1, AutomationAssumption
    <3> QED
      BY <2>2, <3>1 DEF Waits, ApprovalsMatch
  <2>4. [autoRuns[key] EXCEPT !.attempts = Resumed(@)] = run
    BY <1>3 DEF Run
  <2> HIDE DEF run, resumed, old
  <2> QED
    BY <2>2, <2>3, <2>4
<1> HIDE DEF resumed
<1>12. run \in Run /\ run.attempts = resumed /\ run.next = autoRuns[key].next
  BY <1>3, <1>9 DEF Run
<1> HIDE DEF run
\* The run goes on, or fails with one more attempt.
<1>13. \E new \in Run :
        /\ autoRuns' = [autoRuns EXCEPT ![key] = new] /\ new.next = autoRuns[key].next
        /\ executing' = Nobody \/ (executing' = key /\ new.status = "running")
        /\ \A m \in DOMAIN resumed : m \in DOMAIN new.attempts /\ new.attempts[m] = resumed[m]
        /\ \A m \in DOMAIN new.attempts : m \notin DOMAIN resumed =>
            /\ ~Noting(new.attempts[m])
            /\ new.attempts[m].approval = NoApproval
  <2>1. CASE ScopeKnown(key)
    <3> DEFINE new == [run EXCEPT !.status = "running"]
    <3>1. new \in Run /\ new.attempts = resumed /\ new.next = run.next /\ new.status = "running"
      BY <1>12 DEF Run, RunStatuses
    <3>2. autoRuns' = [autoRuns EXCEPT ![key] = new] /\ executing' = key
      BY <1>11, <2>1 DEF ExecuteFrom
    <3> HIDE DEF new
    <3> QED
      BY <1>12, <3>1, <3>2
  <2>2. CASE ~ScopeKnown(key)
    <3> DEFINE e == Attempt(run.next, "none", "rejected", NoApproval)
    <3> DEFINE new == [run EXCEPT !.status = "failed", !.attempts = Append(@, e)]
    <3>1. e \in AttemptRecord /\ ~Noting(e) /\ e.approval = NoApproval
      BY <1>12 DEF Attempt, AttemptRecord, AttemptStatuses, Noting, Run
    <3>2. autoRuns' = [autoRuns EXCEPT ![key] = new] /\ executing' = Nobody
      BY <1>2, <1>11, <2>2 DEF ExecuteFrom
    <3> HIDE DEF e
    <3>3. Append(resumed, e) \in Seq(AttemptRecord)
      BY <1>9, <3>1
    <3>4. new \in Run /\ new.attempts = Append(resumed, e) /\ new.next = run.next
      BY <1>12, <3>3 DEF Run, RunStatuses
    <3> HIDE DEF new
    <3>5. /\ \A m \in DOMAIN resumed : m \in DOMAIN new.attempts /\ new.attempts[m] = resumed[m]
          /\ \A m \in DOMAIN new.attempts : m \notin DOMAIN resumed =>
                ~Noting(new.attempts[m]) /\ new.attempts[m].approval = NoApproval
      BY <1>9, <3>1, <3>4, AppendIs
    <3> QED
      BY <1>12, <3>2, <3>4, <3>5
  <2> QED
    BY <2>1, <2>2
<1>14. PICK new \in Run :
        /\ autoRuns' = [autoRuns EXCEPT ![key] = new] /\ new.next = autoRuns[key].next
        /\ executing' = Nobody \/ (executing' = key /\ new.status = "running")
        /\ \A m \in DOMAIN resumed : m \in DOMAIN new.attempts /\ new.attempts[m] = resumed[m]
        /\ \A m \in DOMAIN new.attempts : m \notin DOMAIN resumed =>
            /\ ~Noting(new.attempts[m])
            /\ new.attempts[m].approval = NoApproval
  BY <1>13
<1>15. \A p \in DOMAIN approvals :
        /\ approvals'[p].key = approvals[p].key /\ approvals'[p].index = approvals[p].index
        /\ approvals[p].key # key => approvals'[p] = approvals[p]
        /\ approvals[p].key = key => approvals'[p].status = "approved"
  <2>1. \A p \in DOMAIN approvals : approvals[p].status \in {"awaiting_approval", "approved"}
    <3>1. \A p \in DOMAIN approvals : approvals[p] \in Approval
      BY DEF TypeOK
    <3> QED
      BY <3>1 DEF Approval
  <2>2. \A p \in DOMAIN approvals : approvals[p].key = key /\ p # a => approvals[p].status = "approved"
    BY <1>4, <1>5, <2>1 DEF ApprovalsMatch
  <2> QED
    BY <1>7, <2>2
<1>16. \A m \in DOMAIN old : m # n /\ Noting(old[m]) => old[m].index # j
  BY <1>1, <1>3, <1>4, <1>5 DEF DoneOnce, Noting
<1>17. old[n].index < autoRuns[key].next /\ autoRuns[key].next \in Nat
  BY <1>1, <1>3, <1>4 DEF NextIsNew, Run
<1> HIDE DEF old, j, key
<1>18. \A m \in DOMAIN new.attempts : new.attempts[m].status # "awaiting_approval"
  BY <1>10, <1>14 DEF Noting
<1>19. /\ n \in DOMAIN new.attempts
       /\ new.attempts[n].status = "ok" /\ new.attempts[n].index = j /\ new.attempts[n].approval = a
  BY <1>4, <1>9, <1>14
<1>20. \A m \in DOMAIN old : m # n =>
        /\ m \in DOMAIN new.attempts /\ new.attempts[m] = old[m]
        /\ Noting(new.attempts[m]) => new.attempts[m].index # j
  BY <1>9, <1>14, <1>16
<1>21. \A m \in DOMAIN new.attempts :
        /\ m # n
        /\ Noting(new.attempts[m]) \/ new.attempts[m].approval # NoApproval
        => m \in DOMAIN old
  BY <1>9, <1>14
<1>22. autoRuns[key].next <= new.next /\ j < new.next
  BY <1>5, <1>14, <1>17
<1>23. remembered' \subseteq Memory /\ \A m \in remembered' : m \in remembered
  BY <1>6 DEF TypeOK
<1>24. \E p \in DOMAIN approvals : approvals[p].key = key /\ approvals[p].index = j
  BY DEF key, j
<1>25. DoneStep(key, new, n, j, done)
  <2>1. /\ n \in DOMAIN old => old[n].status = "awaiting_approval" /\ old[n].approval = new.attempts[n].approval
        /\ n \notin DOMAIN old => new.attempts[n].approval = NoApproval
    BY <1>4, <1>19
  <2> QED
    BY <1>3, <1>6, <1>7, <1>8, <1>14, <1>15, <1>18, <1>19, <1>20, <1>21, <1>22, <1>23, <1>24, <2>1
    DEF DoneStep, old
<1> QED
  BY <1>1, <1>8, <1>14, <1>25, DoneHolds

LEMMA StepHolds ==
    ASSUME IInv, [AutoNext]_autoVars
    PROVE  IInv'
<1>1. ASSUME NEW key \in Keys, RunAction(key)
      PROVE  IInv'
  BY <1>1, RunActionHolds
<1>2. ASSUME NEW key \in Keys, FinishRun(key)
      PROVE  IInv'
  BY <1>2, FinishRunHolds
<1>3. ASSUME NEW key \in Keys, Retry(key)
      PROVE  IInv'
  BY <1>3, RetryHolds DEF Retry
<1>4. ASSUME NEW r \in Rules, NEW e \in DOMAIN Events, NEW dry \in BOOLEAN, Fire(r, e, dry)
      PROVE  IInv'
  BY <1>4, FireHolds
<1>5. ASSUME NEW a \in DOMAIN approvals, Approve(a)
      PROVE  IInv'
  BY <1>5, ApproveHolds
<1>6. ASSUME NEW r \in Rules, NEW form \in Forms, NEW active \in BOOLEAN, UpdateRule(r, form, active)
      PROVE  IInv'
  <2> DEFINE rule == [version |-> autoRules[r].version + 1, form |-> form, active |-> active]
  <2>1. rule \in Rule
    <3>1. autoRules[r].version \in 1..MaxVersion /\ autoRules[r].version < MaxVersion
      BY <1>6 DEF UpdateRule, IInv, TypeOK, Rule
    <3>2. autoRules[r].version + 1 \in 1..MaxVersion
      BY <3>1, AutomationAssumption
    <3> QED
      BY <3>2, AutomationAssumption DEF Rule
  <2>2. autoRules' = [autoRules EXCEPT ![r] = rule]
    BY <1>6 DEF UpdateRule
  <2> HIDE DEF rule
  <2>3. TypeOK'
    BY <1>6, <2>1, <2>2 DEF UpdateRule, IInv, TypeOK
  <2> QED
    BY <1>6, <2>3, SMTT(30) DEF UpdateRule, IInv, NextIsNew, DoneOnce, DoneIsNoted, HeldAttemptsWait,
                      ApprovalsMatch, ExecutingRuns, MessagesApproved
<1>7. CASE Arrive
  BY <1>7, SMTT(30) DEF Arrive, IInv, TypeOK, NextIsNew, DoneOnce, DoneIsNoted, HeldAttemptsWait,
              ApprovalsMatch, ExecutingRuns, MessagesApproved
<1>8. CASE UNCHANGED autoVars
  BY <1>8, SMTT(30) DEF autoVars, IInv, TypeOK, NextIsNew, DoneOnce, DoneIsNoted, HeldAttemptsWait,
              ApprovalsMatch, ExecutingRuns, MessagesApproved
<1> QED
  BY <1>1, <1>2, <1>3, <1>4, <1>5, <1>6, <1>7, <1>8 DEF AutoNext, Step

-----------------------------------------------------------------------------
(* The theorems.                                                           *)

LEMMA Invariant == AutoSpec => []IInv
BY InitHolds, StepHolds, PTL DEF AutoSpec

\* A message to a guest is queued by a user who approved that very action (requiresApproval and
\* shouldAwaitApproval in run.ts), whatever rules, events and edits of rules there are.
THEOREM MessagesNeedApproval == AutoSpec => []MessagesApproved
<1>1. IInv => MessagesApproved
  BY DEF IInv
<1> QED
  BY <1>1, Invariant, PTL

\* A set without two different elements has at most one.
LEMMA OneAtMost ==
    ASSUME NEW S, \A x, y \in S : x = y
    PROVE  Cardinality(S) = IF S = {} THEN 0 ELSE 1
<1>1. CASE S = {}
  BY <1>1, FS_EmptySet
<1>2. CASE S # {}
  <2>1. PICK x : S = {x}
    BY <1>2
  <2> QED
    BY <2>1, FS_Singleton
<1> QED
  BY <1>1, <1>2

\* However a run is fired, held, approved, edited and retried, the history of its attempts tells
\* what was done: as many effects of an action as attempts of it noted as ok (runCommand,
\* executeFrom, resumeAutomationRun, approveHeldAction).
THEOREM HistoryStaysTrue == AutoSpec => []HistoryTellsEffects
<1>1. IInv => HistoryTellsEffects
  <2> SUFFICES ASSUME IInv, NEW key \in Keys, NEW i \in 1..MaxAttempts
               PROVE  LET done == {n \in DOMAIN effects : effects[n].key = key /\ effects[n].index = i}
                          noted == {n \in DOMAIN autoRuns[key].attempts :
                                        autoRuns[key].attempts[n].index = i
                                        /\ autoRuns[key].attempts[n].status = "ok"}
                      IN  Cardinality(done) = IF autoRuns[key] = NoRun THEN 0 ELSE Cardinality(noted)
    BY DEF HistoryTellsEffects
  <2> DEFINE done == {n \in DOMAIN effects : effects[n].key = key /\ effects[n].index = i}
  <2> DEFINE noted == {n \in DOMAIN autoRuns[key].attempts :
                         autoRuns[key].attempts[n].index = i /\ autoRuns[key].attempts[n].status = "ok"}
  <2> USE DEF IInv
  <2>1. \A n, m \in done : n = m
    BY DEF DoneOnce
  <2>2. CASE autoRuns[key] = NoRun
    <3>1. done = {}
      BY <2>2 DEF NextIsNew
    <3> QED
      BY <2>2, <3>1, FS_EmptySet
  <2>3. CASE autoRuns[key] # NoRun
    <3>1. \A n, m \in noted : n = m
      BY <2>3 DEF DoneOnce
    <3>2. done = {} <=> noted = {}
      BY <2>3 DEF DoneIsNoted
    <3> HIDE DEF done, noted
    <3>3. Cardinality(done) = Cardinality(noted)
      BY <2>1, <3>1, <3>2, OneAtMost
    <3> QED
      BY <2>3, <3>3 DEF done, noted
  <2> QED
    BY <2>2, <2>3
<1> QED
  BY <1>1, Invariant, PTL

\* No action of a run is done twice, and what waits for an approval is the only attempt of its run
\* that does (runCommand's keys, and the break of executeFrom at a held action).
THEOREM ActionsDoneOnce == AutoSpec => [](DoneOnce /\ HeldAttemptsWait)
<1>1. IInv => DoneOnce /\ HeldAttemptsWait
  BY DEF IInv
<1> QED
  BY <1>1, Invariant, PTL
=============================================================================
