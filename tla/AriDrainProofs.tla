----------------------------- MODULE AriDrainProofs -----------------------------
(***************************************************************************)
(* Proofs about AriOutbox and SyncHealth that rest on how drains are run:  *)
(* the worker asks for one and awaits its answer before it asks again.     *)
(* Nothing serialises a drain that a session asks for beside it, and for   *)
(* two at once none of the theorems below holds: the hypothesis OneDrain   *)
(* names what they need.                                                   *)
(***************************************************************************)
EXTENDS SyncHealth, AriOutboxProofs, FiniteSetTheorems

\* runHttpWorkerCycle awaits the answer of each drain before it asks for the next.
OneDrain == \A r, s \in Runs : r = s
\* ... and a manager awaits the answer of a command before the next one.
OneRequest == \A c, d \in Clients : c = d

-----------------------------------------------------------------------------
(* How the steps change the statuses.                                      *)

\* Each update names the objects it touches; the others keep what they have.
LEMMA Touched ==
    ASSUME IInv, NEW j \in DOMAIN intents
    PROVE  /\ \A S, s : /\ WithStatus(S, s)[j].status = IF j \in S THEN s ELSE intents[j].status
                        /\ WithStatus(S, s)[j].tasked = intents[j].tasked
           /\ \A i : /\ WithRetry(i)[j].status = IF j = i THEN "retry" ELSE intents[j].status
                     /\ WithRetry(i)[j].tasked = intents[j].tasked
           /\ \A i, s : /\ WithTask(i, s)[j].status = IF j = i THEN s ELSE intents[j].status
                        /\ j # i => WithTask(i, s)[j] = intents[j]
<1>1. intents \in Seq(Intent) /\ intents[j] \in Intent
  BY DEF IInv, TypeOK
<1>2. ASSUME NEW S, NEW s
      PROVE  /\ WithStatus(S, s)[j].status = IF j \in S THEN s ELSE intents[j].status
             /\ WithStatus(S, s)[j].tasked = intents[j].tasked
  BY <1>1 DEF WithStatus, Intent
<1>3. ASSUME NEW i
      PROVE  /\ WithRetry(i)[j].status = IF j = i THEN "retry" ELSE intents[j].status
             /\ WithRetry(i)[j].tasked = intents[j].tasked
  BY <1>1 DEF WithRetry, Intent
<1>4. ASSUME NEW i, NEW s
      PROVE  /\ WithTask(i, s)[j].status = IF j = i THEN s ELSE intents[j].status
             /\ j # i => WithTask(i, s)[j] = intents[j]
  BY <1>1 DEF WithTask, Intent
<1> QED
  BY <1>2, <1>3, <1>4

\* What superseding cancels could still be sent: cancelQueuedIntent throws otherwise.
LEMMA CancelledSendable ==
    ASSUME IInv, NEW cmd
    PROVE  /\ Unfindable(cmd) = {} =>
                \A i \in Superseded(cmd) : HasStatus(FoundById(i), SENDABLE)
           /\ \A i \in Superseded(cmd) : Unfindable(cmd) # {} /\ i < SetMin(Unfindable(cmd)) =>
                HasStatus(FoundById(i), SENDABLE)
<1>1. Unfindable(cmd) \subseteq Superseded(cmd) /\ Superseded(cmd) \subseteq Nat
  BY DEF Unfindable, Superseded, Live, IInv, TypeOK
<1>2. \A i \in Superseded(cmd) : ~HasStatus(FoundById(i), SENDABLE) => i \in Unfindable(cmd)
  BY DEF Unfindable
<1>3. ASSUME NEW i \in Superseded(cmd), Unfindable(cmd) # {}, i < SetMin(Unfindable(cmd))
      PROVE  HasStatus(FoundById(i), SENDABLE)
  <2>1. \A y \in Unfindable(cmd) : SetMin(Unfindable(cmd)) <= y
    BY <1>1, <1>3, SetMinIn
  <2>2. SetMin(Unfindable(cmd)) \in Nat
    BY <1>1, <1>3, SetMinIn
  <2>3. i \notin Unfindable(cmd)
    BY <1>1, <1>3, <2>1, <2>2
  <2> QED
    BY <1>2, <2>3
<1> QED
  BY <1>2, <1>3

\* What the rest of the program does to an object a drain may be at: it cancels one
\* that could still be sent, and nothing else.
CancelsOnly ==
    /\ DOMAIN intents \subseteq DOMAIN intents'
    /\ \A i \in DOMAIN intents :
          /\ intents'[i].tasked = intents[i].tasked
          /\ \/ intents'[i].status = intents[i].status
             \/ HasStatus(i, SENDABLE) /\ intents'[i].status = "cancelled"

LEMMA CommandCancels ==
    ASSUME IInv, NEW c \in Clients, NEW cmd \in Commands,
           EnqueueNew(c, cmd) \/ EnqueueKnown(c, cmd) \/ SupersedeConflict(c, cmd)
    PROVE  CancelsOnly
<1>1. ASSUME NEW S, \A i \in S : HasStatus(i, SENDABLE), NEW j \in DOMAIN intents
      PROVE  /\ WithStatus(S, "cancelled")[j].tasked = intents[j].tasked
             /\ \/ WithStatus(S, "cancelled")[j].status = intents[j].status
                \/ HasStatus(j, SENDABLE) /\ WithStatus(S, "cancelled")[j].status = "cancelled"
  BY <1>1, Touched
<1> DEFINE all == {FoundById(i) : i \in Superseded(cmd)}
           some == {FoundById(i) : i \in {j \in Superseded(cmd) : j < SetMin(Unfindable(cmd))}}
<1>2. Unfindable(cmd) = {} => \A i \in all : HasStatus(i, SENDABLE)
  BY CancelledSendable
<1>3. Unfindable(cmd) # {} => \A i \in some : HasStatus(i, SENDABLE)
  BY CancelledSendable
<1> HIDE DEF all, some
<1>4. CASE EnqueueNew(c, cmd)
  <2> DEFINE new == [cmd |-> cmd, id |-> nextId, status |-> "queued",
                     backoff |-> FALSE, tasked |-> FALSE, live |-> TRUE]
  <2>1. intents' = Append(WithStatus(all, "cancelled"), new) /\ Unfindable(cmd) = {}
    BY <1>4 DEF EnqueueNew, CancelAll, all
  <2>2. /\ WithStatus(all, "cancelled") \in Seq(Intent)
        /\ DOMAIN WithStatus(all, "cancelled") = DOMAIN intents
    BY CancelAllType
  <2> HIDE DEF new
  <2>3. /\ DOMAIN intents \subseteq DOMAIN intents'
        /\ \A i \in DOMAIN intents : intents'[i] = WithStatus(all, "cancelled")[i]
    BY <2>1, <2>2
  <2> QED
    BY <1>1, <1>2, <2>1, <2>3 DEF CancelsOnly
<1>5. CASE EnqueueKnown(c, cmd)
  <2>1. intents' = WithStatus(all, "cancelled") /\ Unfindable(cmd) = {}
    BY <1>5 DEF EnqueueKnown, CancelAll, all
  <2> QED
    BY <1>1, <1>2, <2>1, CancelAllType DEF CancelsOnly
<1>6. CASE SupersedeConflict(c, cmd)
  <2>1. intents' = WithStatus(some, "cancelled") /\ Unfindable(cmd) # {}
    BY <1>6 DEF SupersedeConflict, some
  <2> QED
    BY <1>1, <1>3, <2>1, CancelAllType DEF CancelsOnly
<1> QED
  BY <1>4, <1>5, <1>6

LEMMA OthersCancelOnly ==
    ASSUME IInv, Command \/ Request \/ Hydrate \/ Environment \/ UNCHANGED vars
    PROVE  CancelsOnly /\ UNCHANGED run
<1>0. intents \in Seq(Intent) /\ \A i \in DOMAIN intents : intents[i] \in Intent
  BY DEF IInv, TypeOK
<1>1. ASSUME intents' = intents PROVE CancelsOnly
  BY <1>1 DEF CancelsOnly
<1>2. ASSUME NEW i, NEW v, \/ intents' = [intents EXCEPT ![i].id = v]
                           \/ intents' = [intents EXCEPT ![i].live = v]
                           \/ intents' = [intents EXCEPT ![i].backoff = v]
      PROVE  CancelsOnly
  BY <1>0, <1>2, SMTT(30) DEF CancelsOnly, Intent
<1>3. ASSUME NEW cmd \in Commands, HydrateRow(cmd) PROVE CancelsOnly
  <2>1. PICK o : intents' = Append(intents, o)
    BY <1>3 DEF HydrateRow
  <2>2. DOMAIN intents \subseteq DOMAIN intents' /\ \A i \in DOMAIN intents : intents'[i] = intents[i]
    BY <1>0, <2>1
  <2> QED
    BY <2>2 DEF CancelsOnly
<1>4. CASE Command
  BY <1>4, CommandCancels, ZenonT(40) DEF Command, EnqueueNew, EnqueueKnown, SupersedeConflict, Ask
<1>5. CASE Request
  BY <1>2, <1>5 DEF Request, PersistOk, PersistFails
<1>6. CASE Hydrate
  BY <1>1, <1>3, <1>6 DEF Hydrate, HydrateRow, HydrateDone, HydrateFails
<1>7. CASE Environment
  BY <1>1, <1>2, <1>7 DEF Environment, BackoffExpires, ExternalEdit, PullChanges, memory
<1>8. CASE UNCHANGED vars
  BY <1>1, <1>8 DEF vars, memory
<1> QED
  BY <1>4, <1>5, <1>6, <1>7, <1>8

-----------------------------------------------------------------------------
(* What a drain may rely on when no other runs beside it.                  *)

\* The intent it awaits an answer for is in the status it gave it, and what it has
\* picked is still to send or was cancelled.  An answer is for that intent only then:
\* of two drains the second may have settled it meanwhile.
AtWork(locals, store) ==
    /\ locals.pc \in {"resumeGet", "verifyGet"} => store[locals.cur].status = "reconciling"
    /\ locals.pc = "post" => store[locals.cur].status = "sending"
    /\ locals.cur # 0 => locals.pc \in {"resumeGet", "post", "verifyGet"}
    /\ \A i \in locals.toSend : store[i].status \in SENDABLE \cup {"cancelled"}
DrainsAtWork == \A r \in Runs : AtWork(run[r], intents)

LEMMA IdleAtWork == ASSUME NEW store PROVE AtWork(Idle, store)
BY DEF AtWork, Idle

LEMMA CancelsKeepWork ==
    ASSUME IInv, DrainsAtWork, CancelsOnly, UNCHANGED run
    PROVE  DrainsAtWork'
<1> SUFFICES ASSUME NEW r \in Runs PROVE AtWork(run[r], intents')
  BY DEF DrainsAtWork
<1>1. AtWork(run[r], intents) /\ Refs(run[r], DOMAIN intents)
  BY DEF DrainsAtWork, IInv, RefsOK
<1>2. run[r].toSend \subseteq DOMAIN intents
  BY DEF IInv, TypeOK, RunState
<1>3. \A i \in DOMAIN intents :
        \/ intents'[i].status = intents[i].status
        \/ intents[i].status \in {"queued", "retry"} /\ intents'[i].status = "cancelled"
  BY DEF CancelsOnly, HasStatus, SENDABLE
<1> QED
  BY <1>1, <1>2, <1>3 DEF AtWork, Refs, SENDABLE

\* What each step of a drain does to the statuses: the edges of the diagram.
Edge(r, i) ==
    \/ run[r].pc = "resume" /\ i \in ToResume(r) /\ intents'[i].status \in {"failed", "reconciling"}
    \/ run[r].pc = "resumeGet" /\ i = run[r].cur /\ intents'[i].status \in {"reconciled", "drifted", "retry"}
    \/ run[r].pc = "property" /\ HasStatus(i, SENDABLE) /\ intents'[i].status = "cancelled"
    \/ run[r].pc = "send" /\ i \in run[r].toSend /\ intents'[i].status \in {"failed", "sending"}
    \/ run[r].pc = "post" /\ i = run[r].cur /\ intents'[i].status \in {"reconciling", "partial", "retry", "failed"}
    \/ run[r].pc = "verifyGet" /\ i = run[r].cur /\ intents'[i].status \in {"reconciled", "drifted", "accepted"}

LEMMA DrainEdges ==
    ASSUME IInv, NEW r \in Runs, StartDrain(r) \/ Answered(r), NEW i \in DOMAIN intents
    PROVE  intents'[i].status = intents[i].status \/ Edge(r, i)
<1>1. ASSUME ResumeNext(r) PROVE intents'[i].status = intents[i].status \/ Edge(r, i)
  <2>1. SetMin(ToResume(r)) \in ToResume(r)
    <3>1. ToResume(r) \subseteq Nat /\ ToResume(r) # {}
      BY <1>1 DEF ToResume, RunState, ResumeNext, IInv, TypeOK
    <3> QED
      BY <3>1, SetMinIn
  <2> QED
    BY <1>1, <2>1, Touched DEF ResumeNext, Edge
<1>2. ASSUME ResumeGetOk(r) \/ ResumeGetFails(r) \/ VerifyOk(r) \/ VerifyFails(r)
      PROVE  intents'[i].status = intents[i].status \/ Edge(r, i)
  BY <1>2, Touched DEF ResumeGetOk, ResumeGetFails, VerifyOk, VerifyFails, Reading, Compared, Edge
<1>3. ASSUME PickProperty(r) PROVE intents'[i].status = intents[i].status \/ Edge(r, i)
  <2> DEFINE cand == Candidates(r, SetMin(run[r].props))
  <2>1. run[r].pc = "property" /\ intents' = WithStatus(cand \ PickedOf(cand), "cancelled")
    BY <1>3 DEF PickProperty
  <2>2. intents'[i].status = IF i \in cand \ PickedOf(cand) THEN "cancelled" ELSE intents[i].status
    BY <2>1, Touched
  <2>3. i \in cand => HasStatus(i, SENDABLE)
    BY DEF Candidates
  <2> QED
    BY <2>1, <2>2, <2>3 DEF Edge
<1>4. ASSUME NEW j \in run[r].toSend, SendNext(r, j)
      PROVE  intents'[i].status = intents[i].status \/ Edge(r, i)
  BY <1>4, Touched DEF SendNext, Edge
<1>5. ASSUME PostOk(r) \/ PostPartial(r) \/ PostUnknown(r) \/ PostRefused(r)
      PROVE  intents'[i].status = intents[i].status \/ Edge(r, i)
  BY <1>5, Touched DEF PostOk, PostPartial, PostUnknown, PostRefused, PostReturns, Reading, Edge
<1>6. ASSUME \/ StartDrain(r) \/ ResumeDone(r) \/ SendDone(r) \/ DrainDone(r) \/ BookingsDone(r)
             \/ PersistNext(r) \/ PersistLoopDone(r) \/ PersistRowOk(r) \/ PersistRowFails(r)
      PROVE  intents' = intents
  BY <1>6 DEF StartDrain, ResumeDone, SendDone, DrainDone, BookingsDone, PersistNext,
       PersistLoopDone, PersistRowOk, PersistRowFails
<1> QED
  BY <1>1, <1>2, <1>3, <1>4, <1>5, <1>6 DEF Answered

LEMMA ResumeNextWork ==
    ASSUME IInv, NEW r \in Runs, AtWork(run[r], intents), ResumeNext(r)
    PROVE  AtWork(run'[r], intents')
<1> DEFINE i == SetMin(ToResume(r))
           next == [run[r] EXCEPT !.at = i, !.processed = TRUE]
           reading == [next EXCEPT !.pc = "resumeGet", !.cur = i]
<1>1. run[r] \in RunState(DOMAIN intents) /\ run \in [Runs -> RunState(DOMAIN intents)]
  BY DEF IInv, TypeOK
<1>2. i \in ToResume(r)
  <2>1. ToResume(r) \subseteq Nat /\ ToResume(r) # {}
    BY DEF ToResume, RunState, ResumeNext, IInv, TypeOK
  <2> QED
    BY <2>1, SetMinIn
<1>3. i \in DOMAIN intents /\ intents[i].status \in {"accepted", "partial", "reconciling"}
  BY <1>1, <1>2 DEF ToResume, RunState, HasStatus, RESUME_STATUSES
<1> HIDE DEF i
<1>4. /\ next.pc = "resume" /\ next.cur = run[r].cur /\ next.toSend = run[r].toSend
      /\ reading.pc = "resumeGet" /\ reading.cur = i /\ reading.toSend = run[r].toSend
  BY <1>1 DEF ResumeNext, RunState
<1>5. \/ run'[r] = next
      \/ run'[r] = reading /\ intents' = WithStatus({i}, "reconciling")
  BY <1>1 DEF ResumeNext, Keep, Await, i
<1> HIDE DEF next, reading
<1>6. \A j \in run[r].toSend : intents'[j].status = intents[j].status
  <2> SUFFICES ASSUME NEW j \in run[r].toSend PROVE intents'[j].status = intents[j].status
    OBVIOUS
  <2>1. j \in DOMAIN intents /\ j # i
    BY <1>1, <1>3 DEF RunState, AtWork, SENDABLE
  <2>2. \E s : intents' = WithStatus({i}, s)
    BY DEF ResumeNext, i
  <2> QED
    BY <2>1, <2>2, Touched
<1>7. run'[r] = reading => intents'[i].status = "reconciling"
  BY <1>3, <1>4, <1>5, Touched
<1>8. run[r].pc = "resume"
  BY DEF ResumeNext
<1> QED
  BY <1>4, <1>5, <1>6, <1>7, <1>8 DEF AtWork

\* An answer is for an intent that is not among those still to send.
LEMMA AnswerWork ==
    ASSUME IInv, NEW r \in Runs, AtWork(run[r], intents),
           run[r].pc \in {"resumeGet", "post", "verifyGet"},
           \A j \in DOMAIN intents : j # run[r].cur => intents'[j].status = intents[j].status,
           NEW pc \in {"resume", "send"},
           run' = [run EXCEPT ![r] = [run[r] EXCEPT !.pc = pc, !.cur = 0]]
    PROVE  AtWork(run'[r], intents')
<1>1. run[r] \in RunState(DOMAIN intents) /\ run \in [Runs -> RunState(DOMAIN intents)]
  BY DEF IInv, TypeOK
<1>2. run'[r].pc = pc /\ run'[r].cur = 0 /\ run'[r].toSend = run[r].toSend
  BY <1>1 DEF RunState
<1>3. \A j \in run[r].toSend : intents'[j].status = intents[j].status
  BY <1>1 DEF RunState, AtWork, SENDABLE
<1> QED
  BY <1>2, <1>3 DEF AtWork

LEMMA AnswersWork ==
    ASSUME IInv, NEW r \in Runs, AtWork(run[r], intents),
           \/ ResumeGetOk(r) \/ ResumeGetFails(r) \/ PostPartial(r) \/ PostUnknown(r)
           \/ PostRefused(r) \/ VerifyOk(r) \/ VerifyFails(r)
    PROVE  AtWork(run'[r], intents')
<1>1. run[r].pc \in {"resumeGet", "post", "verifyGet"}
  BY DEF ResumeGetOk, ResumeGetFails, PostPartial, PostUnknown, PostRefused, PostReturns,
         VerifyOk, VerifyFails, Reading
<1>2. \E pc \in {"resume", "send"} :
        run' = [run EXCEPT ![r] = [run[r] EXCEPT !.pc = pc, !.cur = 0]]
  BY DEF ResumeGetOk, ResumeGetFails, PostPartial, PostUnknown, PostRefused,
         VerifyOk, VerifyFails, Keep
<1>3. \A j \in DOMAIN intents : j # run[r].cur => intents'[j].status = intents[j].status
  BY Touched DEF ResumeGetOk, ResumeGetFails, PostPartial, PostUnknown, PostRefused,
         VerifyOk, VerifyFails, Compared
<1> QED
  BY <1>1, <1>2, <1>3, AnswerWork

LEMMA PickPropertyWork ==
    ASSUME IInv, NEW r \in Runs, AtWork(run[r], intents), PickProperty(r)
    PROVE  AtWork(run'[r], intents')
<1> DEFINE p == SetMin(run[r].props)
           cand == Candidates(r, p)
<1>1. run[r] \in RunState(DOMAIN intents) /\ run \in [Runs -> RunState(DOMAIN intents)]
  BY DEF IInv, TypeOK
<1>2. run'[r] = [run[r] EXCEPT !.pc = "send", !.props = @ \ {p}, !.toSend = PickedOf(cand)]
  BY <1>1 DEF PickProperty, Keep
<1>3. intents' = WithStatus(cand \ PickedOf(cand), "cancelled") /\ run[r].pc = "property"
  BY DEF PickProperty
<1>4. \A i \in PickedOf(cand) : i \in DOMAIN intents /\ intents[i].status \in SENDABLE
  BY <1>1 DEF PickedOf, Candidates, RunState, HasStatus
<1> HIDE DEF p, cand
<1>5. run'[r].pc = "send" /\ run'[r].cur = run[r].cur /\ run'[r].toSend = PickedOf(cand)
  BY <1>1, <1>2 DEF RunState
<1>6. \A i \in PickedOf(cand) : intents'[i].status = intents[i].status
  BY <1>3, <1>4, Touched
<1> QED
  BY <1>3, <1>4, <1>5, <1>6 DEF AtWork

LEMMA SendNextWork ==
    ASSUME IInv, NEW r \in Runs, AtWork(run[r], intents),
           NEW i \in run[r].toSend, SendNext(r, i)
    PROVE  AtWork(run'[r], intents')
<1> DEFINE next == [run[r] EXCEPT !.toSend = @ \ {i}, !.processed = TRUE]
           posting == [next EXCEPT !.pc = "post", !.cur = i]
<1>1. run[r] \in RunState(DOMAIN intents) /\ run \in [Runs -> RunState(DOMAIN intents)]
  BY DEF IInv, TypeOK
<1>2. run[r].pc = "send" /\ i \in DOMAIN intents /\ run[r].toSend \subseteq DOMAIN intents
  BY <1>1 DEF SendNext, RunState
<1>3. /\ next.pc = "send" /\ next.cur = run[r].cur /\ next.toSend = run[r].toSend \ {i}
      /\ posting.pc = "post" /\ posting.cur = i /\ posting.toSend = run[r].toSend \ {i}
  BY <1>1, <1>2 DEF RunState
<1>4. \/ run'[r] = next
      \/ run'[r] = posting /\ intents' = WithStatus({i}, "sending")
  BY <1>1 DEF SendNext, Keep, Await
<1> HIDE DEF next, posting
<1>5. \A j \in run[r].toSend \ {i} : intents'[j].status = intents[j].status
  <2>1. \E s : intents' = WithStatus({i}, s)
    BY DEF SendNext
  <2> QED
    BY <1>2, <2>1, Touched
<1>6. run'[r] = posting => intents'[i].status = "sending"
  BY <1>2, <1>3, <1>4, Touched
<1> QED
  BY <1>2, <1>3, <1>4, <1>5, <1>6 DEF AtWork

LEMMA PostOkWork ==
    ASSUME IInv, NEW r \in Runs, AtWork(run[r], intents), PostOk(r)
    PROVE  AtWork(run'[r], intents')
<1>1. run[r] \in RunState(DOMAIN intents) /\ run \in [Runs -> RunState(DOMAIN intents)]
  BY DEF IInv, TypeOK
<1>2. run[r].pc = "post" /\ run[r].cur \in DOMAIN intents
  BY DEF PostOk, PostReturns, Reading, IInv, RefsOK, Refs
<1>3. run'[r].pc = "verifyGet" /\ run'[r].cur = run[r].cur /\ run'[r].toSend = run[r].toSend
  BY <1>1 DEF PostOk, Await, RunState
<1>4. intents' = WithTask(run[r].cur, "reconciling")
  BY DEF PostOk
<1>5. intents'[run[r].cur].status = "reconciling"
  BY <1>2, <1>4, Touched
<1>6. \A j \in run[r].toSend : intents'[j].status = intents[j].status
  BY <1>1, <1>2, <1>4, Touched DEF RunState, AtWork, SENDABLE
<1> QED
  BY <1>3, <1>5, <1>6 DEF AtWork

\* The steps that change no intent and await nothing for one.
LEMMA QuietWork ==
    ASSUME IInv, NEW r \in Runs, AtWork(run[r], intents),
           \/ StartDrain(r) \/ ResumeDone(r) \/ SendDone(r) \/ DrainDone(r) \/ BookingsDone(r)
           \/ PersistNext(r) \/ PersistLoopDone(r) \/ PersistRowOk(r) \/ PersistRowFails(r)
    PROVE  AtWork(run'[r], intents')
<1>1. run[r] \in RunState(DOMAIN intents) /\ run \in [Runs -> RunState(DOMAIN intents)]
  BY DEF IInv, TypeOK
<1>2. intents' = intents
  BY DEF StartDrain, ResumeDone, SendDone, DrainDone, BookingsDone, PersistNext,
         PersistLoopDone, PersistRowOk, PersistRowFails
<1>3. CASE StartDrain(r) \/ DrainDone(r) \/ BookingsDone(r) \/ PersistLoopDone(r) \/ PersistRowFails(r)
  <2>1. run'[r].cur = 0 /\ run'[r].toSend = {}
        /\ run'[r].pc \in {"idle", "resume", "bookings", "persist"}
    <3>1. CASE StartDrain(r)
      BY <1>1, <3>1 DEF StartDrain, Keep, Idle
    <3>2. CASE DrainDone(r)
      BY <1>1, <3>2 DEF DrainDone, Await, Idle
    <3>3. CASE BookingsDone(r)
      <4> DEFINE persisting == [Idle EXCEPT !.pc = "persist", !.seen = Live]
      <4>1. persisting.cur = 0 /\ persisting.toSend = {} /\ persisting.pc = "persist"
        BY DEF Idle
      <4>2. run' = [run EXCEPT ![r] = persisting] \/ run' = [run EXCEPT ![r] = Idle]
        BY <3>3 DEF BookingsDone, Keep
      <4> HIDE DEF persisting
      <4> QED
        BY <1>1, <4>1, <4>2 DEF Idle
    <3>4. CASE PersistLoopDone(r) \/ PersistRowFails(r)
      BY <1>1, <3>4 DEF PersistLoopDone, PersistRowFails, Idle
    <3> QED
      BY <1>3, <3>1, <3>2, <3>3, <3>4
  <2> QED
    BY <2>1 DEF AtWork
<1>4. CASE ResumeDone(r) \/ SendDone(r) \/ PersistNext(r) \/ PersistRowOk(r)
  <2>1. /\ run'[r].cur = run[r].cur /\ run'[r].toSend = run[r].toSend
        /\ run'[r].pc \in {"property", "persist", "persistRow"}
        /\ run[r].pc \in {"resume", "send", "persist", "persistRow"}
    <3>1. CASE ResumeDone(r)
      BY <1>1, <3>1 DEF ResumeDone, Keep, RunState
    <3>2. CASE SendDone(r)
      BY <1>1, <3>2 DEF SendDone, Keep, RunState
    <3>3. CASE PersistNext(r)
      BY <1>1, <3>3 DEF PersistNext, Await, RunState
    <3>4. CASE PersistRowOk(r)
      BY <1>1, <3>4 DEF PersistRowOk, Reading, Keep, RunState
    <3> QED
      BY <1>4, <3>1, <3>2, <3>3, <3>4
  <2> QED
    BY <1>2, <2>1 DEF AtWork
<1> QED
  BY <1>3, <1>4

LEMMA DrainWork ==
    ASSUME IInv, NEW r \in Runs, AtWork(run[r], intents), StartDrain(r) \/ Answered(r)
    PROVE  AtWork(run'[r], intents')
BY ResumeNextWork, AnswersWork, PickPropertyWork, SendNextWork, PostOkWork, QuietWork
   DEF Answered

LEMMA NextWork ==
    ASSUME OneDrain, IInv, DrainsAtWork, [Next]_vars
    PROVE  DrainsAtWork'
<1>1. CASE Command \/ Request \/ Hydrate \/ Environment \/ UNCHANGED vars
  BY <1>1, OthersCancelOnly, CancelsKeepWork
<1>2. ASSUME NEW r \in Runs, StartDrain(r) \/ Answered(r) PROVE DrainsAtWork'
  <2>1. AtWork(run'[r], intents')
    BY <1>2, DrainWork DEF DrainsAtWork
  <2> QED
    BY <2>1 DEF DrainsAtWork, OneDrain
<1>3. CASE Crash
  BY <1>3, IdleAtWork DEF Crash, DrainsAtWork
<1> QED
  BY <1>1, <1>2, <1>3 DEF Next, Drain

\* Init and every step keep both invariants, whatever fails, while one drain runs at a time.
LEMMA WorkInvariant ==
    ASSUME OneDrain
    PROVE  Spec => [](IInv /\ DrainsAtWork)
<1>1. Init => IInv /\ DrainsAtWork
  BY InitIInv, IdleAtWork DEF Init, DrainsAtWork
<1>2. IInv /\ DrainsAtWork /\ [Next]_vars => (IInv /\ DrainsAtWork)'
  BY NextIInv, NextWork
<1> QED
  BY <1>1, <1>2, PTL DEF Spec

\* An outcome stays: whatever fails, and whatever managers ask and cancel meanwhile, no
\* step changes the status of an intent that is reconciled, drifted or failed, as long as
\* one drain runs at a time.  (Two of them both read back an intent in 'reconciling', and
\* the later answer would overwrite the outcome the first one gave.)
THEOREM OutcomesStay == ASSUME OneDrain PROVE Spec => SettledStays
<1>1. IInv /\ DrainsAtWork /\ [Next]_vars =>
        [\A i \in DOMAIN intents :
            i \in DOMAIN intents' /\ HasStatus(i, Terminal \ {"cancelled"}) =>
                intents'[i].status = intents[i].status]_vars
  <2> SUFFICES ASSUME IInv, DrainsAtWork, [Next]_vars, NEW i \in DOMAIN intents,
                      i \in DOMAIN intents', HasStatus(i, Terminal \ {"cancelled"})
               PROVE  intents'[i].status = intents[i].status
    OBVIOUS
  <2>1. intents[i].status \in {"reconciled", "drifted", "failed"}
    BY DEF HasStatus, Terminal
  <2>2. CASE Command \/ Request \/ Hydrate \/ Environment \/ UNCHANGED vars
    BY <2>1, <2>2, OthersCancelOnly DEF CancelsOnly, HasStatus, SENDABLE
  <2>3. ASSUME NEW r \in Runs, StartDrain(r) \/ Answered(r), Edge(r, i) PROVE FALSE
    BY <2>1, <2>3 DEF Edge, ToResume, HasStatus, SENDABLE, RESUME_STATUSES, DrainsAtWork, AtWork
  <2>4. CASE Crash
    BY <2>4 DEF Crash
  <2> QED
    BY <2>2, <2>3, <2>4, DrainEdges DEF Next, Drain
<1> QED
  BY <1>1, WorkInvariant, PTL DEF Spec, SettledStays

-----------------------------------------------------------------------------
(* The counts on the integrations page.                                    *)

\* What is under way is counted: a drain holds an intent in an open status.
LEMMA UnderWayOpen ==
    ASSUME IInv, DrainsAtWork, NEW i \in UnderWay
    PROVE  i \in Live /\ intents[i].status \in OPEN_STATUSES
<1>1. i \in Live /\ i \in DOMAIN intents /\ i \in Nat /\ i # 0
  BY DEF UnderWay, Live, IInv, TypeOK
<1>2. CASE HasStatus(i, SENDABLE \cup RESUME_STATUSES)
  BY <1>1, <1>2 DEF HasStatus, SENDABLE, RESUME_STATUSES, OPEN_STATUSES
<1>3. ASSUME NEW r \in Runs, run[r].cur = i PROVE intents[i].status \in OPEN_STATUSES
  BY <1>1, <1>3 DEF DrainsAtWork, AtWork, OPEN_STATUSES
<1> QED
  BY <1>1, <1>2, <1>3 DEF UnderWay

LEMMA CountsAreFinite ==
    ASSUME IInv
    PROVE  /\ \A S : IsFiniteSet({i \in Live : HasStatus(i, S)})
           /\ \A S : Count(Live, S) \in Nat
           /\ \A S : Count(Live, S) = 0 => \A i \in Live : intents[i].status \notin S
<1>1. IsFiniteSet(Live)
  <2>1. DOMAIN intents = 1..Len(intents) /\ Len(intents) \in Nat
    BY DEF IInv, TypeOK
  <2>2. IsFiniteSet(1..Len(intents))
    BY <2>1, FS_Interval
  <2> QED
    BY <2>1, <2>2, FS_Subset DEF Live
<1>2. ASSUME NEW S PROVE IsFiniteSet({i \in Live : HasStatus(i, S)})
  BY <1>1, FS_Subset
<1>3. ASSUME NEW S PROVE Count(Live, S) \in Nat
  BY <1>2, FS_CardinalityType DEF Count
<1>4. ASSUME NEW S, Count(Live, S) = 0 PROVE \A i \in Live : intents[i].status \notin S
  <2>1. {i \in Live : HasStatus(i, S)} = {}
    BY <1>2, <1>4, FS_EmptySet DEF Count
  <2> QED
    BY <2>1 DEF HasStatus
<1> QED
  BY <1>2, <1>3, <1>4

\* The panel is green only when nothing has drifted and nothing is pending.
LEMMA GreenTone ==
    ASSUME NEW h, h.drifted \in Nat, h.unreconciled \in Nat, h.retry \in Nat,
           h.partial \in Nat, h.pending \in Nat, AriTone(h, FALSE) = "healthy"
    PROVE  h.drifted = 0 /\ h.pending = 0
<1>1. h.drifted = 0
  BY DEF AriTone
<1>2. h.unreconciled + h.retry + h.partial + h.pending = 0
  BY <1>1 DEF AriTone
<1> QED
  BY <1>1, <1>2

\* What the panel and the drift detection say is true of the outbox at every moment a
\* request can be served, whatever fails, as long as one drain runs at a time: no intent
\* that a drain is at or may take up is missing from the counts, green means that every
\* command answered with success has an outcome, and no cell a drain is at is sampled.
THEOREM HealthIsTrue == ASSUME OneDrain PROVE Spec => []HealthTellsOutbox
<1>1. IInv /\ DrainsAtWork => HealthTellsOutbox
  <2> SUFFICES ASSUME IInv, DrainsAtWork PROVE HealthTellsOutbox
    OBVIOUS
  <2> DEFINE health == AriWriteHealth(Live)
             open == {i \in Live : HasStatus(i, OPEN_STATUSES)}
  <2>1. UnderWay \subseteq open
    BY UnderWayOpen DEF HasStatus
  <2>2. Cardinality(UnderWay) <= health.pending
    <3>1. IsFiniteSet(open) /\ health.pending = Cardinality(open)
      BY CountsAreFinite DEF AriWriteHealth, Count
    <3> HIDE DEF open, health
    <3> QED
      BY <2>1, <3>1, FS_Subset
  <2>3. AriTone(health, FALSE) = "healthy" =>
          \A i \in Live : intents[i].cmd \in acked => HasStatus(i, Terminal \ {"drifted"})
    <3> SUFFICES ASSUME AriTone(health, FALSE) = "healthy", NEW i \in Live
                 PROVE  HasStatus(i, Terminal \ {"drifted"})
      OBVIOUS
    <3>1. /\ health.drifted = Count(Live, {"drifted"}) /\ health.pending = Count(Live, OPEN_STATUSES)
          /\ health.unreconciled \in Nat /\ health.retry \in Nat /\ health.partial \in Nat
          /\ health.drifted \in Nat /\ health.pending \in Nat
      BY CountsAreFinite DEF AriWriteHealth
    <3> HIDE DEF health
    <3>2. health.drifted = 0 /\ health.pending = 0
      BY <3>1, GreenTone
    <3>3. intents[i].status # "drifted" /\ intents[i].status \notin OPEN_STATUSES
      BY <3>1, <3>2, CountsAreFinite
    <3>4. intents[i].status \in Statuses
      <4>1. intents[i] \in Intent
        BY DEF Live, IInv, TypeOK
      <4> QED
        BY <4>1 DEF Intent
    <3> QED
      BY <3>3, <3>4 DEF HasStatus, Terminal, OPEN_STATUSES, Statuses
  <2>4. ASSUME NEW i \in UnderWay, ResOf(i) \notin RatePlans
        PROVE  CellsOf(intents[i].cmd) \cap Sampled = {}
    <3>1. i \in Live /\ HasStatus(i, OPEN_STATUSES)
      BY UnderWayOpen DEF HasStatus
    <3>2. \A cell \in CellsOf(intents[i].cmd) : HasOpenIntent(cell)
      BY <2>4, <3>1 DEF HasOpenIntent
    <3> QED
      BY <3>2 DEF Sampled
  <2> QED
    BY <2>2, <2>3, <2>4 DEF HealthTellsOutbox
<1> QED
  BY <1>1, WorkInvariant, PTL

-----------------------------------------------------------------------------
(* What the steps of a drain do to its own locals.                         *)

\* A drain posts what it had picked, picks what could be sent, and writes rows as the
\* objects are when it takes them up.
Moves(r) ==
    /\ run'[r].pc = "post" => run[r].pc = "send" /\ run'[r].cur \in run[r].toSend
    /\ \/ run'[r].toSend \subseteq run[r].toSend
       \/ \A i \in run'[r].toSend : i \in DOMAIN intents /\ HasStatus(i, SENDABLE)
    /\ run'[r].pc = "persistRow" =>
          run[r].pc = "persist" /\ \E i \in DOMAIN intents : run'[r].row = RowOf(i)

\* The locals of a step that neither posts, picks nor takes up a row.
LEMMA PlainMoves ==
    ASSUME NEW r \in Runs, run'[r].pc \notin {"post", "persistRow"},
           run'[r].toSend \subseteq run[r].toSend
    PROVE  Moves(r)
BY DEF Moves

LEMMA DrainMoves ==
    ASSUME IInv, NEW r \in Runs, StartDrain(r) \/ Answered(r)
    PROVE  Moves(r)
<1>1. run[r] \in RunState(DOMAIN intents) /\ run \in [Runs -> RunState(DOMAIN intents)]
  BY DEF IInv, TypeOK
<1>2. ASSUME StartDrain(r) \/ DrainDone(r) PROVE Moves(r)
  BY <1>1, <1>2, PlainMoves DEF StartDrain, DrainDone, Keep, Await, Idle
<1>3. ASSUME BookingsDone(r) PROVE Moves(r)
  <2> DEFINE persisting == [Idle EXCEPT !.pc = "persist", !.seen = Live]
  <2>1. persisting.toSend = {} /\ persisting.pc = "persist"
    BY DEF Idle
  <2>2. run' = [run EXCEPT ![r] = persisting] \/ run' = [run EXCEPT ![r] = Idle]
    BY <1>3 DEF BookingsDone, Keep
  <2> HIDE DEF persisting
  <2> QED
    BY <1>1, <2>1, <2>2, PlainMoves DEF Idle
<1>4. ASSUME PersistLoopDone(r) \/ PersistRowFails(r) PROVE Moves(r)
  BY <1>1, <1>4, PlainMoves DEF PersistLoopDone, PersistRowFails, Idle
<1>5. ASSUME ResumeNext(r) PROVE Moves(r)
  <2> DEFINE i == SetMin(ToResume(r))
             next == [run[r] EXCEPT !.at = i, !.processed = TRUE]
             reading == [next EXCEPT !.pc = "resumeGet", !.cur = i]
  <2>1. /\ next.pc = "resume" /\ next.toSend = run[r].toSend
        /\ reading.pc = "resumeGet" /\ reading.toSend = run[r].toSend
    BY <1>1, <1>5 DEF ResumeNext, RunState
  <2>2. run'[r] = next \/ run'[r] = reading
    BY <1>1, <1>5 DEF ResumeNext, Keep, Await
  <2> HIDE DEF next, reading
  <2> QED
    BY <2>1, <2>2, PlainMoves
<1>6. ASSUME ResumeDone(r) PROVE Moves(r)
  BY <1>1, <1>6, PlainMoves DEF ResumeDone, Keep, RunState
<1>7. ASSUME NEW pc \in {"resume", "send"},
             run' = [run EXCEPT ![r] = [run[r] EXCEPT !.pc = pc, !.cur = 0]]
      PROVE  Moves(r)
  BY <1>1, <1>7, PlainMoves DEF RunState
<1>8. ASSUME PickProperty(r) PROVE Moves(r)
  <2> DEFINE p == SetMin(run[r].props)
             cand == Candidates(r, p)
  <2>1. run'[r] = [run[r] EXCEPT !.pc = "send", !.props = @ \ {p}, !.toSend = PickedOf(cand)]
    BY <1>1, <1>8 DEF PickProperty, Keep
  <2>2. \A i \in PickedOf(cand) : i \in DOMAIN intents /\ HasStatus(i, SENDABLE)
    BY <1>1 DEF PickedOf, Candidates, RunState
  <2> HIDE DEF p, cand
  <2>3. run'[r].pc = "send" /\ run'[r].toSend = PickedOf(cand)
    BY <1>1, <2>1 DEF RunState
  <2> QED
    BY <2>2, <2>3 DEF Moves
<1>9. ASSUME NEW i \in run[r].toSend, SendNext(r, i) PROVE Moves(r)
  <2> DEFINE next == [run[r] EXCEPT !.toSend = @ \ {i}, !.processed = TRUE]
             posting == [next EXCEPT !.pc = "post", !.cur = i]
  <2>1. /\ run[r].pc = "send" /\ next.pc = "send" /\ next.toSend = run[r].toSend \ {i}
        /\ posting.pc = "post" /\ posting.cur = i /\ posting.toSend = run[r].toSend \ {i}
    BY <1>1, <1>9 DEF SendNext, RunState
  <2>2. run'[r] = next \/ run'[r] = posting
    BY <1>1, <1>9 DEF SendNext, Keep, Await
  <2> HIDE DEF next, posting
  <2> QED
    BY <2>1, <2>2 DEF Moves
<1>10. ASSUME SendDone(r) PROVE Moves(r)
  BY <1>1, <1>10, PlainMoves DEF SendDone, Keep, RunState
<1>11. ASSUME PostOk(r) PROVE Moves(r)
  BY <1>1, <1>11, PlainMoves DEF PostOk, Await, RunState
<1>12. ASSUME PersistNext(r) PROVE Moves(r)
  <2> DEFINE i == SetMin(ToPersist(r))
  <2>1. run'[r] = [run[r] EXCEPT !.pc = "persistRow", !.at = i, !.row = RowOf(i)]
    BY <1>1, <1>12 DEF PersistNext, Await
  <2>2. i \in DOMAIN intents
    <3>1. ToPersist(r) \subseteq Nat /\ ToPersist(r) # {} /\ ToPersist(r) \subseteq DOMAIN intents
      BY <1>1, <1>12 DEF ToPersist, RunState, PersistNext, IInv, TypeOK
    <3> QED
      BY <3>1, SetMinIn
  <2> HIDE DEF i
  <2>3. run'[r].toSend = run[r].toSend /\ run'[r].row = RowOf(i) /\ run'[r].pc = "persistRow"
    BY <1>1, <2>1 DEF RunState
  <2> QED
    BY <1>12, <2>2, <2>3 DEF PersistNext, Moves
<1>13. ASSUME PersistRowOk(r) PROVE Moves(r)
  BY <1>1, <1>13, PlainMoves DEF PersistRowOk, Keep, RunState
<1>14. ASSUME \/ ResumeGetOk(r) \/ ResumeGetFails(r) \/ PostPartial(r) \/ PostUnknown(r)
              \/ PostRefused(r) \/ VerifyOk(r) \/ VerifyFails(r)
       PROVE  Moves(r)
  BY <1>7, <1>14 DEF ResumeGetOk, ResumeGetFails, PostPartial, PostUnknown, PostRefused,
       VerifyOk, VerifyFails, Keep
<1> QED
  BY <1>2, <1>3, <1>4, <1>5, <1>6, <1>8, <1>9, <1>10, <1>11, <1>12, <1>13, <1>14 DEF Answered

\* Only the answer to a POST brings task ids.
LEMMA DrainTasks ==
    ASSUME IInv, NEW r \in Runs, StartDrain(r) \/ Answered(r), NEW i \in DOMAIN intents
    PROVE  \/ intents'[i].tasked = intents[i].tasked
           \/ /\ run[r].pc = "post" /\ i = run[r].cur
              /\ intents'[i].status \in {"reconciling", "partial"}
<1> DEFINE Same == intents'[i].tasked = intents[i].tasked
<1>1. ASSUME NEW S, NEW s, intents' = WithStatus(S, s) PROVE Same
  BY <1>1, Touched
<1>2. /\ ResumeNext(r) => Same
      /\ PickProperty(r) => Same
      /\ \A j \in run[r].toSend : SendNext(r, j) => Same
  <2> HIDE DEF Same
  <2> QED
    BY <1>1 DEF ResumeNext, PickProperty, SendNext
<1>3. /\ PostRefused(r) \/ VerifyFails(r) \/ ResumeGetOk(r) \/ VerifyOk(r) => Same
      /\ ResumeGetFails(r) \/ PostUnknown(r) => Same
  BY Touched DEF PostRefused, VerifyFails, ResumeGetOk, VerifyOk, ResumeGetFails, PostUnknown, Compared
<1>4. ASSUME PostOk(r) \/ PostPartial(r)
      PROVE  \/ intents'[i].tasked = intents[i].tasked
             \/ /\ run[r].pc = "post" /\ i = run[r].cur
                /\ intents'[i].status \in {"reconciling", "partial"}
  BY <1>4, Touched DEF PostOk, PostPartial, PostReturns, Reading
<1>5. ASSUME \/ StartDrain(r) \/ ResumeDone(r) \/ SendDone(r) \/ DrainDone(r) \/ BookingsDone(r)
             \/ PersistNext(r) \/ PersistLoopDone(r) \/ PersistRowOk(r) \/ PersistRowFails(r)
      PROVE  intents' = intents
  BY <1>5 DEF StartDrain, ResumeDone, SendDone, DrainDone, BookingsDone, PersistNext,
       PersistLoopDone, PersistRowOk, PersistRowFails
<1> QED
  BY <1>2, <1>3, <1>4, <1>5 DEF Answered

-----------------------------------------------------------------------------
(* What Channex has taken once is not sent again.                          *)

\* What has task ids is not to be sent: true of an object, of a row, and of the copies of
\* a row that a request or a drain carries to the table, from which a restart reads them.
\* It needs that no read-back fails: one that does gives 'retry' to an accepted intent.
Taken(o) == o.tasked => o.status \notin SENDABLE
TakenRun(locals, store) ==
    /\ locals.pc = "persistRow" => Taken(locals.row)
    /\ locals.pc = "post" => ~store[locals.cur].tasked
    /\ \A i \in locals.toSend : ~store[i].tasked
TakenInMemory ==
    /\ faults["get"] = 0
    /\ \A i \in DOMAIN intents : Taken(intents[i])
    /\ \A r \in Runs : TakenRun(run[r], intents)
TakenInRows ==
    /\ \A cmd \in Commands : db[cmd] # NoRow => Taken(db[cmd])
    /\ \A c \in Clients : client[c] # NoReq => Taken(client[c].row)

LEMMA TakenOtherId ==
    ASSUME NEW row \in Row, NEW n
    PROVE  Taken([row EXCEPT !.id = n]) <=> Taken(row)
BY DEF Row, Taken

\* A fault of another kind leaves the reads alone.
LEMMA ReadsStay ==
    ASSUME IInv, faults["get"] = 0, NEW k \in FaultKinds, CanFault(k), Fault(k)
    PROVE  faults'["get"] = 0
<1>1. k # "get" /\ "get" \in FaultKinds
  BY DEF CanFault, FaultKinds
<1> QED
  BY <1>1 DEF Fault

\* The rows stay so by what is written to them.
LEMMA TakenInserted ==
    ASSUME IInv, TakenInRows, NEW c \in Clients, client[c] # NoReq, Inserted(c)
    PROVE  \A cmd \in Commands : db'[cmd] # NoRow => Taken(db'[cmd])
<1>1. client[c].row \in Row /\ Taken(client[c].row)
  BY ClientRef DEF TakenInRows
<1> DEFINE key == intents[client[c].obj].cmd
           new == [client[c].row EXCEPT !.id = nextDbId]
<1>2. Taken(new)
  BY <1>1, TakenOtherId
<1>3. db' = db \/ db' = [db EXCEPT ![key] = new]
  BY DEF Inserted, durable
<1> HIDE DEF key, new
<1> QED
  BY <1>2, <1>3 DEF TakenInRows, IInv, TypeOK

LEMMA TakenUpdated ==
    ASSUME IInv, TakenInMemory, TakenInRows, NEW r \in Runs, run[r].pc = "persistRow", Updated(r)
    PROVE  \A cmd \in Commands : db'[cmd] # NoRow => Taken(db'[cmd])
<1>1. run[r].row \in Row /\ Taken(run[r].row)
  BY DEF TakenInMemory, TakenRun, IInv, RefsOK, Refs
<1> DEFINE key == intents[run[r].at].cmd
           new == [run[r].row EXCEPT !.id = db[key].id]
<1>2. Taken(new)
  BY <1>1, TakenOtherId
<1>3. db' = db \/ db' = [db EXCEPT ![key] = new]
  BY DEF Updated
<1> HIDE DEF key, new
<1> QED
  BY <1>2, <1>3 DEF TakenInRows, IInv, TypeOK

\* What cancels only keeps it for the objects there are.
LEMMA TakenCancels ==
    ASSUME IInv, TakenInMemory, CancelsOnly, UNCHANGED run
    PROVE  /\ \A i \in DOMAIN intents : Taken(intents'[i])
           /\ \A r \in Runs : TakenRun(run'[r], intents')
<1>1. \A i \in DOMAIN intents : Taken(intents'[i])
  BY DEF TakenInMemory, CancelsOnly, Taken, SENDABLE
<1>2. ASSUME NEW r \in Runs PROVE TakenRun(run[r], intents')
  <2>1. TakenRun(run[r], intents) /\ Refs(run[r], DOMAIN intents)
    BY DEF TakenInMemory, IInv, RefsOK
  <2>2. run[r].toSend \subseteq DOMAIN intents
    BY DEF IInv, TypeOK, RunState
  <2> QED
    BY <2>1, <2>2 DEF TakenRun, Refs, CancelsOnly
<1> QED
  BY <1>1, <1>2

LEMMA TakenNew ==
    ASSUME IInv, TakenInMemory, CancelsOnly, UNCHANGED <<run, faults>>,
           NEW q \in Seq(Intent), DOMAIN q = DOMAIN intents, NEW o, Taken(o),
           intents' = Append(q, o)
    PROVE  TakenInMemory'
<1>1. DOMAIN intents' = DOMAIN intents \cup {Len(q) + 1} /\ intents'[Len(q) + 1] = o
  <2>1. DOMAIN q = 1..Len(q) /\ Len(q) \in Nat
    OBVIOUS
  <2>2. DOMAIN intents' = 1..(Len(q) + 1)
    OBVIOUS
  <2> QED
    BY <2>1, <2>2
<1> QED
  BY <1>1, TakenCancels DEF TakenInMemory

LEMMA TakenCommand ==
    ASSUME IInv, TakenInMemory, TakenInRows, NEW c \in Clients, NEW cmd \in Commands,
           EnqueueNew(c, cmd) \/ EnqueueKnown(c, cmd) \/ SupersedeConflict(c, cmd)
    PROVE  TakenInMemory' /\ TakenInRows'
<1>1. CancelsOnly /\ UNCHANGED <<run, faults, db>>
  BY CommandCancels DEF EnqueueNew, EnqueueKnown, SupersedeConflict, Ask, durable
<1>2. CASE EnqueueNew(c, cmd)
  <2> DEFINE new == [cmd |-> cmd, id |-> nextId, status |-> "queued",
                     backoff |-> FALSE, tasked |-> FALSE, live |-> TRUE]
             row == [id |-> nextId, status |-> "queued", backoff |-> FALSE, tasked |-> FALSE]
             await == [obj |-> Len(intents) + 1, row |-> row]
  <2>1. Taken(new) /\ Taken(row) /\ await.row = row
    BY DEF Taken
  <2>2. intents' = Append(CancelAll(cmd), new) /\ client' = [client EXCEPT ![c] = await]
    BY <1>2 DEF EnqueueNew
  <2>3. CancelAll(cmd) \in Seq(Intent) /\ DOMAIN CancelAll(cmd) = DOMAIN intents
    BY CancelAllType DEF CancelAll
  <2> HIDE DEF new, row, await
  <2>4. TakenInMemory'
    BY <1>1, <2>1, <2>2, <2>3, TakenNew
  <2>5. TakenInRows'
    BY <1>1, <2>1, <2>2 DEF TakenInRows, IInv, TypeOK
  <2> QED
    BY <2>4, <2>5
<1>3. ASSUME DOMAIN intents' = DOMAIN intents PROVE TakenInMemory'
  BY <1>1, <1>3, TakenCancels DEF TakenInMemory
<1>4. CASE EnqueueKnown(c, cmd)
  <2> DEFINE i == SetMin(SameKey(cmd))
             row == [RowOf(i) EXCEPT !.status = intents'[i].status]
             await == [obj |-> i, row |-> row]
  <2>1. DOMAIN intents' = DOMAIN intents
    BY <1>4, CancelAllType DEF EnqueueKnown, CancelAll
  <2>2. i \in DOMAIN intents
    <3>1. SameKey(cmd) \subseteq Nat /\ SameKey(cmd) # {} /\ SameKey(cmd) \subseteq DOMAIN intents
      BY <1>4 DEF SameKey, Live, EnqueueKnown, IInv, TypeOK
    <3> QED
      BY <3>1, SetMinIn
  <2>3. client' = [client EXCEPT ![c] = await] /\ await.row = row
    BY <1>4 DEF EnqueueKnown
  <2> HIDE DEF i
  <2>4. row.tasked = intents'[i].tasked /\ row.status = intents'[i].status
    BY <1>1, <2>2 DEF RowOf, CancelsOnly
  <2> HIDE DEF row, await
  <2>5. TakenInMemory'
    BY <1>3, <2>1
  <2>6. Taken(row)
    BY <2>1, <2>2, <2>4, <2>5 DEF TakenInMemory, Taken
  <2>7. TakenInRows'
    BY <1>1, <2>3, <2>6 DEF TakenInRows, IInv, TypeOK
  <2> QED
    BY <2>5, <2>7
<1>5. CASE SupersedeConflict(c, cmd)
  <2>1. DOMAIN intents' = DOMAIN intents
    BY <1>5, CancelAllType DEF SupersedeConflict
  <2> QED
    BY <1>1, <1>3, <1>5, <2>1 DEF SupersedeConflict, TakenInRows
<1> QED
  BY <1>2, <1>4, <1>5

LEMMA TakenRequest ==
    ASSUME IInv, TakenInMemory, TakenInRows, NEW c \in Clients, PersistOk(c) \/ PersistFails(c)
    PROVE  TakenInMemory' /\ TakenInRows'
<1>1. CancelsOnly /\ UNCHANGED run
  BY OthersCancelOnly DEF Request
<1>2. DOMAIN intents' = DOMAIN intents
  <2>1. \E i, v : \/ intents' = [intents EXCEPT ![i].id = v]
                  \/ intents' = [intents EXCEPT ![i].live = v]
    BY DEF PersistOk, PersistFails
  <2> QED
    BY <2>1 DEF IInv, TypeOK
<1>3. faults'["get"] = 0
  BY ReadsStay DEF PersistOk, PersistFails, FaultKinds, TakenInMemory
<1>4. TakenInMemory'
  BY <1>1, <1>2, <1>3, TakenCancels DEF TakenInMemory
<1>5. \A cmd \in Commands : db'[cmd] # NoRow => Taken(db'[cmd])
  BY TakenInserted DEF PersistOk, PersistFails, durable, TakenInRows
<1>6. client' = [client EXCEPT ![c] = NoReq]
  BY DEF PersistOk, PersistFails
<1>7. TakenInRows'
  BY <1>5, <1>6 DEF TakenInRows, IInv, TypeOK
<1> QED
  BY <1>4, <1>7

\* A drain writes to the table in one step only.
LEMMA DrainWritesRows ==
    ASSUME NEW r \in Runs, StartDrain(r) \/ Answered(r)
    PROVE  PersistRowOk(r) \/ UNCHANGED durable
BY DEF StartDrain, Answered, ResumeNext, ResumeDone, ResumeGetOk, ResumeGetFails, PickProperty,
       SendNext, SendDone, PostOk, PostPartial, PostUnknown, PostRefused, PostReturns, VerifyOk,
       VerifyFails, DrainDone, BookingsDone, PersistNext, PersistLoopDone, PersistRowFails, RunOnly

\* One drain: what it does to an object keeps it for the drain and for the objects.
LEMMA TakenDrain ==
    ASSUME OneDrain, IInv, DrainsAtWork, TakenInMemory, TakenInRows,
           NEW r \in Runs, StartDrain(r) \/ Answered(r)
    PROVE  TakenInMemory' /\ TakenInRows'
<1>1. /\ run[r] \in RunState(DOMAIN intents) /\ run[r].toSend \subseteq DOMAIN intents
      /\ AtWork(run[r], intents) /\ TakenRun(run[r], intents) /\ faults["get"] = 0
      /\ run[r].pc = "post" => run[r].cur \in DOMAIN intents
  BY DEF IInv, TypeOK, RunState, RefsOK, Refs, DrainsAtWork, TakenInMemory
<1>2. ASSUME NEW i \in DOMAIN intents, run[r].pc = "resumeGet"
      PROVE  intents'[i].status \notin SENDABLE \/ intents'[i].status = intents[i].status
  <2>1. ResumeGetOk(r)
    BY <1>1, <1>2 DEF StartDrain, Answered, ResumeNext, ResumeDone, ResumeGetFails, CanFault,
         PickProperty, SendNext, SendDone, PostOk, PostPartial, PostUnknown, PostRefused,
         PostReturns, VerifyOk, VerifyFails, DrainDone, BookingsDone, PersistNext,
         PersistLoopDone, PersistRowOk, PersistRowFails, Reading
  <2> QED
    BY <2>1, Touched DEF ResumeGetOk, Compared, SENDABLE
<1>3. ASSUME NEW i \in DOMAIN intents PROVE Taken(intents'[i])
  <2> SUFFICES ASSUME intents'[i].tasked, intents'[i].status \in SENDABLE PROVE FALSE
    BY DEF Taken
  <2>1. intents'[i].tasked = intents[i].tasked
    BY DrainTasks DEF SENDABLE
  <2>2. intents[i].status \notin SENDABLE
    BY <2>1 DEF TakenInMemory, Taken
  <2>3. Edge(r, i)
    BY <2>2, DrainEdges
  <2>4. run[r].pc # "resumeGet"
    BY <1>2, <2>2
  <2>5. run[r].pc = "post" /\ i = run[r].cur
    BY <2>3, <2>4 DEF Edge, SENDABLE
  <2> QED
    BY <1>1, <2>1, <2>5 DEF TakenRun
<1>4. TakenRun(run'[r], intents')
  <2>1. Moves(r)
    BY DrainMoves
  <2>2. ASSUME NEW i \in DOMAIN intents, ~intents[i].tasked,
               run[r].pc = "post" => i # run[r].cur
        PROVE  ~intents'[i].tasked
    BY <2>2, DrainTasks
  <2>3. ASSUME NEW i \in run[r].toSend PROVE ~intents'[i].tasked
    <3>1. i \in DOMAIN intents /\ ~intents[i].tasked
      BY <1>1 DEF TakenRun
    <3>2. run[r].pc = "post" => i # run[r].cur
      BY <1>1 DEF AtWork, SENDABLE
    <3> QED
      BY <2>2, <3>1, <3>2
  <2>4. ASSUME NEW i \in DOMAIN intents, HasStatus(i, SENDABLE) PROVE ~intents'[i].tasked
    <3>1. ~intents[i].tasked
      BY <2>4 DEF TakenInMemory, Taken, HasStatus
    <3>2. run[r].pc = "post" => i # run[r].cur
      BY <1>1, <2>4 DEF AtWork, SENDABLE, HasStatus
    <3> QED
      BY <2>2, <3>1, <3>2
  <2>5. \A i \in run'[r].toSend : ~intents'[i].tasked
    BY <2>1, <2>3, <2>4 DEF Moves
  <2>6. run'[r].pc = "post" => ~intents'[run'[r].cur].tasked
    BY <2>1, <2>3 DEF Moves
  <2>7. run'[r].pc = "persistRow" => Taken(run'[r].row)
    <3>1. \A i \in DOMAIN intents : Taken(RowOf(i))
      BY DEF TakenInMemory, Taken, RowOf
    <3> QED
      BY <2>1, <3>1 DEF Moves
  <2> QED
    BY <2>5, <2>6, <2>7 DEF TakenRun
<1>5. DOMAIN intents' = DOMAIN intents
  BY DrainInPlace DEF InPlace
<1>6. faults'["get"] = 0
  BY <1>1, ReadsStay DEF StartDrain, Answered, ResumeNext, ResumeDone, ResumeGetOk,
       ResumeGetFails, PickProperty, SendNext, SendDone, PostOk, PostPartial, PostUnknown,
       PostRefused, PostReturns, VerifyOk, VerifyFails, DrainDone, BookingsDone, PersistNext,
       PersistLoopDone, PersistRowOk, PersistRowFails, FaultKinds
<1>7. TakenInMemory'
  BY <1>3, <1>4, <1>5, <1>6 DEF TakenInMemory, OneDrain
<1>8. client' = client
  BY DEF StartDrain, Answered, ResumeNext, ResumeDone, ResumeGetOk,
       ResumeGetFails, PickProperty, SendNext, SendDone, PostOk, PostPartial, PostUnknown,
       PostRefused, PostReturns, VerifyOk, VerifyFails, DrainDone, BookingsDone, PersistNext,
       PersistLoopDone, PersistRowOk, PersistRowFails, RunOnly
<1>9. TakenInRows'
  <2>1. CASE PersistRowOk(r)
    BY <1>8, <2>1, TakenUpdated DEF PersistRowOk, Reading, TakenInRows
  <2>2. CASE db' = db
    BY <1>8, <2>2 DEF TakenInRows
  <2> QED
    BY <2>1, <2>2, DrainWritesRows DEF durable
<1> QED
  BY <1>7, <1>9

LEMMA TakenCrash ==
    ASSUME IInv, TakenInMemory, TakenInRows, Crash
    PROVE  TakenInMemory' /\ TakenInRows'
<1>1. TakenInMemory'
  <2>1. faults'["get"] = 0
    BY ReadsStay DEF Crash, FaultKinds, TakenInMemory
  <2>2. intents' = <<>> /\ \A r \in Runs : run'[r] = Idle
    BY DEF Crash
  <2>3. DOMAIN intents' = {}
    BY <2>2
  <2> QED
    BY <2>1, <2>2, <2>3 DEF TakenInMemory, TakenRun, Idle
<1>2. \A cmd \in Commands : db'[cmd] # NoRow => Taken(db'[cmd])
  BY TakenInserted, TakenUpdated DEF Crash, durable, TakenInRows
<1> QED
  BY <1>1, <1>2 DEF TakenInRows, Crash

LEMMA TakenOthers ==
    ASSUME IInv, TakenInMemory, TakenInRows, Hydrate \/ Environment \/ UNCHANGED vars
    PROVE  TakenInMemory' /\ TakenInRows'
<1>1. CancelsOnly /\ UNCHANGED <<run, db, client>>
  BY OthersCancelOnly DEF Hydrate, HydrateRow, HydrateDone, HydrateFails, Environment,
       BackoffExpires, ExternalEdit, PullChanges, vars, memory, durable
<1>2. TakenInRows'
  BY <1>1 DEF TakenInRows
<1>3. ASSUME NEW cmd \in Commands, HydrateRow(cmd) PROVE TakenInMemory'
  <2> DEFINE new == [cmd |-> cmd, id |-> db[cmd].id, status |-> db[cmd].status,
                     backoff |-> db[cmd].backoff, tasked |-> db[cmd].tasked, live |-> TRUE]
  <2>1. Taken(db[cmd])
    BY <1>3 DEF HydrateRow, Missing, TakenInRows
  <2>2. Taken(new)
    BY <2>1 DEF Taken
  <2>3. intents' = Append(intents, new) /\ UNCHANGED faults
    BY <1>3 DEF HydrateRow
  <2> HIDE DEF new
  <2> QED
    BY <1>1, <2>2, <2>3, TakenNew DEF IInv, TypeOK
<1>4. ASSUME DOMAIN intents' = DOMAIN intents, faults'["get"] = 0 PROVE TakenInMemory'
  BY <1>1, <1>4, TakenCancels DEF TakenInMemory
<1>5. ASSUME HydrateDone \/ HydrateFails \/ UNCHANGED vars PROVE TakenInMemory'
  <2>1. faults'["get"] = 0
    BY <1>5, ReadsStay DEF HydrateDone, HydrateFails, FaultKinds, vars, TakenInMemory
  <2>2. intents' = intents
    BY <1>5 DEF HydrateDone, HydrateFails, vars, memory
  <2> QED
    BY <1>4, <2>1, <2>2
<1>6. ASSUME Environment PROVE TakenInMemory'
  <2>1. faults'["get"] = 0
    BY <1>6, ReadsStay DEF Environment, BackoffExpires, ExternalEdit, PullChanges, FaultKinds,
         TakenInMemory
  <2>2. DOMAIN intents' = DOMAIN intents
    <3>1. intents' = intents \/ \E i : intents' = [intents EXCEPT ![i].backoff = FALSE]
      BY <1>6 DEF Environment, BackoffExpires, ExternalEdit, PullChanges, memory
    <3> QED
      BY <3>1 DEF IInv, TypeOK
  <2> QED
    BY <1>4, <2>1, <2>2
<1> QED
  BY <1>2, <1>3, <1>5, <1>6 DEF Hydrate

\* "accepted/reconciling/partial never blind re-POST": a command Channex has taken is
\* never posted again, whatever else fails and across restarts, as long as one drain runs
\* at a time and every read-back is answered.  (A failing one is what does make the code
\* post again: the resume loop then gives the intent the status 'retry'.)
THEOREM NeverRepostedWhileReadable ==
    ASSUME OneDrain, MaxFaults["get"] = 0
    PROVE  Spec => NoRepostAfterAccept
<1> DEFINE Inv == IInv /\ DrainsAtWork /\ TakenInMemory /\ TakenInRows
<1>1. Init => Inv
  <2> SUFFICES ASSUME Init PROVE TakenInMemory /\ TakenInRows
    BY InitIInv, IdleAtWork DEF Init, DrainsAtWork
  <2>1. DOMAIN intents = {}
    BY DEF Init
  <2> QED
    BY <2>1 DEF Init, TakenInMemory, TakenInRows, TakenRun, Idle
<1>2. Inv /\ [Next]_vars => Inv'
  <2> SUFFICES ASSUME Inv, [Next]_vars PROVE TakenInMemory' /\ TakenInRows'
    BY NextIInv, NextWork
  <2> QED
    BY TakenCommand, TakenRequest, TakenDrain, TakenCrash, TakenOthers
       DEF Next, Command, Request, Drain
<1>3. Inv /\ [Next]_vars =>
        [\A i \in DOMAIN intents : Posted(i) => ~intents[i].tasked]_vars
  <2> SUFFICES ASSUME Inv, [Next]_vars, NEW i \in DOMAIN intents, Posted(i)
               PROVE  ~intents[i].tasked
    OBVIOUS
  <2>1. /\ i \in DOMAIN intents' /\ intents'[i].status = "sending"
        /\ intents[i].status # "sending"
    BY DEF Posted, HasStatus
  <2>2. ~(Command \/ Request \/ Hydrate \/ Environment \/ UNCHANGED vars)
    BY <2>1, OthersCancelOnly DEF CancelsOnly
  <2>3. ~Crash
    BY <2>1 DEF Crash
  <2>4. PICK r \in Runs : StartDrain(r) \/ Answered(r)
    BY <2>2, <2>3 DEF Next, Drain
  <2>5. i \in run[r].toSend
    BY <2>1, <2>4, DrainEdges DEF Edge
  <2> QED
    BY <2>5 DEF TakenInMemory, TakenRun
<1> HIDE DEF Inv
<1> QED
  BY <1>1, <1>2, <1>3, PTL DEF Spec, NoRepostAfterAccept

-----------------------------------------------------------------------------
(* An intent in 'sending' has a drain that awaits its answer.              *)

\* No row is in 'sending', so a restart reads none: the write-through runs when no answer
\* is awaited, and a request carries 'sending' only to a row that is there and stays as it
\* is.  For this every live object needs its row or the request that will insert it.
NotSending(o) == o.status # "sending"
SentByDrain ==
    \A i \in DOMAIN intents : HasStatus(i, {"sending"}) =>
        \E r \in Runs : run[r].pc = "post" /\ run[r].cur = i
RowsNotSending ==
    /\ \A cmd \in Commands : db[cmd] # NoRow => NotSending(db[cmd])
    /\ \A r \in Runs : run[r].pc = "persistRow" => NotSending(run[r].row)
    /\ \A c \in Clients : client[c] # NoReq =>
          NotSending(client[c].row) \/ db[intents[client[c].obj].cmd] # NoRow
LiveHasRow ==
    \A i \in Live : \/ db[intents[i].cmd] # NoRow
                    \/ \E c \in Clients : client[c] # NoReq /\ client[c].obj = i
Senders == SentByDrain /\ RowsNotSending /\ LiveHasRow

LEMMA NotSendingOtherId ==
    ASSUME NEW row \in Row, NEW n
    PROVE  NotSending([row EXCEPT !.id = n]) <=> NotSending(row)
BY DEF Row, NotSending

LEMMA InsertNotSending ==
    ASSUME IInv, RowsNotSending, NEW c \in Clients, client[c] # NoReq, Inserted(c)
    PROVE  \A cmd \in Commands : db'[cmd] # NoRow => NotSending(db'[cmd])
<1> DEFINE key == intents[client[c].obj].cmd
           new == [client[c].row EXCEPT !.id = nextDbId]
<1>1. client[c].row \in Row
  BY ClientRef
<1>2. db[key] = NoRow => NotSending(new)
  BY <1>1, NotSendingOtherId DEF RowsNotSending
<1>3. db' = db \/ (db[key] = NoRow /\ db' = [db EXCEPT ![key] = new])
  BY DEF Inserted, durable
<1> HIDE DEF key, new
<1> QED
  BY <1>2, <1>3 DEF RowsNotSending, IInv, TypeOK

LEMMA UpdateNotSending ==
    ASSUME IInv, RowsNotSending, NEW r \in Runs, run[r].pc = "persistRow", Updated(r)
    PROVE  \A cmd \in Commands : db'[cmd] # NoRow => NotSending(db'[cmd])
<1> DEFINE key == intents[run[r].at].cmd
           new == [run[r].row EXCEPT !.id = db[key].id]
<1>1. run[r].row \in Row /\ NotSending(run[r].row)
  BY DEF RowsNotSending, IInv, RefsOK, Refs
<1>2. NotSending(new)
  BY <1>1, NotSendingOtherId
<1>3. db' = db \/ db' = [db EXCEPT ![key] = new]
  BY DEF Updated
<1> HIDE DEF key, new
<1> QED
  BY <1>2, <1>3 DEF RowsNotSending, IInv, TypeOK

\* The objects keep their keys, so the requests' rows are still there.
LEMMA RequestsKeepRows ==
    ASSUME IInv, [Next]_vars, RowsNotSending, NEW c \in Clients, client[c] # NoReq,
           client'[c] = client[c], client[c].obj \in DOMAIN intents',
           intents'[client[c].obj].cmd = intents[client[c].obj].cmd
    PROVE  NotSending(client'[c].row) \/ db'[intents'[client'[c].obj].cmd] # NoRow
BY ClientRef, RowsStay DEF RowsNotSending

\* A step in place that ends no request keeps a row or a request for every live object.
LEMMA RowsKept ==
    ASSUME IInv, [Next]_vars, LiveHasRow, InPlace(intents'),
           \A c \in Clients : client[c] # NoReq => client'[c] = client[c]
    PROVE  LiveHasRow'
<1> SUFFICES ASSUME NEW i \in Live', db'[intents'[i].cmd] = NoRow
             PROVE  \E c \in Clients : client'[c] # NoReq /\ client'[c].obj = i
  BY DEF LiveHasRow
<1>1. i \in Live /\ intents'[i].cmd = intents[i].cmd
  BY DEF Live, InPlace
<1>2. intents[i].cmd \in Commands
  <2>1. intents[i] \in Intent
    BY <1>1 DEF Live, IInv, TypeOK
  <2> QED
    BY <2>1 DEF Intent
<1>3. db[intents[i].cmd] = NoRow
  BY <1>1, <1>2, RowsStay
<1>4. PICK c \in Clients : client[c] # NoReq /\ client[c].obj = i
  BY <1>1, <1>3 DEF LiveHasRow
<1> QED
  BY <1>4

\* What is added in no hurry: neither sent nor without its row.
LEMMA SentStays ==
    ASSUME SentByDrain, CancelsOnly, UNCHANGED run,
           \A i \in DOMAIN intents' \ DOMAIN intents : intents'[i].status # "sending"
    PROVE  SentByDrain'
BY DEF SentByDrain, CancelsOnly, HasStatus

LEMMA AppendParts ==
    ASSUME NEW q \in Seq(Intent), DOMAIN q = DOMAIN intents, NEW o, intents' = Append(q, o)
    PROVE  /\ DOMAIN intents' = DOMAIN intents \cup {Len(q) + 1} /\ intents'[Len(q) + 1] = o
           /\ Len(q) + 1 \notin DOMAIN intents
           /\ \A i \in DOMAIN intents : intents'[i] = q[i]
<1>1. DOMAIN q = 1..Len(q) /\ Len(q) \in Nat
  OBVIOUS
<1>2. DOMAIN intents' = 1..(Len(q) + 1)
  OBVIOUS
<1> QED
  BY <1>1, <1>2

LEMMA SendersNew ==
    ASSUME IInv, Senders, NEW c \in Clients, NEW cmd \in Commands, EnqueueNew(c, cmd)
    PROVE  Senders'
<1> DEFINE new == [cmd |-> cmd, id |-> nextId, status |-> "queued",
                   backoff |-> FALSE, tasked |-> FALSE, live |-> TRUE]
           row == [id |-> nextId, status |-> "queued", backoff |-> FALSE, tasked |-> FALSE]
           await == [obj |-> Len(intents) + 1, row |-> row]
           q == CancelAll(cmd)
<1>0. [Next]_vars /\ CancelsOnly /\ UNCHANGED <<run, db>> /\ client[c] = NoReq
  BY CommandCancels DEF Next, Command, EnqueueNew, Ask, durable
<1>1. /\ NotSending(new) /\ NotSending(row) /\ await.row = row /\ await.obj = Len(intents) + 1
      /\ await # NoReq
  <2>1. row \in Row /\ await \in [obj : Nat, row : Row]
    BY DEF Row, Statuses, IInv, TypeOK
  <2> QED
    BY <2>1, NoReqAssumption DEF NotSending
<1>2. intents' = Append(q, new) /\ client' = [client EXCEPT ![c] = await]
  BY DEF EnqueueNew
<1>3. q \in Seq(Intent) /\ DOMAIN q = DOMAIN intents /\ Len(q) = Len(intents) /\ InPlace(q)
  BY CancelAllType, UpdatesInPlace DEF CancelAll
<1>4. client[c] = NoReq /\ client'[c] = await /\ \A d \in Clients : d # c => client'[d] = client[d]
  BY <1>0, <1>2 DEF IInv, TypeOK
<1> HIDE DEF new, row, await, q
<1>5. SentByDrain'
  BY <1>0, <1>1, <1>2, <1>3, AppendParts, SentStays DEF Senders, NotSending
<1>6. \A i \in DOMAIN intents :
        /\ intents'[i].cmd = intents[i].cmd
        /\ intents'[i].live => intents[i].live
  BY <1>2, <1>3, AppendParts DEF InPlace
<1>7. RowsNotSending'
  <2>1. ASSUME NEW d \in Clients, client'[d] # NoReq
        PROVE  NotSending(client'[d].row) \/ db'[intents'[client'[d].obj].cmd] # NoRow
    <3>1. CASE d = c
      BY <1>1, <1>4, <3>1
    <3>2. CASE d # c
      <4>1. client'[d] = client[d] /\ client[d].obj \in DOMAIN intents
        BY <1>4, <2>1, <3>2, ClientRef
      <4> QED
        BY <1>0, <1>6, <2>1, <4>1 DEF Senders, RowsNotSending
    <3> QED
      BY <3>1, <3>2
  <2> QED
    BY <1>0, <2>1 DEF Senders, RowsNotSending
<1>8. LiveHasRow'
  <2> SUFFICES ASSUME NEW i \in Live'
               PROVE  \/ db[intents'[i].cmd] # NoRow
                      \/ \E d \in Clients : client'[d] # NoReq /\ client'[d].obj = i
    BY <1>0 DEF LiveHasRow
  <2>1. CASE i \in DOMAIN intents
    <3>1. i \in Live /\ intents'[i].cmd = intents[i].cmd
      BY <1>6, <2>1 DEF Live
    <3>2. CASE db[intents[i].cmd] # NoRow
      BY <3>1, <3>2
    <3>3. ASSUME NEW d \in Clients, client[d] # NoReq, client[d].obj = i
          PROVE  \E e \in Clients : client'[e] # NoReq /\ client'[e].obj = i
      BY <1>4, <3>3
    <3> QED
      BY <3>1, <3>2, <3>3 DEF Senders, LiveHasRow
  <2>2. CASE i \notin DOMAIN intents
    <3>1. i = Len(q) + 1
      BY <1>2, <1>3, <2>2, AppendParts DEF Live
    <3> QED
      BY <1>1, <1>3, <1>4, <3>1
  <2> QED
    BY <2>1, <2>2
<1> QED
  BY <1>5, <1>7, <1>8 DEF Senders

\* Here the manager asks for one thing at a time: the object found has its row.
LEMMA SendersKnown ==
    ASSUME OneRequest, IInv, Senders, NEW c \in Clients, NEW cmd \in Commands,
           EnqueueKnown(c, cmd)
    PROVE  Senders'
<1> DEFINE i == SetMin(SameKey(cmd))
           await == [obj |-> i, row |-> [RowOf(i) EXCEPT !.status = intents'[i].status]]
<1>0. [Next]_vars /\ CancelsOnly /\ UNCHANGED <<run, db>> /\ client[c] = NoReq
  BY CommandCancels DEF Next, Command, EnqueueKnown, Ask, durable
<1>1. InPlace(intents') /\ DOMAIN intents' = DOMAIN intents
  BY UpdatesInPlace DEF EnqueueKnown, CancelAll, InPlace
<1>2. client' = [client EXCEPT ![c] = await]
  BY DEF EnqueueKnown
<1>3. \A d \in Clients : d = c /\ client[d] = NoReq
  BY <1>0 DEF OneRequest
<1>4. i \in Live
  <2>1. SameKey(cmd) \subseteq Nat /\ SameKey(cmd) # {} /\ SameKey(cmd) \subseteq Live
    BY DEF SameKey, Live, EnqueueKnown, IInv, TypeOK
  <2> QED
    BY <2>1, SetMinIn
<1>5. await.obj = i
  OBVIOUS
<1> HIDE DEF i, await
<1>6. db'[intents'[i].cmd] # NoRow
  BY <1>0, <1>1, <1>3, <1>4 DEF Senders, LiveHasRow, Live, InPlace
<1>7. client'[c] = await
  BY <1>2 DEF IInv, TypeOK
<1>8. RowsNotSending'
  BY <1>0, <1>3, <1>5, <1>6, <1>7 DEF Senders, RowsNotSending
<1>9. LiveHasRow'
  BY <1>0, <1>1, <1>3, RowsKept DEF Senders
<1>10. SentByDrain'
  BY <1>0, <1>1, SentStays DEF Senders
<1> QED
  BY <1>8, <1>9, <1>10 DEF Senders

\* The steps that leave the objects in place and the requests alone.
LEMMA SendersInPlace ==
    ASSUME IInv, Senders, [Next]_vars, CancelsOnly, UNCHANGED run, UNCHANGED client,
           InPlace(intents'), \A cmd \in Commands : db'[cmd] # NoRow => NotSending(db'[cmd])
    PROVE  Senders'
<1>1. DOMAIN intents' = DOMAIN intents
  BY DEF InPlace
<1>2. SentByDrain'
  BY <1>1, SentStays DEF Senders
<1>3. LiveHasRow'
  BY RowsKept DEF Senders
<1>4. ASSUME NEW c \in Clients, client'[c] # NoReq
      PROVE  NotSending(client'[c].row) \/ db'[intents'[client'[c].obj].cmd] # NoRow
  <2>1. client[c] # NoReq /\ client[c].obj \in DOMAIN intents
    BY <1>4, ClientRef
  <2> QED
    BY <2>1, RequestsKeepRows DEF Senders, InPlace
<1>5. RowsNotSending'
  BY <1>4 DEF Senders, RowsNotSending
<1> QED
  BY <1>2, <1>3, <1>5 DEF Senders

LEMMA SendersRequest ==
    ASSUME IInv, Senders, NEW c \in Clients, PersistOk(c) \/ PersistFails(c)
    PROVE  Senders'
<1> DEFINE obj == client[c].obj
<1>1. /\ [Next]_vars /\ CancelsOnly /\ UNCHANGED run /\ client[c] # NoReq
      /\ client' = [client EXCEPT ![c] = NoReq]
  BY OthersCancelOnly DEF Next, Request, PersistOk, PersistFails
<1>2. InPlace(intents') /\ DOMAIN intents' = DOMAIN intents
  <2>1. InPlace(intents')
    <3>1. CASE PersistOk(c)
      BY <3>1, UpdatesInPlace DEF PersistOk
    <3>2. CASE PersistFails(c)
      BY <3>2, UpdatesInPlace DEF PersistFails
    <3> QED
      BY <3>1, <3>2
  <2> QED
    BY <2>1 DEF InPlace
<1>3. obj \in DOMAIN intents /\ intents[obj] \in Intent /\ intents[obj].cmd \in Commands
  BY <1>1, ClientRef
<1>4. obj \in Live' => db'[intents'[obj].cmd] # NoRow
  <2>1. CASE PersistOk(c)
    <3>1. db'[intents[obj].cmd] \in Row
      BY <1>1, <2>1, InsertedType DEF PersistOk
    <3> QED
      BY <1>2, <1>3, <3>1, NoRowAssumption DEF InPlace
  <2>2. CASE PersistFails(c)
    <3>1. intents' = [intents EXCEPT ![obj].live = FALSE]
      BY <2>2 DEF PersistFails
    <3>2. intents'[obj].live = FALSE
      BY <1>3, <3>1 DEF Intent
    <3> QED
      BY <3>2 DEF Live
  <2> QED
    BY <2>1, <2>2
<1>5. \A cmd \in Commands : db'[cmd] # NoRow => NotSending(db'[cmd])
  <2>1. Inserted(c) \/ UNCHANGED durable
    BY DEF PersistOk, PersistFails
  <2> QED
    BY <1>1, <2>1, InsertNotSending DEF Senders, RowsNotSending, durable
<1> HIDE DEF obj
<1>6. client'[c] = NoReq /\ \A d \in Clients : d # c => client'[d] = client[d]
  BY <1>1 DEF IInv, TypeOK
<1>7. SentByDrain'
  BY <1>1, <1>2, SentStays DEF Senders
<1>8. ASSUME NEW d \in Clients, client'[d] # NoReq
      PROVE  NotSending(client'[d].row) \/ db'[intents'[client'[d].obj].cmd] # NoRow
  <2>1. d # c /\ client'[d] = client[d] /\ client[d] # NoReq
    BY <1>6, <1>8
  <2>2. client[d].obj \in DOMAIN intents
    BY <2>1, ClientRef
  <2> QED
    BY <1>1, <1>2, <2>1, <2>2, RequestsKeepRows DEF Senders, InPlace
<1>9. RowsNotSending'
  BY <1>1, <1>5, <1>8 DEF Senders, RowsNotSending
<1>10. LiveHasRow'
  <2> SUFFICES ASSUME NEW i \in Live', i # obj, db'[intents'[i].cmd] = NoRow
               PROVE  \E d \in Clients : client'[d] # NoReq /\ client'[d].obj = i
    BY <1>4 DEF LiveHasRow
  <2>1. i \in Live /\ intents'[i].cmd = intents[i].cmd
    BY <1>2 DEF Live, InPlace
  <2>2. intents[i].cmd \in Commands
    <3>1. intents[i] \in Intent
      BY <2>1 DEF Live, IInv, TypeOK
    <3> QED
      BY <3>1 DEF Intent
  <2>3. db[intents[i].cmd] = NoRow
    BY <1>1, <2>1, <2>2, RowsStay
  <2>4. PICK d \in Clients : client[d] # NoReq /\ client[d].obj = i
    BY <2>1, <2>3 DEF Senders, LiveHasRow
  <2>5. d # c
    BY <2>4 DEF obj
  <2> QED
    BY <1>6, <2>4, <2>5
<1> QED
  BY <1>7, <1>9, <1>10 DEF Senders

\* One drain: the answer ends the status, and the rows are written when none is awaited.
LEMMA SendersDrain ==
    ASSUME OneDrain, IInv, DrainsAtWork, Senders, NEW r \in Runs, StartDrain(r) \/ Answered(r)
    PROVE  Senders'
<1>1. /\ [Next]_vars /\ Moves(r) /\ InPlace(intents') /\ DOMAIN intents' = DOMAIN intents
      /\ AtWork(run[r], intents)
  BY DrainMoves, DrainInPlace DEF Next, Drain, InPlace, DrainsAtWork
<1>2. client' = client
  BY DEF StartDrain, Answered, ResumeNext, ResumeDone, ResumeGetOk,
       ResumeGetFails, PickProperty, SendNext, SendDone, PostOk, PostPartial, PostUnknown,
       PostRefused, PostReturns, VerifyOk, VerifyFails, DrainDone, BookingsDone, PersistNext,
       PersistLoopDone, PersistRowOk, PersistRowFails, RunOnly
<1>3. ASSUME run[r].pc = "post" PROVE intents'[run[r].cur].status # "sending"
  <2>1. PostOk(r) \/ PostPartial(r) \/ PostUnknown(r) \/ PostRefused(r)
    BY <1>3 DEF StartDrain, Answered, ResumeNext, ResumeDone, ResumeGetOk, ResumeGetFails,
         PickProperty, SendNext, SendDone, VerifyOk, VerifyFails, DrainDone, BookingsDone,
         PersistNext, PersistLoopDone, PersistRowOk, PersistRowFails, Reading
  <2>2. run[r].cur \in DOMAIN intents
    BY <1>3 DEF IInv, RefsOK, Refs
  <2> QED
    BY <2>1, <2>2, Touched DEF PostOk, PostPartial, PostUnknown, PostRefused
<1>4. ASSUME NEW i \in DOMAIN intents, intents'[i].status = "sending"
      PROVE  run'[r].pc = "post" /\ run'[r].cur = i
  <2>1. intents[i].status # "sending"
    <3> SUFFICES ASSUME intents[i].status = "sending" PROVE FALSE
      OBVIOUS
    <3>1. run[r].pc = "post" /\ run[r].cur = i
      BY DEF Senders, SentByDrain, HasStatus, OneDrain
    <3> QED
      BY <1>3, <1>4, <3>1
  <2>2. run[r].pc = "send" /\ i \in run[r].toSend
    BY <1>4, <2>1, DrainEdges DEF Edge
  <2>3. ~SendDone(r)
    BY <2>2 DEF SendDone
  <2>4. PICK j \in run[r].toSend : SendNext(r, j)
    BY <2>2, <2>3 DEF StartDrain, Answered, ResumeNext, ResumeDone, ResumeGetOk, ResumeGetFails,
         PickProperty, PostOk, PostPartial, PostUnknown, PostRefused, PostReturns, VerifyOk,
         VerifyFails, DrainDone, BookingsDone, PersistNext, PersistLoopDone, PersistRowOk,
         PersistRowFails, Reading
  <2>5. i = j /\ ~NoTarget(j)
    BY <1>4, <2>1, <2>4, Touched DEF SendNext
  <2> DEFINE next == [run[r] EXCEPT !.toSend = @ \ {j}, !.processed = TRUE]
             posting == [next EXCEPT !.pc = "post", !.cur = j]
  <2>6. run' = [run EXCEPT ![r] = posting]
    BY <2>4, <2>5 DEF SendNext, Await
  <2>7. posting.pc = "post" /\ posting.cur = j
    BY DEF IInv, TypeOK, RunState
  <2> HIDE DEF next, posting
  <2> QED
    BY <2>5, <2>6, <2>7 DEF IInv, TypeOK
<1>5. SentByDrain'
  BY <1>1, <1>4 DEF SentByDrain, HasStatus
<1>6. LiveHasRow'
  BY <1>1, <1>2, RowsKept DEF Senders
<1>7. ASSUME NEW s \in Runs, run'[s].pc = "persistRow" PROVE NotSending(run'[s].row)
  <2>1. s = r
    BY DEF OneDrain
  <2>2. PICK i \in DOMAIN intents : run[r].pc = "persist" /\ run'[r].row = RowOf(i)
    BY <1>1, <1>7, <2>1 DEF Moves
  <2>3. intents[i].status # "sending"
    BY <2>2 DEF Senders, SentByDrain, HasStatus, OneDrain
  <2> QED
    BY <2>1, <2>2, <2>3 DEF RowOf, NotSending
<1>8. \A cmd \in Commands : db'[cmd] # NoRow => NotSending(db'[cmd])
  <2>1. CASE PersistRowOk(r)
    BY <2>1, UpdateNotSending DEF PersistRowOk, Reading, Senders
  <2>2. CASE UNCHANGED durable
    BY <2>2 DEF durable, Senders, RowsNotSending
  <2> QED
    BY <2>1, <2>2, DrainWritesRows
<1>9. ASSUME NEW c \in Clients, client'[c] # NoReq
      PROVE  NotSending(client'[c].row) \/ db'[intents'[client'[c].obj].cmd] # NoRow
  <2>1. client[c] # NoReq /\ client'[c] = client[c] /\ client[c].obj \in DOMAIN intents
    BY <1>2, <1>9, ClientRef
  <2> QED
    BY <1>1, <2>1, RequestsKeepRows DEF Senders, InPlace
<1> QED
  BY <1>5, <1>6, <1>7, <1>8, <1>9 DEF Senders, RowsNotSending

LEMMA SendersCrash ==
    ASSUME IInv, Senders, Crash
    PROVE  Senders'
<1>1. /\ intents' = <<>> /\ (\A r \in Runs : run'[r] = Idle) /\ (\A c \in Clients : client'[c] = NoReq)
  BY DEF Crash
<1>2. DOMAIN intents' = {}
  BY <1>1
<1>3. \A cmd \in Commands : db'[cmd] # NoRow => NotSending(db'[cmd])
  BY InsertNotSending, UpdateNotSending DEF Crash, durable, Senders, RowsNotSending
<1> QED
  BY <1>1, <1>2, <1>3 DEF Senders, SentByDrain, RowsNotSending, LiveHasRow, Live, Idle

LEMMA SendersHydrate ==
    ASSUME IInv, Senders, NEW cmd \in Commands, HydrateRow(cmd)
    PROVE  Senders'
<1> DEFINE new == [cmd |-> cmd, id |-> db[cmd].id, status |-> db[cmd].status,
                   backoff |-> db[cmd].backoff, tasked |-> db[cmd].tasked, live |-> TRUE]
<1>1. db[cmd] # NoRow /\ NotSending(db[cmd])
  BY DEF HydrateRow, Missing, Senders, RowsNotSending
<1>2. NotSending(new) /\ new.cmd = cmd
  BY <1>1 DEF NotSending
<1>3. intents' = Append(intents, new) /\ UNCHANGED <<run, client, db>>
  BY DEF HydrateRow, durable
<1>4. CancelsOnly /\ intents \in Seq(Intent)
  BY OthersCancelOnly DEF Hydrate, IInv, TypeOK
<1> HIDE DEF new
<1>5. /\ DOMAIN intents' = DOMAIN intents \cup {Len(intents) + 1}
      /\ intents'[Len(intents) + 1] = new /\ \A i \in DOMAIN intents : intents'[i] = intents[i]
  BY <1>3, <1>4, AppendParts
<1>6. SentByDrain'
  BY <1>2, <1>3, <1>4, <1>5, SentStays DEF Senders, NotSending
<1>7. LiveHasRow'
  BY <1>1, <1>2, <1>3, <1>5 DEF LiveHasRow, Live, Senders
<1>8. ASSUME NEW c \in Clients, client[c] # NoReq
      PROVE  NotSending(client[c].row) \/ db[intents'[client[c].obj].cmd] # NoRow
  BY <1>5, <1>8, ClientRef DEF Senders, RowsNotSending
<1>9. RowsNotSending'
  BY <1>3, <1>8 DEF Senders, RowsNotSending
<1> QED
  BY <1>6, <1>7, <1>9 DEF Senders

\* "Nothing resumes or resends sending": no intent is left in it.  Whatever fails, and
\* across restarts, an intent in status 'sending' is the one a drain awaits the answer of
\* its POST for, as long as one drain and one request run at a time.  (A second request
\* for the same command would carry 'sending' to a row that the first did not insert, and
\* a restart would read it from there.)
THEOREM SendingIsAwaited ==
    ASSUME OneDrain, OneRequest
    PROVE  Spec => []SendingHasSender
<1> DEFINE Inv == IInv /\ DrainsAtWork /\ Senders
<1>1. Init => Inv
  <2> SUFFICES ASSUME Init PROVE Senders
    BY InitIInv, IdleAtWork DEF Init, DrainsAtWork
  <2>1. DOMAIN intents = {}
    BY DEF Init
  <2> QED
    BY <2>1 DEF Init, Senders, SentByDrain, RowsNotSending, LiveHasRow, Live, Idle
<1>2. Inv /\ [Next]_vars => Inv'
  <2> SUFFICES ASSUME Inv, [Next]_vars PROVE Senders'
    BY NextIInv, NextWork
  <2>1. ASSUME NEW c \in Clients, NEW cmd \in Commands, SupersedeConflict(c, cmd) PROVE Senders'
    <3>1. InPlace(intents') /\ CancelsOnly
      BY <2>1, UpdatesInPlace, CommandCancels DEF SupersedeConflict
    <3>2. UNCHANGED <<run, client, db>>
      BY <2>1 DEF SupersedeConflict, Ask, durable
    <3> QED
      BY <3>1, <3>2, SendersInPlace DEF Senders, RowsNotSending
  <2>2. CASE Environment \/ HydrateDone \/ HydrateFails \/ UNCHANGED vars
    <3>1. CancelsOnly /\ UNCHANGED <<run, client, db>>
      BY <2>2, OthersCancelOnly DEF Hydrate, HydrateDone, HydrateFails, Environment,
           BackoffExpires, ExternalEdit, PullChanges, vars, memory, durable
    <3>2. InPlace(intents) /\ \A i : InPlace([intents EXCEPT ![i].backoff = FALSE])
      BY UpdatesInPlace DEF InPlace
    <3>3. InPlace(intents')
      BY <2>2, <3>2 DEF HydrateDone, HydrateFails, Environment,
           BackoffExpires, ExternalEdit, PullChanges, vars, memory
    <3> QED
      BY <3>1, <3>3, SendersInPlace DEF Senders, RowsNotSending
  <2> QED
    BY <2>1, <2>2, SendersNew, SendersKnown, SendersRequest, SendersDrain, SendersCrash,
       SendersHydrate DEF Next, Command, Request, Drain, Hydrate
<1>3. Inv => SendingHasSender
  BY DEF Senders, SentByDrain, SendingHasSender, Live
<1> HIDE DEF Inv
<1> QED
  BY <1>1, <1>2, <1>3, PTL DEF Spec

-----------------------------------------------------------------------------
(* Commands of one cell: what an id names, and who sends in which order.   *)

\* No answer was lost and the process has not restarted since the start.
NoneLost == \A k \in {"get", "lost", "crash"} : faults[k] = MaxFaults[k]

\* The ids that memory gives are below those of the rows, or a command is asked when the
\* one before it has its row: the table is shared by all networks, its serial far ahead.
IdsApart == OneRequest \/ FirstDbId > MaxCommands

\* A live intent has the id of its row, or the one memory gave it and a request that
\* awaits the row.
HasRowId(i) == db[intents[i].cmd] # NoRow /\ intents[i].id = db[intents[i].cmd].id
Pending(i) == intents[i].id < nextId /\ \E c \in Clients : client[c] # NoReq /\ client[c].obj = i
IdsTell ==
    /\ ~hydrating /\ nextId <= clock + 1 /\ FirstDbId <= nextDbId
    /\ \A cmd \in Commands : db[cmd] # NoRow => FirstDbId <= db[cmd].id /\ db[cmd].id < nextDbId
    /\ \A a, b \in Commands : db[a] # NoRow /\ db[b] # NoRow /\ db[a].id = db[b].id => a = b
    /\ \A i \in Live : HasRowId(i) \/ Pending(i)
    /\ \A i, j \in Live : ~HasRowId(i) /\ ~HasRowId(j) /\ intents[i].id = intents[j].id => i = j

\* What a drain may still post: what it has seen and could be sent, what it has picked (a
\* command may have cancelled that since: nothing looks again), what it is posting.
Working(r) == run[r].pc \in {"resume", "resumeGet", "property", "send", "post", "verifyGet"}
Hand(r) ==
    {i \in DOMAIN intents :
        \/ Working(r) /\ i \in run[r].seen /\ HasStatus(i, SENDABLE)
        \/ i \in run[r].toSend
        \/ run[r].pc = "post" /\ run[r].cur = i}
Waiting == {i \in Live : HasStatus(i, SENDABLE)}
Stamp(i) == issued[intents[i].cmd]
Meet(i, j) == \E x \in CellsOf(intents[i].cmd) : x \in CellsOf(intents[j].cmd)

\* Of the intents that wait at most one is for a cell, and so of those in hand; what is in
\* hand was asked before what waits; and nothing newer is at Channex than either.
InOrder ==
    /\ \A i, j \in Waiting : Meet(i, j) => i = j
    /\ \A r \in Runs : \A i, j \in Hand(r) : Meet(i, j) => i = j
    /\ \A r \in Runs : \A i \in Hand(r), j \in Waiting : Meet(i, j) => Stamp(i) <= Stamp(j)
    /\ \A i \in Waiting \cup UNION {Hand(r) : r \in Runs} :
          \A x \in CellsOf(intents[i].cmd) : remote[x].at <= Stamp(i)
Clocked ==
    /\ \A k \in FaultKinds : faults[k] <= MaxFaults[k]
    /\ \A cmd \in Commands : issued[cmd] <= clock
    /\ \A x \in Cells : remote[x].at <= clock
    /\ \A x \in Cells : remote[x].at = 0 \/
          \E cmd \in Commands : x \in CellsOf(cmd) /\ remote[x].at <= issued[cmd]
OInv == Clocked /\ (NoneLost => IdsTell /\ InOrder)

\* Each resource is always written as a whole.  Otherwise a newer command for other dates
\* of the same resource takes the place of one that waits.
WholeResources ==
    \A a, b \in Inputs : a.res = b.res => a.dates = b.dates /\ a.fields = b.fields
Asked == {cmd \in Commands : issued[cmd] > 0}
Flawless == faults = MaxFaults /\ clock = Cardinality(Asked)
\* Each command that was asked is at Channex, or a live intent for its cells that is as new
\* is on its way.
Coming(x, n) ==
    \E j \in Live : /\ HasStatus(j, SENDABLE \cup {"sending"})
                    /\ x \in CellsOf(intents[j].cmd) /\ n <= Stamp(j)
NothingLost ==
    /\ \A i \in DOMAIN intents : Stamp(i) > 0
    /\ \A cmd \in Asked : \A x \in CellsOf(cmd) :
          issued[cmd] <= remote[x].at \/ Coming(x, issued[cmd])
WInv == IsFiniteSet(Asked) /\ Cardinality(Asked) <= clock /\ (Flawless => NothingLost)

-----------------------------------------------------------------------------
(* The clock and the faults only go one way.                               *)

LEMMA FaultsFall ==
    ASSUME IInv, [Next]_vars
    PROVE  \A k \in FaultKinds : faults'[k] <= faults[k]
<1>1. faults \in [FaultKinds -> Nat]
  BY DEF IInv, TypeOK
<1>2. ASSUME NEW k \in FaultKinds, Fault(k) PROVE \A m \in FaultKinds : faults'[m] <= faults[m]
  BY <1>1, <1>2 DEF Fault
<1>3. ASSUME faults' = faults PROVE \A m \in FaultKinds : faults'[m] <= faults[m]
  BY <1>1, <1>3
<1>4. CASE Command
  BY <1>3, <1>4 DEF Command, EnqueueNew, EnqueueKnown, SupersedeConflict, Ask
<1>5. CASE Request \/ Hydrate \/ Crash \/ Environment
  BY <1>2, <1>3, <1>5 DEF Request, PersistOk, PersistFails, Hydrate, HydrateRow, HydrateDone,
       HydrateFails, Crash, Environment, BackoffExpires, ExternalEdit, PullChanges, FaultKinds
<1>6. CASE Drain
  <2> SUFFICES ASSUME NEW r \in Runs, StartDrain(r) \/ Answered(r)
               PROVE  \A m \in FaultKinds : faults'[m] <= faults[m]
    BY <1>6 DEF Drain
  <2>1. faults' = faults \/ \E k \in FaultKinds : Fault(k)
    BY DEF StartDrain, Answered, ResumeNext, ResumeDone, ResumeGetOk, ResumeGetFails,
         PickProperty, SendNext, SendDone, PostOk, PostPartial, PostUnknown, PostRefused,
         VerifyOk, VerifyFails, DrainDone, BookingsDone, PersistNext,
         PersistLoopDone, PersistRowOk, PersistRowFails, FaultKinds
  <2> QED
    BY <1>2, <1>3, <2>1
<1>7. CASE UNCHANGED vars
  BY <1>3, <1>7 DEF vars
<1> QED
  BY <1>4, <1>5, <1>6, <1>7 DEF Next

\* A fault that comes is no longer allowed: while none has come, no step brings it.
LEMMA NoneLostBefore ==
    ASSUME IInv, Clocked, [Next]_vars
    PROVE  /\ NoneLost' => NoneLost
           /\ faults' = MaxFaults => faults = MaxFaults
           /\ \A k \in {"get", "lost", "crash"} : Fault(k) => ~NoneLost'
           /\ \A k \in FaultKinds : Fault(k) => faults' # MaxFaults
<1>1. /\ faults \in [FaultKinds -> Nat] /\ MaxFaults \in [FaultKinds -> Nat]
      /\ faults' \in [FaultKinds -> Nat]
  BY NextIInv, ConstantsAssumption DEF IInv, TypeOK
<1>2. \A k \in FaultKinds : faults'[k] <= faults[k] /\ faults[k] <= MaxFaults[k]
  BY FaultsFall DEF Clocked
<1>3. NoneLost' => NoneLost
  BY <1>1, <1>2 DEF NoneLost, FaultKinds
<1>4. ASSUME faults' = MaxFaults PROVE faults = MaxFaults
  <2>1. \A k \in FaultKinds : faults[k] = MaxFaults[k]
    BY <1>1, <1>2, <1>4
  <2> QED
    BY <1>1, <2>1
<1>5. ASSUME NEW k \in FaultKinds, Fault(k) PROVE faults'[k] # MaxFaults[k]
  BY <1>1, <1>2, <1>5 DEF Fault
<1> QED
  BY <1>3, <1>4, <1>5 DEF NoneLost, FaultKinds

-----------------------------------------------------------------------------
(* The stamps of what is asked, and of what Channex holds.                 *)

\* A command stamps itself; a POST that arrives stamps the cells of its intent.
Stamped ==
    \/ UNCHANGED <<clock, issued>>
    \/ clock' = clock + 1 /\ \E cmd \in Commands : issued' = issued \/ Issue(cmd)
Written ==
    \/ UNCHANGED remote
    \/ \E x \in Cells, v \in Values : remote' = [remote EXCEPT ![x] = [val |-> v, at |-> 0]]
    \/ \E r \in Runs : \E cells \in SUBSET CellsOf(intents[run[r].cur].cmd) :
          run[r].pc = "post" /\ Write(run[r].cur, cells)

LEMMA NextStamps ==
    ASSUME [Next]_vars
    PROVE  /\ Stamped /\ Written
           /\ UNCHANGED <<clock, issued>> \/ (Command /\ UNCHANGED remote)
<1>1. CASE Command
  BY <1>1 DEF Command, EnqueueNew, EnqueueKnown, SupersedeConflict, Ask, Stamped, Written
<1>2. CASE Request \/ Hydrate
  BY <1>2 DEF Request, PersistOk, PersistFails, Hydrate, HydrateRow, HydrateDone, HydrateFails,
       history, Stamped, Written
<1>3. CASE Environment \/ UNCHANGED vars
  BY <1>3 DEF Environment, BackoffExpires, ExternalEdit, PullChanges, vars, history,
       Stamped, Written
<1>4. CASE Crash
  BY <1>4 DEF Crash, history, Stamped, Written
<1>5. ASSUME NEW r \in Runs, StartDrain(r) \/ Answered(r)
      PROVE  UNCHANGED <<clock, issued>> /\ Written
  <2>1. CASE PostOk(r) \/ PostPartial(r) \/ PostUnknown(r) \/ PostRefused(r)
    BY <2>1 DEF PostOk, PostPartial, PostUnknown, PostRefused, PostReturns, Reading, history, Written
  <2>2. CASE ~(PostOk(r) \/ PostPartial(r) \/ PostUnknown(r) \/ PostRefused(r))
    BY <1>5, <2>2 DEF StartDrain, Answered, ResumeNext, ResumeDone, ResumeGetOk, ResumeGetFails,
         PickProperty, SendNext, SendDone, VerifyOk, VerifyFails, DrainDone, BookingsDone,
         PersistNext, PersistLoopDone, PersistRowOk, PersistRowFails, RunOnly, history, Written
  <2> QED
    BY <2>1, <2>2
<1> QED
  BY <1>1, <1>2, <1>3, <1>4, <1>5 DEF Next, Drain, Stamped

\* A write leaves a cell as it was, or with the stamp of what is posted, or with none.
LEMMA WrittenParts ==
    ASSUME IInv, Written, NEW x \in Cells
    PROVE  \/ remote'[x] = remote[x] \/ remote'[x].at = 0
           \/ \E r \in Runs : /\ run[r].pc = "post" /\ run[r].cur \in DOMAIN intents
                              /\ intents[run[r].cur].cmd \in Commands
                              /\ x \in CellsOf(intents[run[r].cur].cmd)
                              /\ remote'[x].at = Stamp(run[r].cur)
<1>1. remote \in [Cells -> [val : Values, at : 0..MaxCommands]]
  BY DEF IInv, TypeOK
<1>2. ASSUME NEW y \in Cells, NEW v, remote' = [remote EXCEPT ![y] = [val |-> v, at |-> 0]]
      PROVE  remote'[x] = remote[x] \/ remote'[x].at = 0
  BY <1>1, <1>2
<1>3. ASSUME NEW r \in Runs, run[r].pc = "post",
             NEW cells \in SUBSET CellsOf(intents[run[r].cur].cmd), Write(run[r].cur, cells)
      PROVE  \/ remote'[x] = remote[x]
             \/ /\ run[r].cur \in DOMAIN intents /\ intents[run[r].cur].cmd \in Commands
                /\ x \in CellsOf(intents[run[r].cur].cmd)
                /\ remote'[x].at = Stamp(run[r].cur)
  <2>1. run[r].cur \in DOMAIN intents
    BY <1>3 DEF IInv, RefsOK, Refs
  <2>2. intents[run[r].cur] \in Intent
    BY <2>1 DEF IInv, TypeOK
  <2>3. intents[run[r].cur].cmd \in Commands
    BY <2>2 DEF Intent
  <2> QED
    BY <1>3, <2>1, <2>3 DEF Write, Stamp
<1> QED
  BY <1>2, <1>3 DEF Written

LEMMA NextClocked ==
    ASSUME IInv, Clocked, [Next]_vars
    PROVE  Clocked'
<1>1. /\ faults \in [FaultKinds -> Nat] /\ MaxFaults \in [FaultKinds -> Nat]
      /\ faults' \in [FaultKinds -> Nat]
      /\ clock \in Nat /\ issued \in [Commands -> Nat] /\ issued' \in [Commands -> Nat]
      /\ \A x \in Cells : remote[x].at \in Nat
  BY NextIInv, ConstantsAssumption DEF IInv, TypeOK
<1>2. \A k \in FaultKinds : faults'[k] <= MaxFaults[k]
  BY <1>1, FaultsFall DEF Clocked
<1>3. clock' \in Nat /\ clock <= clock' /\ \A cmd \in Commands : issued[cmd] <= issued'[cmd] /\ issued'[cmd] <= clock'
  BY <1>1, NextStamps DEF Stamped, Issue, Clocked
<1>4. ASSUME NEW x \in Cells
      PROVE  /\ remote'[x].at <= clock'
             /\ remote'[x].at = 0 \/ \E cmd \in Commands : x \in CellsOf(cmd) /\ remote'[x].at <= issued'[cmd]
  <2>1. CASE remote'[x] = remote[x]
    BY <1>1, <1>3, <2>1 DEF Clocked
  <2>2. CASE remote'[x].at = 0
    BY <1>3, <2>2
  <2>3. ASSUME NEW cmd \in Commands, x \in CellsOf(cmd), remote'[x].at = issued[cmd]
        PROVE  remote'[x].at <= clock' /\ remote'[x].at <= issued'[cmd]
    BY <1>1, <1>3, <2>3 DEF Clocked
  <2> QED
    BY <2>1, <2>2, <2>3, NextStamps, WrittenParts DEF Stamp
<1> QED
  BY <1>2, <1>3, <1>4 DEF Clocked

-----------------------------------------------------------------------------
(* What an id names.                                                       *)

\* When a request is free, no two live intents have the same id.
LEMMA IdsUnique ==
    ASSUME IdsApart, IInv, LiveKeysUnique, Clocked, IdsTell, NEW c \in Clients, client[c] = NoReq
    PROVE  \A i, j \in Live : intents[i].id = intents[j].id => i = j
<1> SUFFICES ASSUME NEW i \in Live, NEW j \in Live, intents[i].id = intents[j].id PROVE i = j
  OBVIOUS
<1>1. /\ intents[i].cmd \in Commands /\ intents[j].cmd \in Commands
      /\ intents[i].id \in Nat /\ intents[j].id \in Nat
  <2>1. intents[i] \in Intent /\ intents[j] \in Intent
    BY DEF Live, IInv, TypeOK
  <2> QED
    BY <2>1 DEF Intent
<1>2. /\ nextId \in Nat /\ clock \in 0..MaxCommands /\ FirstDbId \in Nat /\ MaxCommands \in Nat
      /\ nextId <= clock + 1
  BY ConstantsAssumption DEF IInv, TypeOK, IdsTell
<1>3. ASSUME NEW k \in Live, NEW l \in Live, HasRowId(k), Pending(l), ~HasRowId(l),
             intents[k].id = intents[l].id, intents[k].cmd \in Commands, intents[k].id \in Nat
      PROVE  FALSE
  <2>1. ~OneRequest
    BY <1>3 DEF Pending, OneRequest
  <2>2. FirstDbId <= intents[k].id
    BY <1>3 DEF HasRowId, IdsTell
  <2> QED
    BY <1>2, <1>3, <2>1, <2>2 DEF Pending, IdsApart
<1>4. CASE HasRowId(i) /\ HasRowId(j)
  <2>1. \A a, b \in Commands :
           db[a] # NoRow /\ db[b] # NoRow /\ db[a].id = db[b].id => a = b
    BY Zenon DEF IdsTell
  <2>2. intents[i].cmd = intents[j].cmd
    BY <1>1, <1>4, <2>1 DEF HasRowId
  <2> QED
    BY <2>2 DEF LiveKeysUnique
<1>5. CASE ~HasRowId(i) /\ ~HasRowId(j)
  <2>1. \A k, l \in Live :
           ~HasRowId(k) /\ ~HasRowId(l) /\ intents[k].id = intents[l].id => k = l
    BY Zenon DEF IdsTell
  <2> QED
    BY <1>5, <2>1
<1> QED
  BY <1>1, <1>3, <1>4, <1>5 DEF IdsTell

\* ... so a command cancels just the intents it supersedes.
LEMMA FindsItself ==
    ASSUME IdsApart, IInv, LiveKeysUnique, Clocked, IdsTell, NEW c \in Clients, client[c] = NoReq,
           NEW cmd
    PROVE  /\ \A i \in Superseded(cmd) : FoundById(i) = i
           /\ {FoundById(i) : i \in Superseded(cmd)} = Superseded(cmd)
           /\ Unfindable(cmd) = {}
<1>1. ASSUME NEW i \in Superseded(cmd) PROVE FoundById(i) = i
  <2>1. i \in Live /\ i \in Nat /\ {j \in Live : intents[j].id = intents[i].id} = {i}
    BY IdsUnique DEF Superseded, Live, IInv, TypeOK
  <2>2. SetMin({i}) = i
    BY <2>1, SetMinIn
  <2> QED
    BY <2>1, <2>2 DEF FoundById
<1>2. \A i \in Superseded(cmd) : HasStatus(i, SENDABLE) /\ i \in Nat
  BY DEF Superseded, Live, IInv, TypeOK
<1>3. Unfindable(cmd) = {}
  BY <1>1, <1>2 DEF Unfindable
<1> QED
  BY <1>1, <1>3

\* What a step keeps of every object: its place, command and id, and that it is gone.
KeepsIds(q) ==
    /\ DOMAIN q = DOMAIN intents
    /\ \A i \in DOMAIN intents :
          q[i].cmd = intents[i].cmd /\ q[i].id = intents[i].id /\ (q[i].live => intents[i].live)
KeepsRows ==
    \A cmd \in Commands : /\ db'[cmd] = NoRow <=> db[cmd] = NoRow
                          /\ db[cmd] # NoRow => db'[cmd].id = db[cmd].id

LEMMA UpdatesKeepIds ==
    ASSUME IInv
    PROVE  /\ KeepsIds(intents)
           /\ \A S, s : KeepsIds(WithStatus(S, s))
           /\ \A i : KeepsIds(WithRetry(i))
           /\ \A i, s : KeepsIds(WithTask(i, s))
           /\ \A i, b : KeepsIds([intents EXCEPT ![i].backoff = b])
           /\ \A i : KeepsIds([intents EXCEPT ![i].live = FALSE])
<1>1. intents \in Seq(Intent) /\ \A i \in DOMAIN intents : intents[i] \in Intent
  BY DEF IInv, TypeOK
<1>2. ASSUME NEW S, NEW s PROVE KeepsIds(WithStatus(S, s))
  BY <1>1 DEF WithStatus, KeepsIds, Intent
<1>3. ASSUME NEW i PROVE KeepsIds(WithRetry(i))
  BY <1>1 DEF WithRetry, KeepsIds, Intent
<1>4. ASSUME NEW i, NEW s PROVE KeepsIds(WithTask(i, s))
  BY <1>1 DEF WithTask, KeepsIds, Intent
<1>5. ASSUME NEW i, NEW b PROVE KeepsIds([intents EXCEPT ![i].backoff = b])
  BY <1>1 DEF KeepsIds, Intent
<1>6. ASSUME NEW i PROVE KeepsIds([intents EXCEPT ![i].live = FALSE])
  BY <1>1 DEF KeepsIds, Intent
<1>7. KeepsIds(intents)
  BY DEF KeepsIds
<1> QED
  BY <1>2, <1>3, <1>4, <1>5, <1>6, <1>7

LEMMA DrainKeepsIds ==
    ASSUME IInv, NEW r \in Runs, StartDrain(r) \/ Answered(r)
    PROVE  /\ KeepsIds(intents') /\ KeepsRows
           /\ UNCHANGED <<nextId, nextDbId, client, hydrating>>
<1>1. KeepsIds(intents')
  BY UpdatesKeepIds
     DEF StartDrain, Answered, ResumeNext, ResumeDone, ResumeGetOk, ResumeGetFails,
         Compared, PickProperty, SendNext, SendDone, PostOk, PostPartial, PostUnknown,
         PostRefused, PostReturns, VerifyOk, VerifyFails, DrainDone, BookingsDone, PersistNext,
         PersistLoopDone, PersistRowOk, PersistRowFails, RunOnly
<1>2. UNCHANGED <<nextId, nextDbId, client, hydrating>>
  BY DEF StartDrain, Answered, ResumeNext, ResumeDone, ResumeGetOk, ResumeGetFails,
         PickProperty, SendNext, SendDone, PostOk, PostPartial, PostUnknown,
         PostRefused, PostReturns, VerifyOk, VerifyFails, DrainDone, BookingsDone, PersistNext,
         PersistLoopDone, PersistRowOk, PersistRowFails, RunOnly, durable
<1>3. KeepsRows
  <2>1. CASE UNCHANGED durable
    BY <2>1 DEF durable, KeepsRows
  <2>2. CASE PersistRowOk(r)
    <3> DEFINE key == intents[run[r].at].cmd
               new == [run[r].row EXCEPT !.id = db[key].id]
    <3>1. run[r].pc = "persistRow" /\ run[r].at \in DOMAIN intents /\ run[r].row \in Row
      BY <2>2 DEF PersistRowOk, Reading, IInv, RefsOK, Refs
    <3>2. key \in Commands
      <4>1. intents[run[r].at] \in Intent
        BY <3>1 DEF IInv, TypeOK
      <4> QED
        BY <4>1 DEF Intent
    <3>3. db[key] # NoRow => new \in Row /\ new.id = db[key].id
      BY <3>1, <3>2, RowExcept DEF IInv, TypeOK, Row
    <3>4. db' = IF db[key] = NoRow THEN db ELSE [db EXCEPT ![key] = new]
      BY <2>2 DEF PersistRowOk, Updated
    <3> HIDE DEF key, new
    <3> QED
      BY <3>2, <3>3, <3>4, NoRowAssumption DEF KeepsRows, IInv, TypeOK
  <2> QED
    BY <2>1, <2>2, DrainWritesRows
<1> QED
  BY <1>1, <1>2, <1>3

\* No step that keeps the ids, the rows and the requests disturbs what an id names.
LEMMA IdsStay ==
    ASSUME IInv, IdsTell, KeepsIds(intents'), KeepsRows, clock' \in Nat, clock <= clock',
           UNCHANGED <<nextId, nextDbId, hydrating>>,
           \A c \in Clients : client[c] # NoReq => client'[c] = client[c]
    PROVE  IdsTell'
<1>1. \A i \in Live' : i \in Live /\ intents'[i].cmd = intents[i].cmd /\ intents'[i].id = intents[i].id
  BY DEF KeepsIds, Live
<1>2. \A i \in Live : intents[i].cmd \in Commands
  <2>1. \A i \in Live : intents[i] \in Intent
    BY DEF Live, IInv, TypeOK
  <2> QED
    BY <2>1 DEF Intent
<1>3. \A i \in Live' : HasRowId(i)' <=> HasRowId(i)
  BY <1>1, <1>2 DEF HasRowId, KeepsRows
<1>4. \A i \in Live' : Pending(i) => Pending(i)'
  BY <1>1 DEF Pending
<1>5. nextId' <= clock' + 1
  <2>1. nextId \in Nat /\ clock \in Nat /\ clock' \in Nat /\ clock <= clock'
    BY DEF IInv, TypeOK
  <2>2. nextId <= clock + 1
    BY DEF IdsTell
  <2>3. \A a, b, n \in Nat : n <= a + 1 /\ a <= b => n <= b + 1
    OBVIOUS
  <2>4. nextId <= clock' + 1
    BY <2>1, <2>2, <2>3
  <2> QED
    BY <2>4
<1>6. /\ \A i \in Live' : HasRowId(i)' \/ Pending(i)'
      /\ \A i, j \in Live' : ~HasRowId(i)' /\ ~HasRowId(j)' /\ intents'[i].id = intents'[j].id => i = j
  BY <1>1, <1>3, <1>4 DEF IdsTell
<1> QED
  BY <1>5, <1>6 DEF IdsTell, KeepsRows

\* The row of a new key takes the next id of the table, above all that are there.
LEMMA InsertKeepsIds ==
    ASSUME IInv, IdsTell, NEW c \in Clients, client[c] # NoReq, Inserted(c) \/ UNCHANGED durable
    PROVE  /\ FirstDbId <= nextDbId'
           /\ \A cmd \in Commands : db'[cmd] # NoRow => FirstDbId <= db'[cmd].id /\ db'[cmd].id < nextDbId'
           /\ \A a, b \in Commands : db'[a] # NoRow /\ db'[b] # NoRow /\ db'[a].id = db'[b].id => a = b
           /\ \A cmd \in Commands : db[cmd] # NoRow => db'[cmd] = db[cmd]
<1> DEFINE key == intents[client[c].obj].cmd
           new == [client[c].row EXCEPT !.id = nextDbId]
<1>1. key \in Commands /\ client[c].row \in Row /\ nextDbId \in Nat /\ FirstDbId \in Nat
      /\ db \in [Commands -> Row \cup {NoRow}]
  BY ClientRef, ConstantsAssumption DEF IInv, TypeOK
<1>2. new.id = nextDbId /\ new # NoRow
  <2>1. new \in Row
    BY <1>1, RowExcept
  <2> QED
    BY <1>1, <2>1, NoRowAssumption DEF Row
<1>3. \A cmd \in Commands : db[cmd] # NoRow => db[cmd].id \in Nat
  BY <1>1 DEF Row
<1>4. \/ UNCHANGED <<db, nextDbId>>
      \/ db[key] = NoRow /\ db' = [db EXCEPT ![key] = new] /\ nextDbId' = nextDbId + 1
  BY DEF Inserted, durable
<1> HIDE DEF key, new
<1>5. CASE UNCHANGED <<db, nextDbId>>
  BY <1>5 DEF IdsTell
<1>6. CASE db[key] = NoRow /\ db' = [db EXCEPT ![key] = new] /\ nextDbId' = nextDbId + 1
  <2>1. db'[key] = new /\ \A cmd \in Commands : cmd # key => db'[cmd] = db[cmd]
    BY <1>1, <1>6
  <2>2. /\ \A cmd \in Commands : db[cmd] # NoRow => FirstDbId <= db[cmd].id /\ db[cmd].id < nextDbId
        /\ \A a, b \in Commands : db[a] # NoRow /\ db[b] # NoRow /\ db[a].id = db[b].id => a = b
        /\ FirstDbId <= nextDbId
    BY DEF IdsTell
  <2> QED
    BY <1>1, <1>2, <1>3, <1>6, <2>1, <2>2
<1> QED
  BY <1>4, <1>5, <1>6

LEMMA IdsRequest ==
    ASSUME IInv, IdsTell, NEW c \in Clients, PersistOk(c) \/ PersistFails(c)
    PROVE  IdsTell'
<1>0. PICK obj : obj = client[c].obj
  OBVIOUS
<1>1. /\ client[c] # NoReq
      /\ Inserted(c) \/ UNCHANGED durable
      /\ UNCHANGED <<nextId, clock, hydrating>> /\ client' = [client EXCEPT ![c] = NoReq]
  BY DEF PersistOk, PersistFails, history
<1>2. obj \in DOMAIN intents /\ intents[obj] \in Intent /\ intents[obj].cmd \in Commands
  BY <1>0, <1>1, ClientRef
<1>3. \A d \in Clients : d # c => client'[d] = client[d]
  BY <1>1 DEF IInv, TypeOK
<1>4. \A i \in Live : intents[i] \in Intent /\ intents[i].cmd \in Commands
  <2>1. \A i \in Live : intents[i] \in Intent
    BY DEF Live, IInv, TypeOK
  <2> QED
    BY <2>1 DEF Intent
<1>5. \A i \in Live' : /\ i \in Live /\ intents'[i].cmd = intents[i].cmd
                       /\ i # obj => intents'[i].id = intents[i].id
  <2>1. CASE PersistOk(c)
    BY <1>0, <1>2, <2>1 DEF PersistOk, Live, IInv, TypeOK, Intent
  <2>2. CASE PersistFails(c)
    BY <2>2, UpdatesKeepIds DEF PersistFails, KeepsIds, Live
  <2> QED
    BY <2>1, <2>2
<1>6. obj \in Live' => HasRowId(obj)'
  <2>1. CASE PersistOk(c)
    <3>1. db'[intents[obj].cmd] \in Row
      BY <1>0, <1>1, <2>1, InsertedType DEF PersistOk
    <3>2. intents' = [intents EXCEPT ![obj].id = db'[intents[obj].cmd].id]
      BY <1>0, <2>1 DEF PersistOk
    <3>3. intents'[obj].id = db'[intents[obj].cmd].id /\ intents'[obj].cmd = intents[obj].cmd
      BY <1>2, <3>2 DEF Intent
    <3> QED
      BY <3>1, <3>3, NoRowAssumption DEF HasRowId
  <2>2. CASE PersistFails(c)
    <3>1. intents' = [intents EXCEPT ![obj].live = FALSE]
      BY <1>0, <2>2 DEF PersistFails
    <3>2. intents'[obj].live = FALSE
      BY <1>2, <3>1 DEF Intent
    <3> QED
      BY <3>2 DEF Live
  <2> QED
    BY <2>1, <2>2
<1>7. \A i \in Live' : i # obj /\ HasRowId(i) => HasRowId(i)'
  BY <1>1, <1>4, <1>5, InsertKeepsIds DEF HasRowId
<1>8. \A i \in Live' : i # obj /\ Pending(i) => Pending(i)'
  BY <1>0, <1>1, <1>3, <1>5 DEF Pending
<1>9. /\ \A i \in Live' : HasRowId(i)' \/ Pending(i)'
      /\ \A i, j \in Live' : ~HasRowId(i)' /\ ~HasRowId(j)' /\ intents'[i].id = intents'[j].id => i = j
  BY <1>5, <1>6, <1>7, <1>8 DEF IdsTell
<1> QED
  BY <1>1, <1>9, InsertKeepsIds DEF IdsTell

LEMMA IdsNew ==
    ASSUME IInv, IdsTell, NEW c \in Clients, NEW cmd \in Commands, EnqueueNew(c, cmd)
    PROVE  IdsTell'
<1> DEFINE new == [cmd |-> cmd, id |-> nextId, status |-> "queued",
                   backoff |-> FALSE, tasked |-> FALSE, live |-> TRUE]
           row == [id |-> nextId, status |-> "queued", backoff |-> FALSE, tasked |-> FALSE]
           await == [obj |-> Len(intents) + 1, row |-> row]
           q == CancelAll(cmd)
<1>0. PICK n : n = Len(q) + 1
  OBVIOUS
<1>1. /\ client[c] = NoReq /\ UNCHANGED <<db, nextDbId, hydrating>>
      /\ nextId' = nextId + 1 /\ clock' = clock + 1
  BY DEF EnqueueNew, Ask, durable
<1>2. intents' = Append(q, new) /\ client' = [client EXCEPT ![c] = await]
  BY DEF EnqueueNew
<1>3. q \in Seq(Intent) /\ DOMAIN q = DOMAIN intents /\ Len(q) = Len(intents) /\ KeepsIds(q)
  BY CancelAllType, UpdatesKeepIds DEF CancelAll
<1>4. await.obj = n /\ row \in Row /\ n \in Nat /\ new.id = nextId
  BY <1>0, <1>3 DEF Row, Statuses, IInv, TypeOK
<1>5. await # NoReq
  <2> HIDE DEF row, q
  <2> QED
    BY <1>0, <1>3, <1>4, NoReqAssumption
<1> HIDE DEF new, row, await, q
<1>6. client'[c] = await /\ \A d \in Clients : d # c => client'[d] = client[d]
  BY <1>2 DEF IInv, TypeOK
<1>7. /\ DOMAIN intents' = DOMAIN intents \cup {n} /\ intents'[n] = new
      /\ n \notin DOMAIN intents
      /\ \A i \in DOMAIN intents : intents'[i] = q[i]
  BY <1>0, <1>2, <1>3, AppendParts
<1>8. \A i \in Live' : i # n => /\ i \in Live /\ intents'[i].cmd = intents[i].cmd
                               /\ intents'[i].id = intents[i].id
  BY <1>3, <1>7 DEF KeepsIds, Live
<1>9. \A i \in Live : intents[i].id \in Nat
  <2>1. \A i \in Live : intents[i] \in Intent
    BY DEF Live, IInv, TypeOK
  <2> QED
    BY <2>1 DEF Intent
<1>10. nextId \in Nat /\ clock \in Nat
  BY DEF IInv, TypeOK
<1>11. \A i \in Live' : i # n => (HasRowId(i)' <=> HasRowId(i)) /\ (Pending(i) => Pending(i)')
  <2> SUFFICES ASSUME NEW i \in Live', i # n
               PROVE  (HasRowId(i)' <=> HasRowId(i)) /\ (Pending(i) => Pending(i)')
    OBVIOUS
  <2>1. HasRowId(i)' <=> HasRowId(i)
    BY <1>1, <1>8 DEF HasRowId
  <2>2. Pending(i) => Pending(i)'
    BY <1>1, <1>6, <1>8, <1>9, <1>10 DEF Pending
  <2> QED
    BY <2>1, <2>2
<1>12. Pending(n)'
  BY <1>1, <1>4, <1>5, <1>6, <1>7, <1>10 DEF Pending
<1>13. ASSUME NEW i \in Live', i # n, ~HasRowId(i)' PROVE intents'[i].id # intents'[n].id
  BY <1>4, <1>7, <1>8, <1>9, <1>10, <1>11, <1>13 DEF IdsTell, Pending
<1>14. \A i, j \in Live' : ~HasRowId(i)' /\ ~HasRowId(j)' /\ intents'[i].id = intents'[j].id => i = j
  BY <1>8, <1>11, <1>13 DEF IdsTell
<1>15. \A i \in Live' : HasRowId(i)' \/ Pending(i)'
  BY <1>8, <1>11, <1>12 DEF IdsTell
<1> QED
  BY <1>1, <1>10, <1>14, <1>15 DEF IdsTell

LEMMA NextIds ==
    ASSUME IInv, Clocked, IdsTell, NoneLost', [Next]_vars
    PROVE  IdsTell'
<1>1. clock' \in Nat /\ clock <= clock'
  BY NextStamps DEF Stamped, IInv, TypeOK
<1>2. ASSUME NEW c \in Clients, NEW cmd \in Commands, EnqueueKnown(c, cmd) \/ SupersedeConflict(c, cmd)
      PROVE  IdsTell'
  <2>1. KeepsIds(intents')
    BY <1>2, UpdatesKeepIds DEF EnqueueKnown, SupersedeConflict, CancelAll
  <2>2. UNCHANGED <<nextId, db, nextDbId, hydrating>>
    BY <1>2 DEF EnqueueKnown, SupersedeConflict, Ask, durable
  <2>3. \A d \in Clients : client[d] # NoReq => client'[d] = client[d]
    BY <1>2 DEF EnqueueKnown, SupersedeConflict, Ask, IInv, TypeOK
  <2> QED
    BY <1>1, <2>1, <2>2, <2>3, IdsStay DEF KeepsRows
<1>3. CASE Drain
  BY <1>1, <1>3, DrainKeepsIds, IdsStay DEF Drain
<1>4. CASE Environment \/ UNCHANGED vars
  <2>1. KeepsIds(intents')
    BY <1>4, UpdatesKeepIds DEF Environment, BackoffExpires, ExternalEdit, PullChanges, vars, memory
  <2>2. UNCHANGED <<nextId, db, nextDbId, hydrating, client>>
    BY <1>4 DEF Environment, BackoffExpires, ExternalEdit, PullChanges, vars, memory, durable
  <2> QED
    BY <1>1, <2>1, <2>2, IdsStay DEF KeepsRows
<1>5. ~Crash
  BY NoneLostBefore DEF Crash
<1>6. ~Hydrate
  BY DEF Hydrate, HydrateRow, HydrateDone, HydrateFails, IdsTell
<1> QED
  BY <1>2, <1>3, <1>4, <1>5, <1>6, IdsNew, IdsRequest DEF Next, Command, Request

-----------------------------------------------------------------------------
(* The order in which the cells are written.                               *)

LEMMA StampType ==
    ASSUME IInv, NEW i \in DOMAIN intents
    PROVE  intents[i].cmd \in Commands /\ Stamp(i) \in Nat
<1>1. intents[i] \in Intent
  BY DEF IInv, TypeOK
<1>2. intents[i].cmd \in Commands
  BY <1>1 DEF Intent
<1> QED
  BY <1>2 DEF Stamp, IInv, TypeOK

LEMMA CellsType ==
    ASSUME NEW cmd \in Commands
    PROVE  CellsOf(cmd) \subseteq Cells
<1>1. cmd.input \in [res : Resources, dates : SUBSET Dates, fields : SUBSET Fields, val : Values]
  BY ConstantsAssumption DEF Commands
<1> QED
  BY <1>1 DEF CellsOf, Cells

\* Two commands for a cell overlap: the newer one supersedes the older.
LEMMA MeetOverlaps ==
    ASSUME NEW a, NEW b, NEW x, x \in CellsOf(a), x \in CellsOf(b)
    PROVE  Overlaps(a.input, b.input)
BY DEF CellsOf, Overlaps

\* Whatever is still to be sent for a cell is not older than what a POST leaves there.
LEMMA WritesInOrder ==
    ASSUME OneDrain, IInv, InOrder, Written,
           NEW i \in Waiting \cup UNION {Hand(r) : r \in Runs}, NEW x \in CellsOf(intents[i].cmd)
    PROVE  remote'[x].at <= Stamp(i)
<1>1. i \in DOMAIN intents
  BY DEF Waiting, Live, Hand
<1>2. Stamp(i) \in Nat /\ x \in Cells
  BY <1>1, StampType, CellsType
<1>3. CASE remote'[x] = remote[x]
  BY <1>3 DEF InOrder
<1>4. CASE remote'[x].at = 0
  BY <1>2, <1>4
<1>5. ASSUME NEW r \in Runs, run[r].pc = "post", run[r].cur \in DOMAIN intents,
             x \in CellsOf(intents[run[r].cur].cmd), remote'[x].at = Stamp(run[r].cur)
      PROVE  remote'[x].at <= Stamp(i)
  <2>1. run[r].cur \in Hand(r) /\ Meet(run[r].cur, i)
    BY <1>5 DEF Hand, Meet
  <2>2. CASE i \in Waiting
    BY <1>5, <2>1, <2>2 DEF InOrder
  <2>3. CASE i \in Hand(r)
    BY <1>2, <1>5, <2>1, <2>3 DEF InOrder
  <2> QED
    BY <2>2, <2>3 DEF OneDrain
<1> QED
  BY <1>2, <1>3, <1>4, <1>5, WrittenParts

\* Fewer intents to send, the same commands, no newer write.
LEMMA OrderShrinks ==
    ASSUME OneDrain, IInv, InOrder, Written, InPlace(intents'), issued' = issued, Waiting' \subseteq Waiting,
           \A r \in Runs : Hand(r)' \subseteq Hand(r) \/ Hand(r)' \subseteq Waiting
    PROVE  InOrder'
<1>1. Waiting \subseteq DOMAIN intents /\ \A r \in Runs : Hand(r) \subseteq DOMAIN intents
  BY DEF Waiting, Live, Hand
<1>2. \A i \in DOMAIN intents : /\ intents'[i].cmd = intents[i].cmd
                                /\ Stamp(i)' = Stamp(i) /\ Stamp(i) \in Nat
  BY StampType DEF InPlace, Stamp
<1>3. \A i, j \in DOMAIN intents : Meet(i, j)' <=> Meet(i, j)
  BY <1>2 DEF Meet
<1>4. \A i, j \in Waiting' : Meet(i, j)' => i = j
  BY <1>1, <1>3 DEF InOrder
<1>5. \A r \in Runs : \A i, j \in Hand(r)' : Meet(i, j)' => i = j
  <2> SUFFICES ASSUME NEW r \in Runs, NEW i \in Hand(r)', NEW j \in Hand(r)', Meet(i, j)'
               PROVE  i = j
    OBVIOUS
  <2> QED
    BY <1>1, <1>3 DEF InOrder
<1>6. \A r \in Runs : \A i \in Hand(r)', j \in Waiting' : Meet(i, j)' => Stamp(i)' <= Stamp(j)'
  <2> SUFFICES ASSUME NEW r \in Runs, NEW i \in Hand(r)', NEW j \in Waiting', Meet(i, j)'
               PROVE  Stamp(i)' <= Stamp(j)'
    OBVIOUS
  <2>1. i \in DOMAIN intents /\ j \in Waiting /\ j \in DOMAIN intents /\ Meet(i, j)
    BY <1>1, <1>3
  <2>2. CASE i \in Hand(r)
    BY <1>2, <2>1, <2>2 DEF InOrder
  <2>3. CASE i \in Waiting
    <3>1. i = j
      BY <2>1, <2>3 DEF InOrder
    <3> QED
      BY <1>2, <2>1, <3>1
  <2> QED
    BY <2>2, <2>3
<1>7. ASSUME NEW i, i \in Waiting' \/ \E r \in Runs : i \in Hand(r)',
             NEW x \in CellsOf(intents'[i].cmd)
      PROVE  remote'[x].at <= Stamp(i)'
  <2>1. i \in Waiting \cup UNION {Hand(r) : r \in Runs}
    BY <1>7
  <2>2. i \in DOMAIN intents
    BY <1>1, <2>1
  <2> QED
    BY <1>2, <1>7, <2>1, <2>2, WritesInOrder
<1> QED
  BY <1>4, <1>5, <1>6, <1>7 DEF InOrder

\* A command stamps itself and takes what waits for its cells out of the way.
LEMMA OrderAsk ==
    ASSUME IInv, Clocked, InOrder, NEW cmd \in Commands, Issue(cmd), remote' = remote,
           \A i \in DOMAIN intents : i \in DOMAIN intents' /\ intents'[i].cmd = intents[i].cmd,
           \A i \in Waiting' :
              \/ i \in Waiting /\ ~Overlaps(intents[i].cmd.input, cmd.input)
              \/ i \notin DOMAIN intents /\ i = Len(intents) + 1 /\ intents'[i].cmd = cmd,
           \A r \in Runs : Hand(r)' \subseteq Hand(r)
    PROVE  InOrder'
<1> DEFINE Old(i) == i \in Waiting /\ ~Overlaps(intents[i].cmd.input, cmd.input)
           New(i) == i \notin DOMAIN intents /\ i = Len(intents) + 1 /\ intents'[i].cmd = cmd
<1>1. /\ Waiting \subseteq DOMAIN intents /\ \A r \in Runs : Hand(r) \subseteq DOMAIN intents
      /\ \A i \in Waiting' : Old(i) \/ New(i)
  BY DEF Waiting, Live, Hand
<1>2. clock \in Nat /\ issued \in [Commands -> Nat] /\ \A k \in Commands : issued[k] <= clock
  BY DEF IInv, TypeOK, Clocked
<1>3. issued'[cmd] = clock + 1 /\ \A k \in Commands : k # cmd => issued'[k] = issued[k]
  BY <1>2 DEF Issue
<1>4. \A i \in DOMAIN intents : /\ intents'[i].cmd = intents[i].cmd /\ intents[i].cmd \in Commands
                                /\ Stamp(i) \in Nat /\ Stamp(i)' \in Nat /\ Stamp(i) <= Stamp(i)'
                                /\ Stamp(i)' <= clock + 1
                                /\ intents[i].cmd # cmd => Stamp(i)' = Stamp(i)
  <2> SUFFICES ASSUME NEW i \in DOMAIN intents
               PROVE  /\ intents'[i].cmd = intents[i].cmd /\ intents[i].cmd \in Commands
                      /\ Stamp(i) \in Nat /\ Stamp(i)' \in Nat /\ Stamp(i) <= Stamp(i)'
                      /\ Stamp(i)' <= clock + 1
                      /\ intents[i].cmd # cmd => Stamp(i)' = Stamp(i)
    OBVIOUS
  <2>1. intents'[i].cmd = intents[i].cmd /\ intents[i].cmd \in Commands /\ Stamp(i) \in Nat
    BY StampType
  <2> QED
    BY <1>2, <1>3, <2>1 DEF Stamp
<1>5. \A i : New(i) => Stamp(i)' = clock + 1
  BY <1>3 DEF Stamp
<1>6. ASSUME NEW i, NEW j, Old(j), intents'[i].cmd = cmd, Meet(i, j)' PROVE FALSE
  <2>1. intents'[j].cmd = intents[j].cmd
    BY <1>1, <1>6
  <2>2. PICK x : x \in CellsOf(cmd) /\ x \in CellsOf(intents[j].cmd)
    BY <1>6, <2>1 DEF Meet
  <2> QED
    BY <1>6, <2>2, MeetOverlaps
<1>7. \A i, j : Meet(i, j)' => Meet(j, i)'
  BY DEF Meet
<1>8. \A i, j \in DOMAIN intents : Meet(i, j)' <=> Meet(i, j)
  BY <1>4 DEF Meet
<1> HIDE DEF Old
<1>9. \A i, j \in Waiting' : Meet(i, j)' => i = j
  <2> SUFFICES ASSUME NEW i \in Waiting', NEW j \in Waiting', Meet(i, j)' PROVE i = j
    OBVIOUS
  <2>1. CASE Old(i) /\ Old(j)
    BY <1>1, <1>8, <2>1 DEF Old, InOrder
  <2>2. CASE New(i) /\ New(j)
    BY <2>2
  <2>3. CASE New(i) /\ Old(j)
    BY <1>6, <2>3
  <2>4. CASE Old(i) /\ New(j)
    BY <1>6, <1>7, <2>4
  <2> QED
    BY <1>1, <2>1, <2>2, <2>3, <2>4
<1>10. \A r \in Runs : \A i, j \in Hand(r)' : Meet(i, j)' => i = j
  <2> SUFFICES ASSUME NEW r \in Runs, NEW i \in Hand(r)', NEW j \in Hand(r)', Meet(i, j)'
               PROVE  i = j
    OBVIOUS
  <2>1. i \in Hand(r) /\ j \in Hand(r)
    OBVIOUS
  <2> QED
    BY <1>1, <1>8, <2>1 DEF InOrder
<1>11. \A r \in Runs : \A i \in Hand(r)', j \in Waiting' : Meet(i, j)' => Stamp(i)' <= Stamp(j)'
  <2> SUFFICES ASSUME NEW r \in Runs, NEW i \in Hand(r)', NEW j \in Waiting', Meet(i, j)'
               PROVE  Stamp(i)' <= Stamp(j)'
    OBVIOUS
  <2>1. i \in Hand(r) /\ i \in DOMAIN intents
    BY <1>1
  <2>2. CASE New(j)
    BY <1>4, <1>5, <2>1, <2>2
  <2>3. CASE Old(j)
    <3>1. j \in Waiting /\ j \in DOMAIN intents /\ Meet(i, j)
      BY <1>1, <1>8, <2>1, <2>3 DEF Old
    <3>2. Stamp(i) <= Stamp(j)
      BY <2>1, <3>1 DEF InOrder
    <3>3. intents[i].cmd # cmd
      BY <1>4, <1>6, <2>1, <2>3
    <3> QED
      BY <1>4, <2>1, <3>1, <3>2, <3>3
  <2> QED
    BY <1>1, <2>2, <2>3
<1>12. ASSUME NEW i, i \in Waiting' \/ \E r \in Runs : i \in Hand(r)',
              NEW x \in CellsOf(intents'[i].cmd)
       PROVE  remote'[x].at <= Stamp(i)'
  <2>1. CASE New(i)
    <3>1. x \in Cells
      BY <1>12, <2>1, CellsType
    <3>2. remote[x].at \in Nat /\ remote[x].at <= clock
      BY <3>1 DEF Clocked, IInv, TypeOK
    <3> QED
      BY <1>2, <1>5, <2>1, <3>2
  <2>2. CASE i \in Waiting \cup UNION {Hand(r) : r \in Runs}
    <3>1. i \in DOMAIN intents
      BY <1>1, <2>2
    <3>2. x \in CellsOf(intents[i].cmd)
      BY <1>4, <1>12, <3>1
    <3>3. x \in Cells
      BY <1>4, <3>1, <3>2, CellsType
    <3>4. remote[x].at <= Stamp(i) /\ remote[x].at \in Nat
      BY <2>2, <3>2, <3>3 DEF InOrder, IInv, TypeOK
    <3> QED
      BY <1>4, <3>1, <3>4
  <2> QED
    BY <1>1, <1>12, <2>1, <2>2 DEF Old
<1> QED
  BY <1>9, <1>10, <1>11, <1>12 DEF InOrder

\* Without a failed read-back or a lost answer nothing goes back to what can be sent.
LEMMA DrainSendable ==
    ASSUME IInv, NEW r \in Runs, StartDrain(r) \/ Answered(r), ~ResumeGetFails(r), ~PostUnknown(r),
           NEW i \in DOMAIN intents, HasStatus(i, SENDABLE)'
    PROVE  HasStatus(i, SENDABLE)
<1>1. intents'[i].status \in {"queued", "retry"}
  BY DEF HasStatus, SENDABLE
<1>2. ASSUME NEW S, NEW s, s \notin {"queued", "retry"}, intents' = WithStatus(S, s)
      PROVE  HasStatus(i, SENDABLE)
  BY <1>1, <1>2, Touched DEF HasStatus, SENDABLE
<1>3. ASSUME NEW j, NEW s, s \notin {"queued", "retry"}, intents' = WithTask(j, s)
      PROVE  HasStatus(i, SENDABLE)
  BY <1>1, <1>3, Touched DEF HasStatus, SENDABLE
<1>4. ASSUME intents' = intents PROVE HasStatus(i, SENDABLE)
  BY <1>1, <1>4 DEF HasStatus, SENDABLE
<1>5. CASE StartDrain(r) \/ ResumeDone(r) \/ SendDone(r) \/ DrainDone(r) \/ BookingsDone(r)
           \/ PersistNext(r) \/ PersistLoopDone(r) \/ PersistRowOk(r) \/ PersistRowFails(r)
  BY <1>4, <1>5 DEF StartDrain, ResumeDone, SendDone, DrainDone, BookingsDone, PersistNext,
       PersistLoopDone, PersistRowOk, PersistRowFails
<1>6. CASE ResumeNext(r)
  BY <1>2, <1>6 DEF ResumeNext
<1>7. CASE ResumeGetOk(r) \/ VerifyOk(r) \/ VerifyFails(r) \/ PostRefused(r)
  <2>1. \/ intents' = Compared(run[r].cur)
        \/ \E s \in {"accepted", "failed"} : intents' = WithStatus({run[r].cur}, s)
    BY <1>7 DEF ResumeGetOk, VerifyOk, VerifyFails, PostRefused
  <2>2. \E s \in {"reconciled", "drifted"} : Compared(run[r].cur) = WithStatus({run[r].cur}, s)
    BY Zenon DEF Compared
  <2>3. \E s \in {"reconciled", "drifted", "accepted", "failed"} :
          intents' = WithStatus({run[r].cur}, s)
    BY <2>1, <2>2
  <2> QED
    BY <1>2, <2>3
<1>8. CASE PickProperty(r)
  BY <1>2, <1>8 DEF PickProperty
<1>10. CASE \E j \in run[r].toSend : SendNext(r, j)
  <2>1. \E S, s : s \in {"failed", "sending"} /\ intents' = WithStatus(S, s)
    BY <1>10 DEF SendNext
  <2> QED
    BY <1>2, <2>1
<1>9. CASE PostOk(r) \/ PostPartial(r)
  BY <1>3, <1>9 DEF PostOk, PostPartial
<1> QED
  BY <1>5, <1>6, <1>7, <1>8, <1>9, <1>10 DEF Answered

\* What is in hand after a step that looks at no new intents was in hand before.
LEMMA HandShrinks ==
    ASSUME NEW r \in Runs, DOMAIN intents' \subseteq DOMAIN intents,
           \A i \in DOMAIN intents : HasStatus(i, SENDABLE)' => HasStatus(i, SENDABLE),
           Working(r)' => Working(r) /\ run'[r].seen \subseteq run[r].seen,
           run'[r].toSend \subseteq Hand(r),
           run'[r].pc = "post" => run'[r].cur \in Hand(r)
    PROVE  Hand(r)' \subseteq Hand(r)
BY DEF Hand

LEMMA DrainHand ==
    ASSUME IInv, NEW r \in Runs, StartDrain(r) \/ Answered(r), ~ResumeGetFails(r), ~PostUnknown(r)
    PROVE  Hand(r)' \subseteq Hand(r) \/ Hand(r)' \subseteq Waiting
<1>1. run[r] \in RunState(DOMAIN intents) /\ run \in [Runs -> RunState(DOMAIN intents)]
  BY DEF IInv, TypeOK
<1>2. /\ DOMAIN intents' = DOMAIN intents
      /\ \A i \in DOMAIN intents : HasStatus(i, SENDABLE)' => HasStatus(i, SENDABLE)
  BY DrainInPlace, DrainSendable DEF InPlace
<1>3. run[r].toSend \subseteq Hand(r)
  BY <1>1 DEF Hand, RunState
<1>4. ASSUME NEW l, run'[r] = l, l.toSend \subseteq run[r].toSend, l.pc # "post",
             \/ l.pc \notin {"resume", "resumeGet", "property", "send", "verifyGet"}
             \/ Working(r) /\ l.seen = run[r].seen
      PROVE  Hand(r)' \subseteq Hand(r)
  BY <1>2, <1>3, <1>4, HandShrinks DEF Working
<1>5. CASE StartDrain(r)
  <2> DEFINE l == [Idle EXCEPT !.pc = "resume", !.seen = Live]
  <2>1. run'[r] = l /\ intents' = intents
    BY <1>1, <1>5 DEF StartDrain, Keep
  <2>2. l.pc = "resume" /\ l.seen = Live /\ l.toSend = {}
    BY DEF Idle
  <2> HIDE DEF l
  <2> QED
    BY <2>1, <2>2 DEF Hand, Waiting, HasStatus
<1>6. CASE DrainDone(r) \/ BookingsDone(r) \/ PersistLoopDone(r) \/ PersistRowFails(r)
  <2> DEFINE l1 == [Idle EXCEPT !.pc = "bookings", !.processed = run[r].processed]
             l2 == [Idle EXCEPT !.pc = "persist", !.seen = Live]
  <2>1. run'[r] = l1 \/ run'[r] = l2 \/ run'[r] = Idle
    BY <1>1, <1>6 DEF DrainDone, BookingsDone, PersistLoopDone, PersistRowFails, Keep, Await
  <2>2. /\ l1.pc = "bookings" /\ l1.toSend = {} /\ l2.pc = "persist" /\ l2.toSend = {}
        /\ Idle.pc = "idle" /\ Idle.toSend = {}
    BY DEF Idle
  <2> HIDE DEF l1, l2
  <2> QED
    BY <1>4, <2>1, <2>2
<1>7. CASE ResumeNext(r)
  <2> DEFINE i == SetMin(ToResume(r))
             next == [run[r] EXCEPT !.at = i, !.processed = TRUE]
             reading == [next EXCEPT !.pc = "resumeGet", !.cur = i]
  <2>1. run'[r] = next \/ run'[r] = reading
    BY <1>1, <1>7 DEF ResumeNext, Keep, Await
  <2>2. /\ next.pc = "resume" /\ next.toSend = run[r].toSend /\ next.seen = run[r].seen
        /\ reading.pc = "resumeGet" /\ reading.toSend = run[r].toSend /\ reading.seen = run[r].seen
        /\ Working(r)
    BY <1>1, <1>7 DEF ResumeNext, RunState, Working
  <2> HIDE DEF next, reading
  <2> QED
    BY <1>4, <2>1, <2>2
<1>8. CASE ResumeDone(r)
  <2> DEFINE props == {PropertyOf[ResOf(i)] : i \in {j \in run[r].seen : HasStatus(j, SENDABLE)}}
             l == [run[r] EXCEPT !.pc = "property", !.at = 0, !.props = props]
  <2>1. run'[r] = l /\ Working(r)
    BY <1>1, <1>8 DEF ResumeDone, Keep, Working
  <2>2. l.pc = "property" /\ l.toSend = run[r].toSend /\ l.seen = run[r].seen
    BY <1>1 DEF RunState
  <2> HIDE DEF l
  <2> QED
    BY <1>4, <2>1, <2>2
<1>9. CASE ResumeGetOk(r) \/ PostPartial(r) \/ PostRefused(r) \/ VerifyOk(r) \/ VerifyFails(r)
  <2>1. PICK pc \in {"resume", "send"} : run' = [run EXCEPT ![r] = [run[r] EXCEPT !.pc = pc, !.cur = 0]]
    BY <1>9 DEF ResumeGetOk, PostPartial, PostRefused, VerifyOk, VerifyFails, Keep
  <2>2. Working(r)
    BY <1>9 DEF ResumeGetOk, PostPartial, PostRefused, PostReturns, VerifyOk, VerifyFails, Reading, Working
  <2> DEFINE l == [run[r] EXCEPT !.pc = pc, !.cur = 0]
  <2>3. run'[r] = l /\ l.pc = pc /\ l.toSend = run[r].toSend /\ l.seen = run[r].seen
    BY <1>1, <2>1 DEF RunState
  <2> HIDE DEF l
  <2> QED
    BY <1>4, <2>2, <2>3
<1>10. CASE PickProperty(r)
  <2> DEFINE p == SetMin(run[r].props)
             cand == Candidates(r, p)
             l == [run[r] EXCEPT !.pc = "send", !.props = @ \ {p}, !.toSend = PickedOf(cand)]
  <2>1. run'[r] = l /\ Working(r) /\ run[r].pc = "property"
    BY <1>1, <1>10 DEF PickProperty, Keep, Working
  <2>2. l.pc = "send" /\ l.toSend = PickedOf(cand) /\ l.seen = run[r].seen
    BY <1>1 DEF RunState
  <2>3. PickedOf(cand) \subseteq Hand(r)
    BY <1>1, <2>1 DEF PickedOf, Candidates, Hand, Working, RunState
  <2> HIDE DEF l, cand
  <2> QED
    BY <1>2, <2>1, <2>2, <2>3, HandShrinks
<1>11. ASSUME NEW i \in run[r].toSend, SendNext(r, i) PROVE Hand(r)' \subseteq Hand(r)
  <2> DEFINE next == [run[r] EXCEPT !.toSend = @ \ {i}, !.processed = TRUE]
             posting == [next EXCEPT !.pc = "post", !.cur = i]
  <2>1. (run'[r] = next \/ run'[r] = posting) /\ Working(r)
    BY <1>1, <1>11 DEF SendNext, Keep, Await, Working
  <2>2. /\ next.pc = "send" /\ next.toSend = run[r].toSend \ {i} /\ next.seen = run[r].seen
        /\ posting.pc = "post" /\ posting.toSend = run[r].toSend \ {i} /\ posting.seen = run[r].seen
        /\ posting.cur = i
    BY <1>1, <1>11 DEF SendNext, RunState
  <2> HIDE DEF next, posting
  <2>3. i \in Hand(r)
    BY <1>3
  <2> QED
    BY <1>2, <1>3, <2>1, <2>2, <2>3, HandShrinks
<1>12. CASE SendDone(r) \/ PostOk(r)
  <2>1. PICK pc \in {"property", "verifyGet"} : run' = [run EXCEPT ![r] = [run[r] EXCEPT !.pc = pc]]
    BY <1>12 DEF SendDone, PostOk, Keep, Await
  <2>2. Working(r)
    BY <1>12 DEF SendDone, PostOk, PostReturns, Reading, Working
  <2> DEFINE l == [run[r] EXCEPT !.pc = pc]
  <2>3. run'[r] = l /\ l.pc = pc /\ l.toSend = run[r].toSend /\ l.seen = run[r].seen
    BY <1>1, <2>1 DEF RunState
  <2> HIDE DEF l
  <2> QED
    BY <1>4, <2>2, <2>3
<1>13. CASE PersistNext(r)
  <2> DEFINE i == SetMin(ToPersist(r))
             l == [run[r] EXCEPT !.pc = "persistRow", !.at = i, !.row = RowOf(i)]
  <2>1. run'[r] = l
    BY <1>1, <1>13 DEF PersistNext, Await
  <2>2. l.pc = "persistRow" /\ l.toSend = run[r].toSend
    BY <1>1 DEF RunState
  <2> HIDE DEF l
  <2> QED
    BY <1>4, <2>1, <2>2
<1>14. CASE PersistRowOk(r)
  <2> DEFINE l == [run[r] EXCEPT !.pc = "persist", !.row = NoRow]
  <2>1. run'[r] = l
    BY <1>1, <1>14 DEF PersistRowOk, Keep
  <2>2. l.pc = "persist" /\ l.toSend = run[r].toSend
    BY <1>1 DEF RunState
  <2> HIDE DEF l
  <2> QED
    BY <1>4, <2>1, <2>2
<1> QED
  BY <1>5, <1>6, <1>7, <1>8, <1>9, <1>10, <1>11, <1>12, <1>13, <1>14 DEF Answered

\* The other steps hand a drain nothing: they only cancel.
LEMMA OthersHand ==
    ASSUME IInv, CancelsOnly, UNCHANGED run, NEW r \in Runs
    PROVE  Hand(r)' \subseteq Hand(r)
<1>1. run[r].toSend \subseteq DOMAIN intents /\ run[r].seen \subseteq DOMAIN intents
      /\ (run[r].pc = "post" => run[r].cur \in DOMAIN intents)
  BY DEF IInv, TypeOK, RunState, RefsOK, Refs
<1>2. \A i \in DOMAIN intents : HasStatus(i, SENDABLE)' => HasStatus(i, SENDABLE)
  BY DEF CancelsOnly, HasStatus, SENDABLE
<1> QED
  BY <1>1, <1>2 DEF Hand, Working

LEMMA NextOrder ==
    ASSUME OneDrain, IdsApart, IInv, LiveKeysUnique, Clocked, IdsTell, InOrder, NoneLost', [Next]_vars
    PROVE  InOrder'
<1>1. Written
  BY NextStamps
<1>2. ASSUME NEW cmd \in Commands, NEW c \in Clients, client[c] = NoReq, Issue(cmd), remote' = remote,
             CancelsOnly, UNCHANGED run,
             NEW q, q = CancelAll(cmd), NEW o, o.cmd = cmd, intents' = Append(q, o) \/ intents' = q
      PROVE  InOrder'
  <2>1. q = WithStatus(Superseded(cmd), "cancelled")
    BY <1>2, FindsItself DEF CancelAll
  <2>2. q \in Seq(Intent) /\ DOMAIN q = DOMAIN intents /\ Len(q) = Len(intents) /\ KeepsIds(q)
    BY <2>1, CancelAllType, UpdatesKeepIds
  <2>3. \/ intents' = q
        \/ /\ DOMAIN intents' = DOMAIN intents \cup {Len(q) + 1} /\ intents'[Len(q) + 1] = o
           /\ Len(q) + 1 \notin DOMAIN intents
           /\ \A i \in DOMAIN intents : intents'[i] = q[i]
    BY <1>2, <2>2, AppendParts
  <2>4. ASSUME NEW i \in Waiting', i \in DOMAIN intents
        PROVE  i \in Waiting /\ ~Overlaps(intents[i].cmd.input, cmd.input)
    <3>1. intents'[i] = q[i] /\ intents'[i].live /\ intents'[i].status \in SENDABLE
      BY <2>3, <2>4 DEF Waiting, Live, HasStatus
    <3>2. q[i].status = IF i \in Superseded(cmd) THEN "cancelled" ELSE intents[i].status
      BY <2>1, <2>4, Touched
    <3>3. i \in Live
      BY <2>2, <2>4, <3>1 DEF KeepsIds, Live
    <3>4. i \notin Superseded(cmd) /\ intents[i].status \in SENDABLE
      BY <3>1, <3>2 DEF SENDABLE
    <3> QED
      BY <3>3, <3>4 DEF Waiting, Superseded, HasStatus
  <2>5. ASSUME NEW i \in Waiting', i \notin DOMAIN intents
        PROVE  i = Len(intents) + 1 /\ intents'[i].cmd = cmd
    <3>1. i \in DOMAIN intents'
      BY <2>5 DEF Waiting, Live
    <3> QED
      BY <1>2, <2>2, <2>3, <2>5, <3>1
  <2>6. \A i \in DOMAIN intents : i \in DOMAIN intents' /\ intents'[i].cmd = intents[i].cmd
    BY <2>2, <2>3 DEF KeepsIds
  <2>7. \A r \in Runs : Hand(r)' \subseteq Hand(r)
    BY <1>2, OthersHand
  <2> QED
    BY <1>2, <2>4, <2>5, <2>6, <2>7, OrderAsk
<1>3. ASSUME NEW c \in Clients, NEW cmd \in Commands, EnqueueNew(c, cmd) PROVE InOrder'
  <2> DEFINE new == [cmd |-> cmd, id |-> nextId, status |-> "queued",
                     backoff |-> FALSE, tasked |-> FALSE, live |-> TRUE]
  <2>1. intents' = Append(CancelAll(cmd), new) /\ new.cmd = cmd
    BY <1>3 DEF EnqueueNew
  <2>2. client[c] = NoReq /\ Issue(cmd) /\ remote' = remote /\ UNCHANGED run /\ CancelsOnly
    BY <1>3, CommandCancels DEF EnqueueNew, Ask
  <2> HIDE DEF new
  <2> QED
    BY <1>2, <2>1, <2>2
<1>4. ASSUME NEW c \in Clients, NEW cmd \in Commands, EnqueueKnown(c, cmd) PROVE InOrder'
  <2>1. PICK o : o.cmd = cmd
    <3>1. [cmd |-> cmd].cmd = cmd
      OBVIOUS
    <3> QED
      BY <3>1
  <2>2. intents' = CancelAll(cmd)
    BY <1>4 DEF EnqueueKnown
  <2>3. client[c] = NoReq /\ Issue(cmd) /\ remote' = remote /\ UNCHANGED run /\ CancelsOnly
    BY <1>4, CommandCancels DEF EnqueueKnown, Ask
  <2> QED
    BY <1>2, <2>1, <2>2, <2>3
\* All other steps that are not of a drain: in place, and they only cancel.
<1>5. ASSUME CancelsOnly, UNCHANGED run, InPlace(intents'), issued' = issued PROVE InOrder'
  <2>1. Waiting' \subseteq Waiting
    BY <1>5 DEF CancelsOnly, InPlace, Waiting, Live, HasStatus, SENDABLE
  <2>2. \A r \in Runs : Hand(r)' \subseteq Hand(r)
    BY <1>5, OthersHand
  <2> QED
    BY <1>1, <1>5, <2>1, <2>2, OrderShrinks
<1>6. ASSUME NEW c \in Clients, NEW cmd \in Commands, SupersedeConflict(c, cmd) PROVE InOrder'
  BY <1>5, <1>6, CommandCancels, UpdatesInPlace DEF SupersedeConflict, Ask
<1>7. ASSUME NEW c \in Clients, PersistFails(c) PROVE InOrder'
  BY <1>5, <1>7, OthersCancelOnly, UpdatesInPlace DEF Request, PersistFails, history
<1>8. ASSUME NEW c \in Clients, PersistOk(c) PROVE InOrder'
  <2>1. CancelsOnly /\ UNCHANGED run /\ InPlace(intents') /\ issued' = issued
    BY <1>8, OthersCancelOnly, UpdatesInPlace DEF Request, PersistOk
  <2> QED
    BY <1>5, <2>1
<1>9. CASE Environment \/ UNCHANGED vars
  <2>1. InPlace(intents)
    BY DEF InPlace
  <2>2. InPlace(intents')
    BY <1>9, <2>1, UpdatesInPlace
       DEF Environment, BackoffExpires, ExternalEdit, PullChanges, vars, memory
  <2>3. issued' = issued
    BY <1>9 DEF Environment, BackoffExpires, ExternalEdit, PullChanges, vars, history
  <2> QED
    BY <1>5, <1>9, <2>2, <2>3, OthersCancelOnly
<1>10. ASSUME NEW r \in Runs, StartDrain(r) \/ Answered(r) PROVE InOrder'
  <2>1. ~ResumeGetFails(r) /\ ~PostUnknown(r)
    BY NoneLostBefore DEF ResumeGetFails, PostUnknown
  <2>2. InPlace(intents') /\ issued' = issued
    BY <1>10, DrainInPlace DEF StartDrain, Answered, ResumeNext, ResumeDone, ResumeGetOk,
       ResumeGetFails, PickProperty, SendNext, SendDone, PostOk, PostPartial, PostUnknown,
       PostRefused, PostReturns, VerifyOk, VerifyFails, DrainDone, BookingsDone, PersistNext,
       PersistLoopDone, PersistRowOk, PersistRowFails, RunOnly, history
  <2>3. Waiting' \subseteq Waiting
    BY <1>10, <2>1, <2>2, DrainSendable DEF InPlace, Waiting, Live
  <2>4. \A s \in Runs : Hand(s)' \subseteq Hand(s) \/ Hand(s)' \subseteq Waiting
    BY <1>10, <2>1, DrainHand DEF OneDrain
  <2> QED
    BY <1>1, <2>2, <2>3, <2>4, OrderShrinks
<1>11. ~Crash
  BY NoneLostBefore DEF Crash
<1>12. ~Hydrate
  BY DEF Hydrate, HydrateRow, HydrateDone, HydrateFails, IdsTell
<1> QED
  BY <1>3, <1>4, <1>6, <1>7, <1>8, <1>9, <1>10, <1>11, <1>12 DEF Next, Command, Request, Drain

LEMMA InitOrder == Init => Clocked /\ IdsTell /\ InOrder
<1> SUFFICES ASSUME Init PROVE Clocked /\ IdsTell /\ InOrder
  OBVIOUS
<1>1. DOMAIN intents = {} /\ clock = 0 /\ nextId = 1 /\ nextDbId = FirstDbId /\ ~hydrating
      /\ (\A cmd \in Commands : db[cmd] = NoRow /\ issued[cmd] = 0)
      /\ (\A x \in Cells : remote[x].at = 0) /\ faults = MaxFaults
  BY DEF Init
<1>2. MaxFaults \in [FaultKinds -> Nat] /\ FirstDbId \in Nat
  BY ConstantsAssumption
<1>3. Clocked
  BY <1>1, <1>2 DEF Clocked
<1>4. IdsTell
  BY <1>1, <1>2 DEF IdsTell, Live
<1>5. Waiting = {} /\ \A r \in Runs : Hand(r) = {}
  BY <1>1 DEF Waiting, Live, Hand
<1>6. InOrder
  BY <1>5 DEF InOrder
<1> QED
  BY <1>3, <1>4, <1>6

LEMMA OrderInvariant ==
    ASSUME OneDrain, IdsApart
    PROVE  Spec => [](IInv /\ DrainsAtWork /\ LiveKeysUnique /\ OInv)
<1>1. Init => OInv
  BY InitOrder DEF OInv
<1>2. IInv /\ LiveKeysUnique /\ OInv /\ [Next]_vars => OInv'
  BY NextClocked, NoneLostBefore, NextIds, NextOrder DEF OInv
<1>3. Spec => [](IInv /\ DrainsAtWork)
  BY WorkInvariant
<1>4. Spec => []LiveKeysUnique
  BY LiveKeysStayUnique
<1> QED
  BY <1>1, <1>2, <1>3, <1>4, PTL DEF Spec

\* "an already accepted change is not silently overwritten": one drain, and ids that tell
\* two live intents apart, are enough for every cell to be written in the order of the
\* commands, whatever is refused, partly applied, edited by others or not stored - as long
\* as no answer is lost, no read-back fails and the process is not restarted: each of
\* these makes an intent wait again that may be older than what was sent since.
THEOREM NewerIsNotOverwritten ==
    ASSUME OneDrain, IdsApart
    PROVE  Spec /\ []NoneLost => NoStaleOverwrite
<1> DEFINE Same == \A x \in Cells : remote'[x] # remote[x] /\ remote'[x].at # 0 =>
                       remote'[x].at >= remote[x].at
<1>1. IInv /\ OInv /\ NoneLost /\ [Next]_vars => [Same]_vars
  <2> SUFFICES ASSUME IInv, OInv, NoneLost, [Next]_vars, NEW x \in Cells,
                      remote'[x] # remote[x], remote'[x].at # 0
               PROVE  remote'[x].at >= remote[x].at
    OBVIOUS
  <2>1. PICK r \in Runs : /\ run[r].pc = "post" /\ run[r].cur \in DOMAIN intents
                          /\ x \in CellsOf(intents[run[r].cur].cmd)
                          /\ remote'[x].at = Stamp(run[r].cur)
    BY NextStamps, WrittenParts
  <2>2. run[r].cur \in Hand(r)
    BY <2>1 DEF Hand
  <2>3. remote[x].at <= Stamp(run[r].cur)
    BY <2>1, <2>2 DEF OInv, InOrder
  <2>4. remote[x].at \in Nat /\ Stamp(run[r].cur) \in Nat
    BY <2>1, StampType DEF IInv, TypeOK
  <2> QED
    BY <2>1, <2>3, <2>4
<1>2. Spec => [](IInv /\ DrainsAtWork /\ LiveKeysUnique /\ OInv)
  BY OrderInvariant
<1> QED
  BY <1>1, <1>2, PTL DEF Spec, NoStaleOverwrite

-----------------------------------------------------------------------------
(* Nothing of what is asked for is lost.                                   *)

\* Every resource a command may be for has a Channex id.
AllMapped == \A a \in Inputs : a.res \notin Unmapped \ RatePlans

\* Each command adds at most itself to what has been asked.
LEMMA NextAsked ==
    ASSUME IInv, [Next]_vars, IsFiniteSet(Asked), Cardinality(Asked) <= clock
    PROVE  /\ IsFiniteSet(Asked') /\ Cardinality(Asked') <= clock'
           /\ clock' = Cardinality(Asked') =>
                 /\ clock = Cardinality(Asked)
                 /\ \/ UNCHANGED <<clock, issued>>
                    \/ clock' = clock + 1 /\ \E cmd \in Commands : Issue(cmd) /\ issued[cmd] = 0
<1>1. clock \in Nat /\ issued \in [Commands -> Nat] /\ Cardinality(Asked) \in Nat
  BY FS_CardinalityType DEF IInv, TypeOK
<1>2. CASE UNCHANGED <<clock, issued>>
  <2>1. Asked' = Asked
    BY <1>2 DEF Asked
  <2> QED
    BY <1>2, <2>1
<1>3. CASE clock' = clock + 1 /\ issued' = issued
  <2>1. Asked' = Asked
    BY <1>3 DEF Asked
  <2> QED
    BY <1>1, <1>3, <2>1
<1>4. ASSUME clock' = clock + 1, NEW cmd \in Commands, Issue(cmd)
      PROVE  /\ IsFiniteSet(Asked') /\ Cardinality(Asked') <= clock'
             /\ clock' = Cardinality(Asked') => clock = Cardinality(Asked) /\ issued[cmd] = 0
  <2>1. issued'[cmd] = clock + 1 /\ \A k \in Commands : k # cmd => issued'[k] = issued[k]
    BY <1>1, <1>4 DEF Issue
  <2>2. Asked' = Asked \cup {cmd}
    BY <1>1, <2>1 DEF Asked
  <2>3. /\ IsFiniteSet(Asked')
        /\ Cardinality(Asked') = IF cmd \in Asked THEN Cardinality(Asked) ELSE Cardinality(Asked) + 1
    BY <2>2, FS_AddElement
  <2>4. cmd \notin Asked => issued[cmd] = 0
    BY <1>1 DEF Asked
  <2> QED
    BY <1>1, <1>4, <2>3, <2>4
<1> QED
  BY <1>2, <1>3, <1>4, NextStamps DEF Stamped

\* What is on its way stays so or arrives, and Channex keeps what is newer.
LEMMA NothingLostStays ==
    ASSUME IInv, NothingLost, issued' = issued, InPlace(intents'),
           \A cmd \in Asked : \A x \in CellsOf(cmd) : remote[x].at <= remote'[x].at,
           \A x \in Cells : remote'[x].at \in Nat,
           \A j \in Live : \A x \in CellsOf(intents[j].cmd) :
              HasStatus(j, SENDABLE \cup {"sending"}) =>
                 \/ intents'[j].live /\ HasStatus(j, SENDABLE \cup {"sending"})'
                 \/ Stamp(j) <= remote'[x].at
    PROVE  NothingLost'
<1>1. \A i \in DOMAIN intents : /\ i \in DOMAIN intents' /\ intents'[i].cmd = intents[i].cmd
                                /\ Stamp(i)' = Stamp(i) /\ Stamp(i) \in Nat
  BY StampType DEF InPlace, Stamp
<1>2. \A i \in DOMAIN intents' : Stamp(i)' > 0
  BY <1>1 DEF NothingLost, InPlace
<1>3. Asked' = Asked /\ issued \in [Commands -> Nat] /\ \A x \in Cells : remote[x].at \in Nat
  BY DEF Asked, IInv, TypeOK
<1>4. ASSUME NEW cmd \in Asked, NEW x \in CellsOf(cmd)
      PROVE  issued'[cmd] <= remote'[x].at \/ Coming(x, issued[cmd])'
  <2>1. x \in Cells /\ issued[cmd] \in Nat /\ remote[x].at \in Nat /\ remote'[x].at \in Nat
    BY <1>3, CellsType DEF Asked
  <2>2. CASE issued[cmd] <= remote[x].at
    BY <1>4, <2>1, <2>2
  <2>3. CASE Coming(x, issued[cmd])
    <3>1. PICK j \in Live : /\ HasStatus(j, SENDABLE \cup {"sending"})
                            /\ x \in CellsOf(intents[j].cmd) /\ issued[cmd] <= Stamp(j)
      BY <2>3 DEF Coming
    <3>2. j \in DOMAIN intents
      BY DEF Live
    <3>3. CASE intents'[j].live /\ HasStatus(j, SENDABLE \cup {"sending"})'
      BY <1>1, <3>1, <3>2, <3>3 DEF Coming, Live
    <3>4. CASE Stamp(j) <= remote'[x].at
      BY <1>1, <2>1, <3>1, <3>2, <3>4
    <3> QED
      BY <3>1, <3>3, <3>4
  <2> QED
    BY <2>2, <2>3 DEF NothingLost
<1> QED
  BY <1>2, <1>3, <1>4 DEF NothingLost

\* A drain takes no object out of the store.
LEMMA DrainKeepsLive ==
    ASSUME IInv, NEW r \in Runs, StartDrain(r) \/ Answered(r), NEW j \in DOMAIN intents
    PROVE  intents'[j].live = intents[j].live
<1>1. intents \in Seq(Intent) /\ intents[j] \in Intent
  BY DEF IInv, TypeOK
<1>2. \A S, s : WithStatus(S, s)[j].live = intents[j].live
  BY <1>1 DEF WithStatus, Intent
<1>3. \A i : WithRetry(i)[j].live = intents[j].live
  BY <1>1 DEF WithRetry, Intent
<1>4. \A i, s : WithTask(i, s)[j].live = intents[j].live
  BY <1>1 DEF WithTask, Intent
<1> QED
  BY <1>2, <1>3, <1>4
     DEF StartDrain, Answered, ResumeNext, ResumeDone, ResumeGetOk, ResumeGetFails,
         Compared, PickProperty, SendNext, SendDone, PostOk, PostPartial, PostUnknown,
         PostRefused, PostReturns, VerifyOk, VerifyFails, DrainDone, BookingsDone, PersistNext,
         PersistLoopDone, PersistRowOk, PersistRowFails, RunOnly

\* With whole resources two intents for a resource are for the same cells.
LEMMA SameCells ==
    ASSUME WholeResources, NEW a \in Commands, NEW b \in Commands, a.input.res = b.input.res
    PROVE  CellsOf(a) = CellsOf(b)
<1>1. a.input \in Inputs /\ b.input \in Inputs
  BY DEF Commands
<1> QED
  BY <1>1 DEF WholeResources, CellsOf

LEMMA LostNew ==
    ASSUME IdsApart, WholeResources, IInv, LiveKeysUnique, Clocked, IdsTell, NothingLost,
           NEW c \in Clients, NEW cmd \in Commands, EnqueueNew(c, cmd), issued[cmd] = 0
    PROVE  NothingLost'
<1> DEFINE new == [cmd |-> cmd, id |-> nextId, status |-> "queued",
                   backoff |-> FALSE, tasked |-> FALSE, live |-> TRUE]
           q == WithStatus(Superseded(cmd), "cancelled")
<1>0. PICK n : n = Len(q) + 1
  OBVIOUS
<1>1. /\ client[c] = NoReq /\ Issue(cmd) /\ remote' = remote
      /\ intents' = Append(CancelAll(cmd), new)
  BY DEF EnqueueNew, Ask
<1>2. CancelAll(cmd) = q
  BY <1>1, FindsItself DEF CancelAll
<1>3. q \in Seq(Intent) /\ DOMAIN q = DOMAIN intents /\ KeepsIds(q)
  BY CancelAllType, UpdatesKeepIds
<1>4. /\ new.cmd = cmd /\ new.live /\ new.status = "queued"
  OBVIOUS
<1> HIDE DEF new
<1>5. /\ DOMAIN intents' = DOMAIN intents \cup {n} /\ intents'[n] = new
      /\ n \notin DOMAIN intents
      /\ \A i \in DOMAIN intents : intents'[i] = q[i]
  BY <1>0, <1>1, <1>2, <1>3, AppendParts
<1>6. clock \in Nat /\ issued \in [Commands -> Nat] /\ \A k \in Commands : issued[k] <= clock
  BY DEF IInv, TypeOK, Clocked
<1>7. issued'[cmd] = clock + 1 /\ \A k \in Commands : k # cmd => issued'[k] = issued[k]
  BY <1>1, <1>6 DEF Issue
<1>8. \A i \in DOMAIN intents : /\ intents'[i].cmd = intents[i].cmd /\ intents[i].cmd \in Commands
                                /\ Stamp(i)' = Stamp(i) /\ Stamp(i) \in Nat /\ Stamp(i) > 0
  <2> SUFFICES ASSUME NEW i \in DOMAIN intents
               PROVE  /\ intents'[i].cmd = intents[i].cmd /\ intents[i].cmd \in Commands
                      /\ Stamp(i)' = Stamp(i) /\ Stamp(i) \in Nat /\ Stamp(i) > 0
    OBVIOUS
  <2>1. intents'[i].cmd = intents[i].cmd /\ intents[i].cmd \in Commands /\ Stamp(i) \in Nat
    BY <1>3, <1>5, StampType DEF KeepsIds
  <2>2. Stamp(i) > 0
    BY DEF NothingLost
  <2> QED
    BY <1>7, <2>1, <2>2 DEF Stamp
<1>9. Stamp(n)' = clock + 1
  BY <1>4, <1>5, <1>7 DEF Stamp
<1>10. \A i \in DOMAIN intents' : Stamp(i)' > 0
  BY <1>5, <1>6, <1>8, <1>9
<1>11. ASSUME NEW x \in CellsOf(cmd), NEW m \in Nat, m <= clock + 1 PROVE Coming(x, m)'
  <2>1. n \in Live' /\ HasStatus(n, SENDABLE \cup {"sending"})' /\ intents'[n].cmd = cmd
    BY <1>4, <1>5 DEF Live, HasStatus, SENDABLE
  <2> QED
    BY <1>9, <1>11, <2>1 DEF Coming
<1>12. ASSUME NEW k \in Commands, k # cmd, NEW m \in Nat, issued[k] = m, m > 0, NEW x \in CellsOf(k)
       PROVE  m <= remote[x].at \/ Coming(x, m)'
  <2>1. m <= clock + 1
    BY <1>6, <1>12
  <2>2. CASE m <= remote[x].at
    BY <2>2
  <2>3. CASE Coming(x, m)
    <3>1. PICK j \in Live : /\ HasStatus(j, SENDABLE \cup {"sending"})
                            /\ x \in CellsOf(intents[j].cmd) /\ m <= Stamp(j)
      BY <2>3 DEF Coming
    <3>2. j \in DOMAIN intents /\ intents[j].cmd \in Commands
      BY <1>8 DEF Live
    <3>3. CASE j \in Superseded(cmd)
      <4>1. intents[j].cmd.input.res = cmd.input.res
        BY <3>3 DEF Superseded, Overlaps
      <4>2. x \in CellsOf(cmd)
        BY <3>1, <3>2, <4>1, SameCells
      <4> QED
        BY <1>11, <2>1, <4>2
    <3>4. CASE j \notin Superseded(cmd)
      <4>1. q[j].status = intents[j].status /\ q[j].live
        <5>1. q[j] = intents[j]
          BY <3>2, <3>4 DEF WithStatus
        <5> QED
          BY <5>1 DEF Live
      <4>2. j \in Live' /\ HasStatus(j, SENDABLE \cup {"sending"})'
        BY <1>5, <3>1, <3>2, <4>1 DEF Live, HasStatus
      <4> QED
        BY <1>8, <3>1, <3>2, <4>2 DEF Coming
    <3> QED
      BY <3>3, <3>4
  <2> QED
    BY <1>12, <2>2, <2>3 DEF NothingLost, Asked
<1>13. ASSUME NEW k \in Asked', NEW x \in CellsOf(k)
       PROVE  issued'[k] <= remote'[x].at \/ Coming(x, issued[k])'
  <2>1. PICK m : m = issued'[k]
    OBVIOUS
  <2>2. k \in Commands /\ m > 0
    BY <2>1 DEF Asked
  <2>3. CASE k = cmd
    BY <1>6, <1>7, <1>11, <2>1, <2>3
  <2>4. CASE k # cmd
    <3>1. issued[k] = m /\ m \in Nat
      BY <1>6, <1>7, <2>1, <2>2, <2>4
    <3>2. m <= remote[x].at \/ Coming(x, m)'
      BY <1>12, <2>2, <2>4, <3>1
    <3> QED
      BY <1>1, <2>1, <3>2
  <2> QED
    BY <2>3, <2>4
<1> QED
  BY <1>10, <1>13 DEF NothingLost

\* Picking drops no intent that another one does not stand in for: of two for the same
\* cells only one was in hand.
LEMMA PickDropsNone ==
    ASSUME WholeResources, IInv, InOrder, NEW r \in Runs, PickProperty(r),
           NEW j \in DOMAIN intents, NEW x \in CellsOf(intents[j].cmd)
    PROVE  intents'[j].status = intents[j].status
<1> DEFINE cand == Candidates(r, SetMin(run[r].props))
<1>1. intents' = WithStatus(cand \ PickedOf(cand), "cancelled") /\ run[r].pc = "property"
  BY DEF PickProperty
<1>2. run[r].seen \subseteq DOMAIN intents
  BY DEF IInv, TypeOK, RunState
<1>3. cand \subseteq Hand(r) /\ cand \subseteq DOMAIN intents
  BY <1>1, <1>2 DEF Candidates, Hand, Working
<1> HIDE DEF cand
<1>4. j \in cand => j \in PickedOf(cand)
  <2> SUFFICES ASSUME j \in cand, NEW k \in cand, ResOf(k) = ResOf(j) PROVE k = j
    <3>1. \A i \in cand : i <= i
      BY <1>3 DEF IInv, TypeOK
    <3> QED
      BY <3>1 DEF PickedOf
  <2>1. CellsOf(intents[j].cmd) = CellsOf(intents[k].cmd)
    BY <1>3, StampType, SameCells DEF ResOf
  <2>2. Meet(j, k)
    BY <2>1 DEF Meet
  <2> QED
    BY <1>3, <2>2 DEF InOrder
<1> QED
  BY <1>1, <1>4, Touched

LEMMA LostDrain ==
    ASSUME OneDrain, AllMapped, WholeResources, IInv, DrainsAtWork, InOrder, NothingLost,
           NEW r \in Runs, StartDrain(r) \/ Answered(r),
           \A k \in FaultKinds : ~Fault(k)
    PROVE  NothingLost'
<1> DEFINE Under(j) == HasStatus(j, SENDABLE \cup {"sending"})
<1>1. InPlace(intents') /\ IInv' /\ AtWork(run[r], intents)
  BY DrainInPlace, NextIInv DEF Next, Drain, DrainsAtWork
<1>2. issued' = issued /\ (UNCHANGED remote \/ PostOk(r))
  <2>1. StartDrain(r) \/ ResumeNext(r) \/ ResumeDone(r) \/ ResumeGetOk(r) \/ ResumeGetFails(r)
           => issued' = issued /\ UNCHANGED remote
    BY DEF StartDrain, ResumeNext, ResumeDone, ResumeGetOk, ResumeGetFails, RunOnly, history
  <2>2. PickProperty(r) \/ (\E i \in run[r].toSend : SendNext(r, i)) \/ SendDone(r)
           => issued' = issued /\ UNCHANGED remote
    BY DEF PickProperty, SendNext, SendDone, RunOnly, history
  <2>3. PostReturns(r) => issued' = issued
    BY DEF PostReturns, history
  <2>4. PostRefused(r) => issued' = issued /\ UNCHANGED remote
    BY <2>3 DEF PostRefused
  <2>5. ~PostPartial(r) /\ ~PostUnknown(r)
    BY DEF PostPartial, PostUnknown, FaultKinds
  <2>6. VerifyOk(r) \/ VerifyFails(r) \/ DrainDone(r) \/ BookingsDone(r)
           => issued' = issued /\ UNCHANGED remote
    BY DEF VerifyOk, VerifyFails, DrainDone, BookingsDone, RunOnly, history
  <2>7. PersistNext(r) \/ PersistLoopDone(r) \/ PersistRowOk(r) \/ PersistRowFails(r)
           => issued' = issued /\ UNCHANGED remote
    BY DEF PersistNext, PersistLoopDone, PersistRowOk, PersistRowFails, RunOnly, history
  <2>8. PostOk(r) => issued' = issued
    BY <2>3 DEF PostOk
  <2> QED
    BY <2>1, <2>2, <2>4, <2>5, <2>6, <2>7, <2>8 DEF Answered
<1>3. /\ \A x \in Cells : remote'[x].at \in Nat /\ remote[x].at \in Nat
      /\ \A j \in Live : j \in DOMAIN intents /\ intents'[j].live /\ intents[j].cmd \in Commands
  <2>1. \A x \in Cells : remote'[x].at \in Nat /\ remote[x].at \in Nat
    BY <1>1 DEF IInv, TypeOK
  <2>2. \A j \in Live : j \in DOMAIN intents /\ intents[j].live
    BY DEF Live
  <2> QED
    BY <2>1, <2>2, StampType, DrainKeepsLive
<1>4. ASSUME PostOk(r)
      PROVE  /\ run[r].cur \in Hand(r) /\ run[r].cur \in DOMAIN intents
             /\ \A x \in Cells : IF x \in CellsOf(intents[run[r].cur].cmd)
                                 THEN remote'[x].at = Stamp(run[r].cur)
                                 ELSE remote'[x] = remote[x]
  BY <1>4 DEF PostOk, PostReturns, Reading, Write, Stamp, Hand, IInv, RefsOK, Refs
<1>5. ASSUME NEW cmd \in Asked, NEW x \in CellsOf(cmd) PROVE remote[x].at <= remote'[x].at
  <2>1. x \in Cells
    BY <1>5, CellsType DEF Asked
  <2>2. CASE remote'[x] = remote[x]
    BY <1>3, <2>1, <2>2
  <2>3. CASE PostOk(r) /\ x \in CellsOf(intents[run[r].cur].cmd)
    BY <1>4, <2>1, <2>3 DEF InOrder
  <2> QED
    BY <1>2, <1>4, <2>1, <2>2, <2>3
<1>6. ASSUME NEW j \in Live, NEW x \in CellsOf(intents[j].cmd), Under(j)
      PROVE  Under(j)' \/ Stamp(j) <= remote'[x].at
  <2>1. intents[j].status \in {"queued", "retry", "sending"} /\ j \in DOMAIN intents
        /\ x \in Cells /\ Stamp(j) \in Nat
    BY <1>3, <1>6, StampType, CellsType DEF HasStatus, SENDABLE
  <2>2. ASSUME intents'[j].status = intents[j].status PROVE Under(j)'
    BY <1>6, <2>2 DEF HasStatus
  <2>3. ASSUME j # run[r].cur, NEW s, \/ intents' = WithStatus({run[r].cur}, s)
                                      \/ intents' = WithTask(run[r].cur, s)
        PROVE  Under(j)'
    BY <2>1, <2>2, <2>3, Touched
  <2>4. CASE ResumeNext(r)
    <3>1. ToResume(r) \subseteq Nat /\ ToResume(r) # {}
      BY <2>4 DEF ToResume, RunState, ResumeNext, IInv, TypeOK
    <3>2. SetMin(ToResume(r)) \in ToResume(r)
      BY <3>1, SetMinIn
    <3>3. j # SetMin(ToResume(r))
      BY <2>1, <3>2 DEF ToResume, HasStatus, RESUME_STATUSES
    <3>4. \E s : intents' = WithStatus({SetMin(ToResume(r))}, s)
      BY <2>4 DEF ResumeNext
    <3> QED
      BY <2>1, <2>2, <3>3, <3>4, Touched
  <2>5. CASE ResumeGetOk(r) \/ VerifyOk(r)
    <3>1. j # run[r].cur
      BY <1>1, <2>1, <2>5 DEF AtWork, ResumeGetOk, VerifyOk, Reading
    <3>2. \E s : Compared(run[r].cur) = WithStatus({run[r].cur}, s)
      BY Zenon DEF Compared
    <3> QED
      BY <2>3, <2>5, <3>1, <3>2 DEF ResumeGetOk, VerifyOk
  <2>6. CASE PickProperty(r)
    BY <1>6, <2>1, <2>2, <2>6, PickDropsNone
  <2>7. ASSUME NEW i \in run[r].toSend, SendNext(r, i) PROVE Under(j)'
    <3>1. i \in DOMAIN intents
      BY DEF IInv, TypeOK, RunState
    <3>2. ResOf(i) \notin Unmapped \ RatePlans
      <4>1. intents[i].cmd \in Commands
        BY <3>1, StampType
      <4> QED
        BY <4>1 DEF AllMapped, Commands, ResOf
    <3>3. intents' = WithStatus({i}, "sending")
      BY <2>7, <3>2 DEF SendNext, NoTarget
    <3> QED
      BY <2>1, <2>2, <3>3, Touched DEF HasStatus
  <2>8. CASE PostOk(r)
    <3>1. CASE j = run[r].cur
      BY <1>3, <1>4, <1>6, <2>1, <2>8, <3>1
    <3>2. CASE j # run[r].cur
      BY <2>3, <2>8, <3>2 DEF PostOk
    <3> QED
      BY <3>1, <3>2
  <2>9. CASE \/ StartDrain(r) \/ ResumeDone(r) \/ SendDone(r) \/ DrainDone(r) \/ BookingsDone(r)
             \/ PersistNext(r) \/ PersistLoopDone(r) \/ PersistRowOk(r) \/ PersistRowFails(r)
    BY <2>2, <2>9 DEF StartDrain, ResumeDone, SendDone, DrainDone, BookingsDone, PersistNext,
       PersistLoopDone, PersistRowOk, PersistRowFails
  <2>10. ~(ResumeGetFails(r) \/ PostPartial(r) \/ PostUnknown(r) \/ PostRefused(r) \/ VerifyFails(r))
    BY DEF ResumeGetFails, PostPartial, PostUnknown, PostRefused, VerifyFails, FaultKinds
  <2> QED
    BY <2>4, <2>5, <2>6, <2>7, <2>8, <2>9, <2>10 DEF Answered
<1> QED
  BY <1>1, <1>2, <1>3, <1>5, <1>6, NothingLostStays

LEMMA NextLost ==
    ASSUME OneDrain, IdsApart, AllMapped, WholeResources,
           IInv, DrainsAtWork, LiveKeysUnique, OInv, WInv, [Next]_vars
    PROVE  WInv'
<1>1. IsFiniteSet(Asked') /\ Cardinality(Asked') <= clock'
  BY NextAsked DEF WInv
<1> SUFFICES ASSUME Flawless' PROVE NothingLost'
  BY <1>1 DEF WInv
<1>2. /\ faults = MaxFaults /\ \A k \in FaultKinds : ~Fault(k)
      /\ clock = Cardinality(Asked)
      /\ \/ UNCHANGED <<clock, issued>>
         \/ clock' = clock + 1 /\ \E cmd \in Commands : Issue(cmd) /\ issued[cmd] = 0
  BY NextAsked, NoneLostBefore DEF WInv, OInv, Flawless
<1>3. NothingLost
  BY <1>2 DEF WInv, Flawless
<1>4. Clocked /\ IdsTell /\ InOrder
  BY <1>2 DEF OInv, NoneLost, FaultKinds
<1>5. clock \in Nat /\ issued \in [Commands -> Nat]
  BY DEF IInv, TypeOK
<1>6. ASSUME UNCHANGED <<issued, remote>>, InPlace(intents'),
             \A j \in Live : intents'[j].live /\ intents'[j].status = intents[j].status
      PROVE  NothingLost'
  <2>1. \A x \in Cells : remote'[x].at \in Nat /\ remote[x].at <= remote'[x].at
    BY <1>6 DEF IInv, TypeOK
  <2>2. \A cmd \in Asked : \A x \in CellsOf(cmd) : remote[x].at <= remote'[x].at
    BY <2>1, CellsType DEF Asked
  <2> QED
    BY <1>3, <1>6, <2>1, <2>2, NothingLostStays DEF HasStatus
<1>7. ASSUME NEW c \in Clients, NEW cmd \in Commands,
             EnqueueNew(c, cmd) \/ EnqueueKnown(c, cmd) \/ SupersedeConflict(c, cmd)
      PROVE  NothingLost'
  <2>1. clock' = clock + 1 /\ (Issue(cmd) \/ issued' = issued)
    BY <1>7 DEF EnqueueNew, EnqueueKnown, SupersedeConflict, Ask
  <2>2. PICK k \in Commands : Issue(k) /\ issued[k] = 0
    BY <1>2, <1>5, <2>1
  <2>3. issued'[k] = clock + 1
    BY <1>5, <2>2 DEF Issue
  <2>4. issued' # issued /\ Issue(cmd)
    BY <1>5, <2>1, <2>2, <2>3
  <2>5. issued[cmd] = 0
    BY <1>5, <2>2, <2>3, <2>4 DEF Issue
  <2>6. SameKey(cmd) = {}
    BY <1>3, <2>5 DEF SameKey, Live, NothingLost, Stamp
  <2>7. EnqueueNew(c, cmd)
    BY <1>7, <2>4, <2>6 DEF EnqueueKnown, SupersedeConflict
  <2> QED
    BY <1>3, <1>4, <2>5, <2>7, LostNew
<1>8. ASSUME NEW c \in Clients, PersistOk(c) \/ PersistFails(c) PROVE NothingLost'
  <2>1. PersistOk(c)
    BY <1>2, <1>8 DEF PersistFails, FaultKinds
  <2>2. UNCHANGED <<issued, remote>> /\ InPlace(intents')
    BY <2>1, UpdatesInPlace DEF PersistOk
  <2>3. \A j \in Live : intents'[j].live /\ intents'[j].status = intents[j].status
    BY <2>1 DEF PersistOk, Live, IInv, TypeOK, Intent
  <2> QED
    BY <1>6, <2>2, <2>3
<1>9. CASE Environment \/ UNCHANGED vars
  <2>1. ~(\E x \in Cells, v \in Values : ExternalEdit(x, v))
    BY <1>2 DEF ExternalEdit, FaultKinds
  <2>2. UNCHANGED <<issued, remote>>
    BY <1>9, <2>1 DEF Environment, BackoffExpires, PullChanges, vars, history
  <2>3. intents' = intents \/ \E i \in DOMAIN intents : intents' = [intents EXCEPT ![i].backoff = FALSE]
    BY <1>9, <2>1 DEF Environment, BackoffExpires, PullChanges, vars, memory
  <2>4. InPlace(intents) /\ \A i : InPlace([intents EXCEPT ![i].backoff = FALSE])
    BY UpdatesInPlace DEF InPlace
  <2>5. \A j \in Live : intents'[j].live /\ intents'[j].status = intents[j].status
    <3> SUFFICES ASSUME NEW j \in Live
                 PROVE  intents'[j].live /\ intents'[j].status = intents[j].status
      OBVIOUS
    <3>1. j \in DOMAIN intents /\ intents[j] \in Intent /\ intents[j].live
      BY DEF Live, IInv, TypeOK
    <3>2. ASSUME NEW i \in DOMAIN intents, intents' = [intents EXCEPT ![i].backoff = FALSE]
          PROVE  intents'[j].live /\ intents'[j].status = intents[j].status
      BY <3>1, <3>2 DEF Intent
    <3> QED
      BY <2>3, <3>1, <3>2
  <2> QED
    BY <1>6, <2>2, <2>3, <2>4, <2>5
<1>10. ASSUME NEW r \in Runs, StartDrain(r) \/ Answered(r) PROVE NothingLost'
  BY <1>2, <1>3, <1>4, <1>10, LostDrain
<1>11. ~Crash
  BY <1>2 DEF Crash, FaultKinds
<1>12. ~Hydrate
  BY <1>4 DEF Hydrate, HydrateRow, HydrateDone, HydrateFails, IdsTell
<1> QED
  BY <1>7, <1>8, <1>9, <1>10, <1>11, <1>12 DEF Next, Command, Request, Drain

\* The greatest of a set is the bound that is in it.
LEMMA SetMaxIs ==
    ASSUME NEW S, S \subseteq Nat, NEW m \in S, \A y \in S : y <= m
    PROVE  SetMax(S) = m
<1>1. \A x \in S : (\A y \in S : y <= x) => x = m
  OBVIOUS
<1> QED
  BY <1>1 DEF SetMax

\* When all is quiet each cell holds what was asked for it last, if every resource is written
\* as a whole and has a Channex id, one drain runs at a time and ids tell live intents apart,
\* nothing failed and nothing was asked twice at one version: whatever order requests, drains,
\* picks and answers come in, a superseded or dropped intent always has a newer one for its
\* cells in its place.
THEOREM LastAskedIsThere ==
    ASSUME OneDrain, IdsApart, AllMapped, WholeResources
    PROVE  Spec => []DistinctCommandsWin
<1>1. Init => WInv
  <2> SUFFICES ASSUME Init PROVE WInv
    OBVIOUS
  <2>1. Asked = {} /\ clock = 0 /\ DOMAIN intents = {}
    BY DEF Init, Asked
  <2>2. IsFiniteSet(Asked) /\ Cardinality(Asked) = 0
    BY <2>1, FS_EmptySet
  <2>3. NothingLost
    BY <2>1 DEF NothingLost
  <2> QED
    BY <2>1, <2>2, <2>3 DEF WInv
<1>2. IInv /\ DrainsAtWork /\ LiveKeysUnique /\ OInv /\ WInv /\ [Next]_vars => WInv'
  BY NextLost
<1>3. IInv /\ OInv /\ WInv => DistinctCommandsWin
  <2> SUFFICES ASSUME IInv, OInv, WInv, faults = MaxFaults, clock = Cardinality(Asked), Quiet,
                      NEW x \in Cells
               PROVE  remote[x].at = LastAsked(x)
    BY DEF DistinctCommandsWin, LastCommandWins, Asked
  <2>1. NothingLost /\ Clocked
    BY DEF WInv, Flawless, OInv
  <2> DEFINE S == {0} \cup {issued[cmd] : cmd \in {k \in Commands : x \in CellsOf(k)}}
             m == remote[x].at
  <2>2. issued \in [Commands -> Nat] /\ m \in Nat
    BY DEF IInv, TypeOK
  <2>3. \A n : ~Coming(x, n)
    BY DEF Quiet, Coming, HasStatus, Terminal, SENDABLE
  <2>4. \A cmd \in Commands : x \in CellsOf(cmd) => issued[cmd] <= m
    <3> SUFFICES ASSUME NEW cmd \in Commands, x \in CellsOf(cmd) PROVE issued[cmd] <= m
      OBVIOUS
    <3>1. CASE issued[cmd] > 0
      BY <2>1, <2>3, <3>1 DEF NothingLost, Asked
    <3>2. CASE ~(issued[cmd] > 0)
      BY <2>2, <3>2
    <3> QED
      BY <3>1, <3>2
  <2>5. m \in S
    <3>1. CASE m = 0
      BY <3>1
    <3>2. ASSUME NEW cmd \in Commands, x \in CellsOf(cmd), m <= issued[cmd] PROVE m \in S
      <4>1. m = issued[cmd]
        BY <2>2, <2>4, <3>2
      <4> QED
        BY <3>2, <4>1
    <3> QED
      BY <2>1, <3>1, <3>2 DEF Clocked
  <2>6. S \subseteq Nat /\ \A y \in S : y <= m
    BY <2>2, <2>4
  <2> HIDE DEF S
  <2>7. SetMax(S) = m
    BY <2>5, <2>6, SetMaxIs
  <2> QED
    BY <2>7 DEF LastAsked, S
<1>4. Spec => [](IInv /\ DrainsAtWork /\ LiveKeysUnique /\ OInv)
  BY OrderInvariant
<1> QED
  BY <1>1, <1>2, <1>3, <1>4, PTL DEF Spec
=============================================================================
