---------------------------- MODULE AriOutboxProofs ----------------------------
(***************************************************************************)
(* Proofs about AriOutbox, for every value of its constants.               *)
(***************************************************************************)
EXTENDS AriOutbox, TLAPS, WellFoundedInduction

\* What a drain under way refers to exists: the object it awaits an answer for and
\* the object whose row it writes.  Without it a step could write outside the types.
Refs(locals, objs) ==
    /\ locals.pc \in {"resumeGet", "post", "verifyGet"} => locals.cur \in objs
    /\ locals.pc = "persistRow" => locals.at \in objs /\ locals.row \in Row
RefsOK == \A r \in Runs : Refs(run[r], DOMAIN intents)
IInv == TypeOK /\ RefsOK

-----------------------------------------------------------------------------
(* Lemmas about the operators.                                             *)

\* A non-empty set of naturals has a least element, and SetMin is it.
LEMMA SetMinIn ==
    ASSUME NEW S, S \subseteq Nat, S # {}
    PROVE  SetMin(S) \in S /\ \A y \in S : SetMin(S) <= y
<1> DEFINE R == OpToRel(<, Nat)
<1>1. IsWellFoundedOn(R, Nat)
  BY NatLessThanWellFounded
<1>2. PICK x \in S : \A y \in S : ~(<<y, x>> \in R)
  BY <1>1, WFMin
<1>3. \A y \in S : <<y, x>> \in R <=> y < x
  BY Zenon DEF OpToRel
<1> HIDE DEF R
<1>4. \A y \in S : ~(y < x)
  BY <1>2, <1>3, Zenon
<1>5. \A y \in S : x <= y
  <2>1. \A y \in S : y \in Nat /\ x \in Nat
    OBVIOUS
  <2> QED
    BY <1>4, <2>1
<1> QED
  BY <1>5 DEF SetMin

\* A record of a type keeps it when a field is given a value of the field's type.
LEMMA IntentExcept ==
    ASSUME NEW o \in Intent
    PROVE  /\ \A s \in Statuses : [o EXCEPT !.status = s] \in Intent
           /\ \A n \in Nat : [o EXCEPT !.id = n] \in Intent
           /\ \A b \in BOOLEAN : /\ [o EXCEPT !.backoff = b] \in Intent
                                 /\ [o EXCEPT !.tasked = b] \in Intent
                                 /\ [o EXCEPT !.live = b] \in Intent
BY DEF Intent

\* Objects keep their place when one of them changes.
LEMMA ObjectExcept ==
    ASSUME NEW q \in Seq(Intent), NEW i, NEW o \in Intent
    PROVE  /\ [q EXCEPT ![i] = o] \in Seq(Intent)
           /\ DOMAIN [q EXCEPT ![i] = o] = DOMAIN q
<1>1. q \in [1..Len(q) -> Intent] /\ Len(q) \in Nat
  OBVIOUS
<1>2. [q EXCEPT ![i] = o] \in [1..Len(q) -> Intent]
  BY <1>1
<1> QED
  BY <1>1, <1>2

\* ... and when the status of some of them does.
LEMMA WithStatusType ==
    ASSUME intents \in Seq(Intent), NEW S, NEW s \in Statuses
    PROVE  /\ WithStatus(S, s) \in Seq(Intent)
           /\ DOMAIN WithStatus(S, s) = DOMAIN intents
           /\ Len(WithStatus(S, s)) = Len(intents)
<1> DEFINE g(i) == [intents[i] EXCEPT !.status = s]
<1>1. \A i \in DOMAIN intents : intents[i] \in Intent /\ g(i) \in Intent
  BY IntentExcept
<1>2. WithStatus(S, s) = [i \in DOMAIN intents |-> IF i \in S THEN g(i) ELSE intents[i]]
  BY DEF WithStatus
<1> HIDE DEF g
<1> QED
  BY <1>1, <1>2

\* What refers into a store refers into any store at least as large.
LEMMA MoreObjects ==
    ASSUME NEW A, NEW B, A \subseteq B
    PROVE  /\ RunState(A) \subseteq RunState(B)
           /\ Awaited(A) \subseteq Awaited(B)
           /\ \A locals : Refs(locals, A) => Refs(locals, B)
<1>1. RunState(A) \subseteq RunState(B)
  BY DEF RunState
<1>2. Awaited(A) \subseteq Awaited(B)
  BY DEF Awaited
<1>3. \A locals : Refs(locals, A) => Refs(locals, B)
  BY DEF Refs
<1> QED
  BY <1>1, <1>2, <1>3

\* The row of an object is a row.
LEMMA RowOfType ==
    ASSUME intents \in Seq(Intent), NEW i \in DOMAIN intents
    PROVE  RowOf(i) \in Row
<1>1. intents[i] \in Intent
  OBVIOUS
<1> QED
  BY <1>1 DEF Intent, Row, RowOf

\* A drain that does nothing has locals of the right type.
LEMMA IdleType ==
    ASSUME NEW objs
    PROVE  Idle \in RunState(objs) /\ Refs(Idle, objs)
BY DEF Idle, RunState, RunPcs, Refs

LEMMA FaultType ==
    ASSUME TypeOK, NEW k \in FaultKinds, CanFault(k), Fault(k)
    PROVE  faults' \in [FaultKinds -> Nat]
BY DEF TypeOK, CanFault, Fault

LEMMA CommandType ==
    ASSUME NEW cmd \in Commands
    PROVE  cmd.input.val \in Values /\ cmd.input.res \in Resources
<1>1. cmd.input \in Inputs
  BY DEF Commands
<1>2. cmd.input \in [res : Resources, dates : SUBSET Dates,
                     fields : SUBSET Fields, val : Values]
  BY <1>1, ConstantsAssumption
<1> QED
  BY <1>2

\* Writing cells at Channex keeps their type.
LEMMA WriteType ==
    ASSUME TypeOK, NEW i \in DOMAIN intents, NEW cells, Write(i, cells)
    PROVE  remote' \in [Cells -> [val : Values, at : 0..MaxCommands]]
<1>1. intents[i].cmd \in Commands
  <2>1. intents[i] \in Intent
    BY DEF TypeOK
  <2> QED
    BY <2>1 DEF Intent
<1>2. intents[i].cmd.input.val \in Values
  BY <1>1, CommandType
<1>3. issued[intents[i].cmd] \in 0..MaxCommands
  BY <1>1 DEF TypeOK
<1> DEFINE new == [val |-> intents[i].cmd.input.val, at |-> issued[intents[i].cmd]]
<1>4. new \in [val : Values, at : 0..MaxCommands]
  BY <1>2, <1>3
<1>5. remote' = [x \in Cells |-> IF x \in cells THEN new ELSE remote[x]]
  BY DEF Write
<1>6. \A x \in Cells : remote[x] \in [val : Values, at : 0..MaxCommands]
  BY DEF TypeOK
<1> HIDE DEF new
<1> QED
  BY <1>4, <1>5, <1>6

-----------------------------------------------------------------------------
(* Initially the invariant holds.                                          *)
LEMMA InitIInv == Init => IInv
<1> SUFFICES ASSUME Init PROVE IInv
  OBVIOUS
<1>1. intents \in Seq(Intent) /\ nextId \in Nat /\ nextDbId \in Nat
      /\ clock \in 0..MaxCommands /\ version \in 0..MaxVersion
  BY ConstantsAssumption DEF Init
<1>2. client \in [Clients -> Awaited(DOMAIN intents) \cup {NoReq}]
  BY DEF Init
<1>3. run \in [Runs -> RunState(DOMAIN intents)] /\ RefsOK
  BY IdleType DEF Init, RefsOK
<1>4. turn \in Runs \cup {NoRun} /\ hydrating \in BOOLEAN
  BY DEF Init
<1>5. db \in [Commands -> Row \cup {NoRow}]
  BY DEF Init
<1>6. remote \in [Cells -> [val : Values, at : 0..MaxCommands]]
  BY ConstantsAssumption DEF Init
<1>7. faults \in [FaultKinds -> Nat]
  BY ConstantsAssumption DEF Init
<1>8. issued \in [Commands -> 0..MaxCommands] /\ acked \subseteq Commands
  BY ConstantsAssumption DEF Init
<1> QED
  BY <1>1, <1>2, <1>3, <1>4, <1>5, <1>6, <1>7, <1>8 DEF IInv, TypeOK

-----------------------------------------------------------------------------
(* The steps of a drain: each changes objects in place and leaves the drain *)
(* with locals that refer to objects there are.                             *)

\* What every step of drain r that leaves it with these locals has to show.
LEMMA DrainStep ==
    ASSUME IInv, NEW r \in Runs, NEW locals,
           locals \in RunState(DOMAIN intents), Refs(locals, DOMAIN intents),
           run' = [run EXCEPT ![r] = locals],
           turn' \in Runs \cup {NoRun},
           intents' \in Seq(Intent), DOMAIN intents' = DOMAIN intents,
           db' \in [Commands -> Row \cup {NoRow}],
           remote' \in [Cells -> [val : Values, at : 0..MaxCommands]],
           faults' \in [FaultKinds -> Nat],
           UNCHANGED <<nextId, version, client, hydrating, nextDbId, history>>
    PROVE  IInv'
<1>1. run' \in [Runs -> RunState(DOMAIN intents')]
  BY DEF IInv, TypeOK
<1>2. RefsOK'
  BY DEF IInv, TypeOK, RefsOK
<1>3. client' \in [Clients -> Awaited(DOMAIN intents') \cup {NoReq}]
  BY DEF IInv, TypeOK
<1> QED
  BY <1>1, <1>2, <1>3 DEF IInv, TypeOK, history

LEMMA StartDrainInv == ASSUME IInv, NEW r \in Runs, StartDrain(r) PROVE IInv'
<1> DEFINE locals == [Idle EXCEPT !.pc = "resume", !.seen = Live]
<1>1. locals \in RunState(DOMAIN intents) /\ Refs(locals, DOMAIN intents)
  BY DEF Idle, RunState, RunPcs, Refs, Live
<1>2. run' = [run EXCEPT ![r] = locals] /\ turn' = r
  BY DEF StartDrain, Keep
<1> HIDE DEF locals
<1> QED
  BY <1>1, <1>2, DrainStep
     DEF StartDrain, RunOnly, durable, history, IInv, TypeOK

\* The resume loop: an object that was there when the drain began.
LEMMA ResumeNextInv == ASSUME IInv, NEW r \in Runs, ResumeNext(r) PROVE IInv'
<1> DEFINE i == SetMin(ToResume(r))
           next == [run[r] EXCEPT !.at = i, !.processed = TRUE]
           reading == [next EXCEPT !.pc = "resumeGet", !.cur = i]
<1>1. run[r] \in RunState(DOMAIN intents) /\ run[r].pc = "resume"
  BY DEF IInv, TypeOK, ResumeNext
<1>2. i \in DOMAIN intents /\ i \in Nat
  <2>1. ToResume(r) \subseteq DOMAIN intents /\ ToResume(r) # {}
    BY <1>1 DEF ToResume, RunState, ResumeNext
  <2>2. DOMAIN intents \subseteq Nat
    BY DEF IInv, TypeOK
  <2> QED
    BY <2>1, <2>2, SetMinIn
<1>3. next \in RunState(DOMAIN intents) /\ Refs(next, DOMAIN intents)
  <2> HIDE DEF i
  <2> QED
    BY <1>1, <1>2 DEF RunState, Refs
<1>4. reading \in RunState(DOMAIN intents) /\ Refs(reading, DOMAIN intents)
  <2> HIDE DEF i
  <2> QED
    BY <1>1, <1>2 DEF RunState, RunPcs, Refs
<1>5. PICK s \in {"failed", "reconciling"}, l \in {next, reading} :
        /\ intents' = WithStatus({i}, s)
        /\ run' = [run EXCEPT ![r] = l] /\ turn' \in {r, NoRun}
  BY DEF ResumeNext, Keep, Await
<1> HIDE DEF i, next, reading
<1>6. intents' \in Seq(Intent) /\ DOMAIN intents' = DOMAIN intents
  BY <1>5, WithStatusType DEF IInv, TypeOK, Statuses
<1> QED
  BY <1>3, <1>4, <1>5, <1>6, DrainStep
     DEF ResumeNext, RunOnly, durable, history, IInv, TypeOK

LEMMA ResumeDoneInv == ASSUME IInv, NEW r \in Runs, ResumeDone(r) PROVE IInv'
<1> DEFINE props == {PropertyOf[ResOf(i)] : i \in {j \in run[r].seen : HasStatus(j, SENDABLE)}}
           locals == [run[r] EXCEPT !.pc = "property", !.at = 0, !.props = props]
<1>1. run[r] \in RunState(DOMAIN intents)
  BY DEF IInv, TypeOK
<1>2. props \subseteq Nat
  <2>1. \A i \in run[r].seen : intents[i] \in Intent
    BY <1>1 DEF RunState, IInv, TypeOK
  <2>2. \A i \in run[r].seen : ResOf(i) \in Resources
    BY <2>1, CommandType DEF Intent, ResOf
  <2>3. \A i \in run[r].seen : PropertyOf[ResOf(i)] \in Nat
    BY <2>2, ConstantsAssumption
  <2> QED
    BY <2>3
<1>3. run' = [run EXCEPT ![r] = locals] /\ turn' = r
  BY DEF ResumeDone, Keep
<1>4. locals \in RunState(DOMAIN intents) /\ Refs(locals, DOMAIN intents)
  <2> HIDE DEF props
  <2> QED
    BY <1>1, <1>2 DEF RunState, RunPcs, Refs
<1> HIDE DEF locals
<1> QED
  BY <1>3, <1>4, DrainStep
     DEF ResumeDone, RunOnly, durable, history, IInv, TypeOK

\* After the answer to a GET or a POST the drain goes on from where it was.
LEMMA GoOn ==
    ASSUME IInv, NEW r \in Runs, NEW pc \in {"resume", "send"}
    PROVE  /\ [run[r] EXCEPT !.pc = pc, !.cur = 0] \in RunState(DOMAIN intents)
           /\ Refs([run[r] EXCEPT !.pc = pc, !.cur = 0], DOMAIN intents)
<1>1. run[r] \in RunState(DOMAIN intents)
  BY DEF IInv, TypeOK
<1> QED
  BY <1>1 DEF RunState, RunPcs, Refs

LEMMA ComparedType ==
    ASSUME IInv, NEW i
    PROVE  Compared(i) \in Seq(Intent) /\ DOMAIN Compared(i) = DOMAIN intents
BY WithStatusType DEF Compared, IInv, TypeOK, Statuses

LEMMA WithRetryType ==
    ASSUME IInv, NEW i \in DOMAIN intents
    PROVE  WithRetry(i) \in Seq(Intent) /\ DOMAIN WithRetry(i) = DOMAIN intents
<1>1. intents \in Seq(Intent) /\ intents[i] \in Intent
  BY DEF IInv, TypeOK
<1> DEFINE o1 == [intents[i] EXCEPT !.status = "retry"]
           o2 == [o1 EXCEPT !.backoff = TRUE]
<1>2. o2 \in Intent
  BY <1>1, IntentExcept DEF Statuses
<1>3. WithRetry(i) = [intents EXCEPT ![i] = o2]
  BY <1>1 DEF WithRetry
<1> HIDE DEF o2
<1> QED
  BY <1>1, <1>2, <1>3, ObjectExcept

LEMMA ResumeGetInv ==
    ASSUME IInv, NEW r \in Runs, ResumeGetOk(r) \/ ResumeGetFails(r)
    PROVE  IInv'
<1>1. run[r].cur \in DOMAIN intents
  BY DEF IInv, RefsOK, Refs, ResumeGetOk, ResumeGetFails, Reading
<1>2. intents' \in Seq(Intent) /\ DOMAIN intents' = DOMAIN intents
  BY <1>1, ComparedType, WithRetryType DEF ResumeGetOk, ResumeGetFails
<1>3. faults' \in [FaultKinds -> Nat]
  BY FaultType DEF ResumeGetOk, ResumeGetFails, FaultKinds, IInv, TypeOK
<1> DEFINE locals == [run[r] EXCEPT !.pc = "resume", !.cur = 0]
<1>4. locals \in RunState(DOMAIN intents) /\ Refs(locals, DOMAIN intents)
  BY GoOn
<1>5. run' = [run EXCEPT ![r] = locals] /\ turn' = r
  BY DEF ResumeGetOk, ResumeGetFails, Keep
<1> HIDE DEF locals
<1> QED
  BY <1>2, <1>3, <1>4, <1>5, DrainStep
     DEF ResumeGetOk, ResumeGetFails, RunOnly, durable, history, IInv, TypeOK

\* Sending: the picked intents are among those the drain saw.
LEMMA PickPropertyInv == ASSUME IInv, NEW r \in Runs, PickProperty(r) PROVE IInv'
<1> DEFINE p == SetMin(run[r].props)
           cand == Candidates(r, p)
           locals == [run[r] EXCEPT !.pc = "send", !.props = @ \ {p},
                                    !.toSend = PickedOf(cand)]
<1>1. run[r] \in RunState(DOMAIN intents)
  BY DEF IInv, TypeOK
<1>2. PickedOf(cand) \subseteq DOMAIN intents
  BY <1>1 DEF PickedOf, Candidates, RunState
<1>3. locals \in RunState(DOMAIN intents) /\ Refs(locals, DOMAIN intents)
  <2> HIDE DEF p, cand
  <2> QED
    BY <1>1, <1>2 DEF RunState, RunPcs, Refs
<1>4. intents' = WithStatus(cand \ PickedOf(cand), "cancelled")
  BY DEF PickProperty
<1>5. run' = [run EXCEPT ![r] = locals] /\ turn' = r
  BY DEF PickProperty, Keep
<1> HIDE DEF p, cand, locals
<1>6. intents' \in Seq(Intent) /\ DOMAIN intents' = DOMAIN intents
  BY <1>4, WithStatusType DEF IInv, TypeOK, Statuses
<1> QED
  BY <1>3, <1>5, <1>6, DrainStep
     DEF PickProperty, RunOnly, durable, history, IInv, TypeOK

LEMMA SendNextInv ==
    ASSUME IInv, NEW r \in Runs, NEW i \in run[r].toSend, SendNext(r, i)
    PROVE  IInv'
<1> DEFINE next == [run[r] EXCEPT !.toSend = @ \ {i}, !.processed = TRUE]
           posting == [next EXCEPT !.pc = "post", !.cur = i]
<1>1. run[r] \in RunState(DOMAIN intents) /\ run[r].pc = "send"
  BY DEF IInv, TypeOK, SendNext
<1>2. i \in DOMAIN intents /\ i \in Nat
  BY <1>1 DEF RunState, IInv, TypeOK
<1>3. next \in RunState(DOMAIN intents) /\ Refs(next, DOMAIN intents)
  BY <1>1 DEF RunState, Refs
<1>4. posting \in RunState(DOMAIN intents) /\ Refs(posting, DOMAIN intents)
  BY <1>1, <1>2 DEF RunState, RunPcs, Refs
<1>5. PICK s \in {"failed", "sending"}, l \in {next, posting} :
        /\ intents' = WithStatus({i}, s)
        /\ run' = [run EXCEPT ![r] = l] /\ turn' \in {r, NoRun}
  BY DEF SendNext, Keep, Await
<1> HIDE DEF next, posting
<1>6. intents' \in Seq(Intent) /\ DOMAIN intents' = DOMAIN intents
  BY <1>5, WithStatusType DEF IInv, TypeOK, Statuses
<1> QED
  BY <1>3, <1>4, <1>5, <1>6, DrainStep
     DEF SendNext, RunOnly, durable, history, IInv, TypeOK

LEMMA SendDoneInv == ASSUME IInv, NEW r \in Runs, SendDone(r) PROVE IInv'
<1> DEFINE locals == [run[r] EXCEPT !.pc = "property"]
<1>1. run[r] \in RunState(DOMAIN intents)
  BY DEF IInv, TypeOK
<1>2. locals \in RunState(DOMAIN intents) /\ Refs(locals, DOMAIN intents)
  BY <1>1 DEF RunState, RunPcs, Refs
<1>3. run' = [run EXCEPT ![r] = locals] /\ turn' = r
  BY DEF SendDone, Keep
<1> HIDE DEF locals
<1> QED
  BY <1>2, <1>3, DrainStep DEF SendDone, RunOnly, durable, history, IInv, TypeOK

\* A status and a task id given to one object.
LEMMA WithTaskType ==
    ASSUME IInv, NEW i \in DOMAIN intents, NEW s \in Statuses
    PROVE  WithTask(i, s) \in Seq(Intent) /\ DOMAIN WithTask(i, s) = DOMAIN intents
<1>1. intents \in Seq(Intent) /\ intents[i] \in Intent
  BY DEF IInv, TypeOK
<1> DEFINE o1 == [intents[i] EXCEPT !.status = s]
           o2 == [o1 EXCEPT !.tasked = TRUE]
<1>2. o2 \in Intent
  BY <1>1, IntentExcept
<1>3. WithTask(i, s) = [intents EXCEPT ![i] = o2]
  BY <1>1 DEF WithTask
<1> HIDE DEF o2
<1> QED
  BY <1>1, <1>2, <1>3, ObjectExcept

LEMMA PostOkInv == ASSUME IInv, NEW r \in Runs, PostOk(r) PROVE IInv'
<1> DEFINE i == run[r].cur
           locals == [run[r] EXCEPT !.pc = "verifyGet"]
<1>1. i \in DOMAIN intents
  BY DEF PostOk, PostReturns, Reading, IInv, RefsOK, Refs
<1>2. remote' \in [Cells -> [val : Values, at : 0..MaxCommands]]
  BY <1>1, WriteType DEF PostOk, IInv
<1>3. intents' \in Seq(Intent) /\ DOMAIN intents' = DOMAIN intents
  BY <1>1, WithTaskType DEF PostOk, Statuses
<1>4. run[r] \in RunState(DOMAIN intents)
  BY DEF IInv, TypeOK
<1>5. locals \in RunState(DOMAIN intents) /\ Refs(locals, DOMAIN intents)
  BY <1>1, <1>4 DEF RunState, RunPcs, Refs
<1>6. run' = [run EXCEPT ![r] = locals] /\ turn' = NoRun
  BY DEF PostOk, Await
<1> HIDE DEF i, locals
<1> QED
  BY <1>2, <1>3, <1>5, <1>6, DrainStep
     DEF PostOk, PostReturns, durable, history, IInv, TypeOK

\* The other answers to a POST end the work on the object.
LEMMA PostEndsInv ==
    ASSUME IInv, NEW r \in Runs, PostPartial(r) \/ PostUnknown(r) \/ PostRefused(r)
    PROVE  IInv'
<1> DEFINE i == run[r].cur
           locals == [run[r] EXCEPT !.pc = "send", !.cur = 0]
<1>1. i \in DOMAIN intents
  BY DEF PostPartial, PostUnknown, PostRefused, PostReturns, Reading, IInv, RefsOK, Refs
<1>2. remote' \in [Cells -> [val : Values, at : 0..MaxCommands]]
  <2>1. CASE UNCHANGED remote
    BY <2>1 DEF IInv, TypeOK
  <2>2. CASE \E cells : Write(i, cells)
    BY <1>1, <2>2, WriteType DEF IInv
  <2> QED
    BY <2>1, <2>2 DEF PostPartial, PostUnknown, PostRefused
<1>3. intents' \in Seq(Intent) /\ DOMAIN intents' = DOMAIN intents
  <2>1. CASE PostPartial(r)
    BY <1>1, <2>1, WithTaskType DEF PostPartial, Statuses
  <2>2. CASE PostUnknown(r)
    BY <1>1, <2>2, WithRetryType DEF PostUnknown
  <2>3. CASE PostRefused(r)
    BY <2>3, WithStatusType DEF PostRefused, Statuses, IInv, TypeOK
  <2> QED
    BY <2>1, <2>2, <2>3
<1>4. faults' \in [FaultKinds -> Nat]
  BY FaultType DEF PostPartial, PostUnknown, PostRefused, FaultKinds, IInv
<1>5. locals \in RunState(DOMAIN intents) /\ Refs(locals, DOMAIN intents)
  BY GoOn
<1>6. run' = [run EXCEPT ![r] = locals] /\ turn' = r
  BY DEF PostPartial, PostUnknown, PostRefused, Keep
<1>7. UNCHANGED <<nextId, version, client, hydrating, durable, history>>
  BY DEF PostPartial, PostUnknown, PostRefused, PostReturns
<1> HIDE DEF i, locals
<1> QED
  BY <1>2, <1>3, <1>4, <1>5, <1>6, <1>7, DrainStep DEF durable, IInv, TypeOK

LEMMA VerifyInv ==
    ASSUME IInv, NEW r \in Runs, VerifyOk(r) \/ VerifyFails(r)
    PROVE  IInv'
<1>1. intents' \in Seq(Intent) /\ DOMAIN intents' = DOMAIN intents
  <2>1. CASE VerifyOk(r)
    BY <2>1, ComparedType DEF VerifyOk
  <2>2. CASE VerifyFails(r)
    BY <2>2, WithStatusType DEF VerifyFails, Statuses, IInv, TypeOK
  <2> QED
    BY <2>1, <2>2
<1>2. faults' \in [FaultKinds -> Nat]
  BY FaultType DEF VerifyOk, VerifyFails, FaultKinds, IInv, TypeOK
<1> DEFINE locals == [run[r] EXCEPT !.pc = "send", !.cur = 0]
<1>3. locals \in RunState(DOMAIN intents) /\ Refs(locals, DOMAIN intents)
  BY GoOn
<1>4. run' = [run EXCEPT ![r] = locals] /\ turn' = r
  BY DEF VerifyOk, VerifyFails, Keep
<1> HIDE DEF locals
<1> QED
  BY <1>1, <1>2, <1>3, <1>4, DrainStep
     DEF VerifyOk, VerifyFails, RunOnly, durable, history, IInv, TypeOK

-----------------------------------------------------------------------------
(* The write-through of the statuses.                                      *)

LEMMA DrainDoneInv == ASSUME IInv, NEW r \in Runs, DrainDone(r) PROVE IInv'
<1> DEFINE locals == [Idle EXCEPT !.pc = "bookings", !.processed = run[r].processed]
<1>1. run[r].processed \in BOOLEAN
  BY DEF IInv, TypeOK, RunState
<1>2. locals \in RunState(DOMAIN intents) /\ Refs(locals, DOMAIN intents)
  BY <1>1 DEF Idle, RunState, RunPcs, Refs
<1>3. run' = [run EXCEPT ![r] = locals] /\ turn' \in {r, NoRun}
  BY DEF DrainDone, Await
<1> HIDE DEF locals
<1> QED
  BY <1>2, <1>3, DrainStep DEF DrainDone, RunOnly, durable, history, IInv, TypeOK

LEMMA BookingsDoneInv == ASSUME IInv, NEW r \in Runs, BookingsDone(r) PROVE IInv'
<1> DEFINE locals == [Idle EXCEPT !.pc = "persist", !.seen = Live]
<1>1. locals \in RunState(DOMAIN intents) /\ Refs(locals, DOMAIN intents)
  BY DEF Idle, RunState, RunPcs, Refs, Live
<1>2. PICK l \in {locals, Idle} :
        run' = [run EXCEPT ![r] = l] /\ turn' \in {r, NoRun}
  BY DEF BookingsDone, Keep, Reading
<1> HIDE DEF locals
<1> QED
  BY <1>1, <1>2, IdleType, DrainStep
     DEF BookingsDone, RunOnly, durable, history, IInv, TypeOK

LEMMA PersistNextInv == ASSUME IInv, NEW r \in Runs, PersistNext(r) PROVE IInv'
<1> DEFINE i == SetMin(ToPersist(r))
           locals == [run[r] EXCEPT !.pc = "persistRow", !.at = i, !.row = RowOf(i)]
<1>1. run[r] \in RunState(DOMAIN intents)
  BY DEF IInv, TypeOK
<1>2. i \in DOMAIN intents /\ i \in Nat
  <2>1. ToPersist(r) \subseteq DOMAIN intents /\ ToPersist(r) # {}
    BY <1>1 DEF ToPersist, RunState, PersistNext
  <2>2. DOMAIN intents \subseteq Nat
    BY DEF IInv, TypeOK
  <2> QED
    BY <2>1, <2>2, SetMinIn
<1>3. RowOf(i) \in Row
  BY <1>2, RowOfType DEF IInv, TypeOK
<1>4. locals \in RunState(DOMAIN intents) /\ Refs(locals, DOMAIN intents)
  <2> HIDE DEF i
  <2> QED
    BY <1>1, <1>2, <1>3 DEF RunState, RunPcs, Refs
<1>5. run' = [run EXCEPT ![r] = locals] /\ turn' = NoRun
  BY DEF PersistNext, Await
<1> HIDE DEF i, locals
<1> QED
  BY <1>4, <1>5, DrainStep DEF PersistNext, RunOnly, durable, history, IInv, TypeOK

LEMMA PersistEndsInv ==
    ASSUME IInv, NEW r \in Runs, PersistLoopDone(r) \/ PersistRowFails(r)
    PROVE  IInv'
<1>1. run' = [run EXCEPT ![r] = Idle] /\ turn' = NoRun
  BY DEF PersistLoopDone, PersistRowFails, Reading
<1>2. faults' \in [FaultKinds -> Nat]
  BY FaultType DEF PersistLoopDone, PersistRowFails, FaultKinds, IInv, TypeOK
<1> QED
  BY <1>1, <1>2, IdleType, DrainStep
     DEF PersistLoopDone, PersistRowFails, RunOnly, durable, history, IInv, TypeOK

\* A stored row with the id column left alone is a row.
LEMMA RowExcept ==
    ASSUME NEW row \in Row, NEW n \in Nat
    PROVE  [row EXCEPT !.id = n] \in Row
BY DEF Row

\* The UPDATE keeps the table's type and takes no row away.
LEMMA UpdatedType ==
    ASSUME IInv, NEW r \in Runs, run[r].pc = "persistRow", Updated(r)
    PROVE  /\ db' \in [Commands -> Row \cup {NoRow}]
           /\ \A cmd \in Commands : db[cmd] # NoRow => db'[cmd] # NoRow
<1> DEFINE cmd == intents[run[r].at].cmd
           new == [run[r].row EXCEPT !.id = db[cmd].id]
<1>1. cmd \in Commands /\ run[r].row \in Row
  <2>1. intents[run[r].at] \in Intent /\ run[r].row \in Row
    BY DEF IInv, RefsOK, Refs, TypeOK
  <2> QED
    BY <2>1 DEF Intent
<1>2. ASSUME db[cmd] # NoRow PROVE new \in Row
  <2>1. db[cmd] \in Row
    BY <1>1, <1>2 DEF IInv, TypeOK
  <2>2. db[cmd].id \in Nat
    BY <2>1 DEF Row
  <2> QED
    BY <1>1, <2>2, RowExcept
<1>3. db' = IF db[cmd] = NoRow THEN db ELSE [db EXCEPT ![cmd] = new]
  BY DEF Updated
<1> HIDE DEF cmd, new
<1> QED
  BY <1>1, <1>2, <1>3, NoRowAssumption DEF IInv, TypeOK

LEMMA PersistRowOkInv == ASSUME IInv, NEW r \in Runs, PersistRowOk(r) PROVE IInv'
<1> DEFINE locals == [run[r] EXCEPT !.pc = "persist", !.row = NoRow]
<1>1. run[r] \in RunState(DOMAIN intents)
  BY DEF IInv, TypeOK
<1>2. locals \in RunState(DOMAIN intents) /\ Refs(locals, DOMAIN intents)
  BY <1>1 DEF RunState, RunPcs, Refs
<1>3. db' \in [Commands -> Row \cup {NoRow}]
  BY UpdatedType DEF PersistRowOk, Reading
<1>4. run' = [run EXCEPT ![r] = locals] /\ turn' = r
  BY DEF PersistRowOk, Keep
<1> HIDE DEF locals
<1> QED
  BY <1>2, <1>3, <1>4, DrainStep DEF PersistRowOk, history, IInv, TypeOK

-----------------------------------------------------------------------------
(* Commands and requests.                                                  *)

\* What a step has to show that leaves the drains alone and adds to the store or
\* leaves its objects in place.
LEMMA StoreStep ==
    ASSUME IInv, intents' \in Seq(Intent), DOMAIN intents \subseteq DOMAIN intents',
           nextId' \in Nat, nextDbId' \in Nat,
           \A c \in Clients : client'[c] \in Awaited(DOMAIN intents') \cup {NoReq},
           client' = [c \in Clients |-> client'[c]],
           db' \in [Commands -> Row \cup {NoRow}], hydrating' \in BOOLEAN,
           faults' \in [FaultKinds -> Nat], clock' \in 0..MaxCommands,
           issued' \in [Commands -> 0..MaxCommands], acked' \subseteq Commands,
           UNCHANGED <<version, run, turn, remote>>
    PROVE  IInv'
<1>1. run' \in [Runs -> RunState(DOMAIN intents')]
  BY MoreObjects DEF IInv, TypeOK
<1>2. RefsOK'
  BY MoreObjects DEF IInv, RefsOK
<1> QED
  BY <1>1, <1>2 DEF IInv, TypeOK

LEMMA CancelAllType ==
    ASSUME IInv, NEW S
    PROVE  /\ WithStatus(S, "cancelled") \in Seq(Intent)
           /\ DOMAIN WithStatus(S, "cancelled") = DOMAIN intents
           /\ Len(WithStatus(S, "cancelled")) = Len(intents)
BY WithStatusType DEF IInv, TypeOK, Statuses

LEMMA AskType ==
    ASSUME IInv, NEW c \in Clients, NEW cmd \in Commands, Ask(c, cmd)
    PROVE  clock + 1 \in 0..MaxCommands /\ clock' = clock + 1
BY ConstantsAssumption DEF Ask, IInv, TypeOK

LEMMA EnqueueNewInv ==
    ASSUME IInv, NEW c \in Clients, NEW cmd \in Commands, EnqueueNew(c, cmd)
    PROVE  IInv'
<1> DEFINE new == [cmd |-> cmd, id |-> nextId, status |-> "queued",
                   backoff |-> FALSE, tasked |-> FALSE, live |-> TRUE]
           await == [obj |-> Len(intents) + 1,
                     row |-> [id |-> nextId, status |-> "queued",
                              backoff |-> FALSE, tasked |-> FALSE]]
           cancelled == CancelAll(cmd)
<1>1. new \in Intent /\ nextId' \in Nat
  BY DEF Intent, Statuses, EnqueueNew, IInv, TypeOK
<1>2. intents' = Append(cancelled, new)
  BY DEF EnqueueNew
<1>3. /\ cancelled \in Seq(Intent) /\ DOMAIN cancelled = DOMAIN intents
      /\ Len(cancelled) = Len(intents)
  BY CancelAllType DEF CancelAll
<1>4. client' = [client EXCEPT ![c] = await]
  BY DEF EnqueueNew
<1>5. await.obj = Len(intents) + 1 /\ await.row \in Row
  BY DEF Row, Statuses, IInv, TypeOK
<1>6. await = [obj |-> await.obj, row |-> await.row]
  OBVIOUS
<1> HIDE DEF new, await, cancelled
<1>7. /\ intents' \in Seq(Intent) /\ DOMAIN intents \subseteq DOMAIN intents'
      /\ Len(intents) + 1 \in DOMAIN intents'
  BY <1>1, <1>2, <1>3 DEF IInv, TypeOK
<1>8. await \in Awaited(DOMAIN intents')
  BY <1>5, <1>6, <1>7 DEF Awaited
<1>9. /\ \A k \in Clients : client'[k] \in Awaited(DOMAIN intents') \cup {NoReq}
      /\ client' = [k \in Clients |-> client'[k]]
  BY <1>4, <1>7, <1>8, MoreObjects DEF IInv, TypeOK
<1>10. issued' \in [Commands -> 0..MaxCommands]
  BY AskType DEF EnqueueNew, Issue, IInv, TypeOK
<1> QED
  BY <1>1, <1>7, <1>9, <1>10, AskType, StoreStep
     DEF EnqueueNew, Ask, durable, IInv, TypeOK

LEMMA EnqueueKnownInv ==
    ASSUME IInv, NEW c \in Clients, NEW cmd \in Commands, EnqueueKnown(c, cmd)
    PROVE  IInv'
<1> DEFINE i == SetMin(SameKey(cmd))
           row == [RowOf(i) EXCEPT !.status = intents'[i].status]
           await == [obj |-> i, row |-> row]
<1>1. intents' \in Seq(Intent) /\ DOMAIN intents' = DOMAIN intents
  BY CancelAllType DEF EnqueueKnown, CancelAll
<1>2. i \in DOMAIN intents
  <2>1. SameKey(cmd) \subseteq DOMAIN intents /\ SameKey(cmd) # {}
    BY DEF SameKey, Live, EnqueueKnown
  <2>2. DOMAIN intents \subseteq Nat
    BY DEF IInv, TypeOK
  <2> QED
    BY <2>1, <2>2, SetMinIn
<1>3. row \in Row
  <2>1. RowOf(i) \in Row
    BY <1>2, RowOfType DEF IInv, TypeOK
  <2>2. intents'[i] \in Intent
    BY <1>1, <1>2
  <2>3. intents'[i].status \in Statuses
    BY <2>2 DEF Intent
  <2> HIDE DEF i
  <2> QED
    BY <2>1, <2>3 DEF Row
<1>4. client' = [client EXCEPT ![c] = await]
  BY DEF EnqueueKnown
<1>5. await \in Awaited(DOMAIN intents')
  BY <1>1, <1>2, <1>3 DEF Awaited
<1> HIDE DEF i, row, await
<1>6. /\ \A k \in Clients : client'[k] \in Awaited(DOMAIN intents') \cup {NoReq}
      /\ client' = [k \in Clients |-> client'[k]]
  BY <1>1, <1>4, <1>5 DEF IInv, TypeOK
<1>7. issued' \in [Commands -> 0..MaxCommands]
  BY AskType DEF EnqueueKnown, Issue, IInv, TypeOK
<1> QED
  BY <1>1, <1>6, <1>7, AskType, StoreStep
     DEF EnqueueKnown, Ask, durable, IInv, TypeOK

LEMMA SupersedeConflictInv ==
    ASSUME IInv, NEW c \in Clients, NEW cmd \in Commands, SupersedeConflict(c, cmd)
    PROVE  IInv'
<1>1. intents' \in Seq(Intent) /\ DOMAIN intents' = DOMAIN intents
  BY CancelAllType DEF SupersedeConflict
<1>2. /\ \A k \in Clients : client'[k] \in Awaited(DOMAIN intents') \cup {NoReq}
      /\ client' = [k \in Clients |-> client'[k]]
  BY <1>1 DEF SupersedeConflict, IInv, TypeOK
<1> QED
  BY <1>1, <1>2, AskType, StoreStep
     DEF SupersedeConflict, Ask, durable, IInv, TypeOK

\* What a client awaits refers to an object there is.
LEMMA ClientRef ==
    ASSUME IInv, NEW c \in Clients, client[c] # NoReq
    PROVE  /\ client[c].obj \in DOMAIN intents /\ client[c].row \in Row
           /\ intents[client[c].obj] \in Intent
           /\ intents[client[c].obj].cmd \in Commands
<1>1. client[c].obj \in DOMAIN intents /\ client[c].row \in Row
  BY DEF IInv, TypeOK, Awaited
<1>2. intents[client[c].obj] \in Intent
  BY <1>1 DEF IInv, TypeOK
<1> QED
  BY <1>1, <1>2 DEF Intent

\* The INSERT keeps the table's type, takes no row away and leaves one under the key.
LEMMA InsertedType ==
    ASSUME IInv, NEW c \in Clients, client[c] # NoReq, Inserted(c)
    PROVE  /\ db' \in [Commands -> Row \cup {NoRow}] /\ nextDbId' \in Nat
           /\ \A cmd \in Commands : db[cmd] # NoRow => db'[cmd] # NoRow
           /\ db'[intents[client[c].obj].cmd] \in Row
<1> DEFINE key == intents[client[c].obj].cmd
           new == [client[c].row EXCEPT !.id = nextDbId]
<1>1. key \in Commands /\ new \in Row
  BY ClientRef, RowExcept DEF IInv, TypeOK
<1>2. CASE db[key] # NoRow
  BY <1>1, <1>2 DEF Inserted, durable, IInv, TypeOK
<1>3. CASE db[key] = NoRow
  <2>1. db' = [db EXCEPT ![key] = new] /\ nextDbId' = nextDbId + 1
    BY <1>3 DEF Inserted
  <2> HIDE DEF key, new
  <2>2. /\ db' \in [Commands -> Row \cup {NoRow}] /\ nextDbId' \in Nat
        /\ \A cmd \in Commands : db[cmd] # NoRow => db'[cmd] # NoRow
        /\ db'[key] \in Row
    BY <1>1, <2>1, NoRowAssumption DEF IInv, TypeOK
  <2> QED
    BY <2>2 DEF key
<1> QED
  BY <1>2, <1>3

LEMMA PersistOkInv == ASSUME IInv, NEW c \in Clients, PersistOk(c) PROVE IInv'
<1> DEFINE i == client[c].obj
           n == db'[intents[i].cmd].id
           o == [intents[i] EXCEPT !.id = n]
<1>1. client[c] # NoReq /\ Inserted(c)
  BY DEF PersistOk
<1>2. i \in DOMAIN intents /\ intents[i] \in Intent /\ intents[i].cmd \in Commands
  BY <1>1, ClientRef
<1>3. db'[intents[i].cmd] \in Row
  BY <1>1, InsertedType
<1>4. n \in Nat
  BY <1>3 DEF Row
<1>5. o \in Intent
  BY <1>2, <1>4, IntentExcept
<1>6. intents' = [intents EXCEPT ![i] = o]
  BY DEF PersistOk
<1>7. acked' \subseteq Commands
  BY <1>2 DEF PersistOk, IInv, TypeOK
<1> HIDE DEF i, n, o
<1>8. intents' \in Seq(Intent) /\ DOMAIN intents' = DOMAIN intents
  BY <1>2, <1>5, <1>6, ObjectExcept DEF IInv, TypeOK
<1>9. /\ \A k \in Clients : client'[k] \in Awaited(DOMAIN intents') \cup {NoReq}
      /\ client' = [k \in Clients |-> client'[k]]
  BY <1>8 DEF PersistOk, IInv, TypeOK
<1> QED
  BY <1>1, <1>7, <1>8, <1>9, InsertedType, StoreStep
     DEF PersistOk, IInv, TypeOK

LEMMA PersistFailsInv == ASSUME IInv, NEW c \in Clients, PersistFails(c) PROVE IInv'
<1> DEFINE i == client[c].obj
           o == [intents[i] EXCEPT !.live = FALSE]
<1>1. i \in DOMAIN intents /\ intents[i] \in Intent
  BY ClientRef DEF PersistFails
<1>2. o \in Intent /\ intents' = [intents EXCEPT ![i] = o]
  BY <1>1, IntentExcept DEF PersistFails
<1> HIDE DEF i, o
<1>3. intents' \in Seq(Intent) /\ DOMAIN intents' = DOMAIN intents
  BY <1>1, <1>2, ObjectExcept DEF IInv, TypeOK
<1>4. /\ \A k \in Clients : client'[k] \in Awaited(DOMAIN intents') \cup {NoReq}
      /\ client' = [k \in Clients |-> client'[k]]
  BY <1>3 DEF PersistFails, IInv, TypeOK
<1>5. db' \in [Commands -> Row \cup {NoRow}] /\ nextDbId' \in Nat
  BY InsertedType DEF PersistFails, durable, IInv, TypeOK
<1>6. faults' \in [FaultKinds -> Nat]
  BY FaultType DEF PersistFails, FaultKinds, IInv
<1> QED
  BY <1>3, <1>4, <1>5, <1>6, StoreStep DEF PersistFails, history, IInv, TypeOK

-----------------------------------------------------------------------------
(* Restart and environment.                                                *)

LEMMA CrashInv == ASSUME IInv, Crash PROVE IInv'
<1>1. db' \in [Commands -> Row \cup {NoRow}] /\ nextDbId' \in Nat
  <2>1. CASE UNCHANGED durable
    BY <2>1 DEF durable, IInv, TypeOK
  <2>2. CASE \E c \in Clients : client[c] # NoReq /\ Inserted(c)
    BY <2>2, InsertedType
  <2>3. CASE \E r \in Runs : /\ run[r].pc = "persistRow" /\ Updated(r)
                             /\ UNCHANGED nextDbId
    BY <2>3, UpdatedType DEF IInv, TypeOK
  <2> QED
    BY <2>1, <2>2, <2>3 DEF Crash
<1>2. remote' \in [Cells -> [val : Values, at : 0..MaxCommands]]
  <2>1. CASE UNCHANGED remote
    BY <2>1 DEF IInv, TypeOK
  <2>2. ASSUME NEW r \in Runs, run[r].pc = "post",
               Write(run[r].cur, CellsOf(intents[run[r].cur].cmd))
        PROVE  remote' \in [Cells -> [val : Values, at : 0..MaxCommands]]
    <3>1. run[r].cur \in DOMAIN intents
      BY <2>2 DEF IInv, RefsOK, Refs
    <3> QED
      BY <2>2, <3>1, WriteType DEF IInv
  <2> QED
    BY <2>1, <2>2 DEF Crash
<1>3. intents' \in Seq(Intent) /\ nextId' \in Nat /\ hydrating' \in BOOLEAN
  BY DEF Crash
<1>4. client' \in [Clients -> Awaited(DOMAIN intents') \cup {NoReq}]
  BY DEF Crash
<1>5. run' \in [Runs -> RunState(DOMAIN intents')] /\ RefsOK'
  BY IdleType DEF Crash, RefsOK
<1>6. version' \in 0..MaxVersion
  BY ConstantsAssumption DEF Crash, IInv, TypeOK
<1>7. faults' \in [FaultKinds -> Nat]
  BY FaultType DEF Crash, FaultKinds, IInv
<1> QED
  BY <1>1, <1>2, <1>3, <1>4, <1>5, <1>6, <1>7 DEF Crash, history, IInv, TypeOK

LEMMA HydrateRowInv == ASSUME IInv, NEW cmd \in Commands, HydrateRow(cmd) PROVE IInv'
<1> DEFINE new == [cmd |-> cmd, id |-> db[cmd].id, status |-> db[cmd].status,
                   backoff |-> db[cmd].backoff, tasked |-> db[cmd].tasked, live |-> TRUE]
<1>1. db[cmd] \in Row
  BY DEF HydrateRow, Missing, IInv, TypeOK
<1>2. new \in Intent
  BY <1>1 DEF Row, Intent
<1>3. intents' = Append(intents, new)
  BY DEF HydrateRow
<1> HIDE DEF new
<1>4. intents' \in Seq(Intent) /\ DOMAIN intents \subseteq DOMAIN intents'
  BY <1>2, <1>3 DEF IInv, TypeOK
<1>5. /\ \A k \in Clients : client'[k] \in Awaited(DOMAIN intents') \cup {NoReq}
      /\ client' = [k \in Clients |-> client'[k]]
  BY <1>4, MoreObjects DEF HydrateRow, IInv, TypeOK
<1> QED
  BY <1>4, <1>5, StoreStep DEF HydrateRow, durable, history, IInv, TypeOK

LEMMA HydrateEndsInv == ASSUME IInv, HydrateDone \/ HydrateFails PROVE IInv'
<1>1. faults' \in [FaultKinds -> Nat]
  BY FaultType DEF HydrateDone, HydrateFails, FaultKinds, IInv, TypeOK
<1>2. /\ \A k \in Clients : client'[k] \in Awaited(DOMAIN intents') \cup {NoReq}
      /\ client' = [k \in Clients |-> client'[k]]
  BY DEF HydrateDone, HydrateFails, IInv, TypeOK
<1> QED
  BY <1>1, <1>2, StoreStep
     DEF HydrateDone, HydrateFails, durable, history, IInv, TypeOK

LEMMA EnvironmentInv == ASSUME IInv, Environment PROVE IInv'
<1>1. ASSUME NEW i \in DOMAIN intents, BackoffExpires(i) PROVE IInv'
  <2> DEFINE o == [intents[i] EXCEPT !.backoff = FALSE]
  <2>1. o \in Intent
    <3>1. intents[i] \in Intent
      BY DEF IInv, TypeOK
    <3> QED
      BY <3>1, IntentExcept
  <2>2. intents' = [intents EXCEPT ![i] = o]
    BY <1>1 DEF BackoffExpires
  <2> HIDE DEF o
  <2>3. intents' \in Seq(Intent) /\ DOMAIN intents' = DOMAIN intents
    BY <2>1, <2>2, ObjectExcept DEF IInv, TypeOK
  <2>4. /\ \A k \in Clients : client'[k] \in Awaited(DOMAIN intents') \cup {NoReq}
        /\ client' = [k \in Clients |-> client'[k]]
    BY <1>1, <2>3 DEF BackoffExpires, IInv, TypeOK
  <2> QED
    BY <1>1, <2>3, <2>4, StoreStep DEF BackoffExpires, durable, history, IInv, TypeOK
<1>2. ASSUME NEW x \in Cells, NEW v \in Values, ExternalEdit(x, v) PROVE IInv'
  <2>1. remote' \in [Cells -> [val : Values, at : 0..MaxCommands]]
    <3> DEFINE new == [val |-> v, at |-> 0]
    <3>1. new \in [val : Values, at : 0..MaxCommands]
      BY ConstantsAssumption
    <3>2. remote' = [remote EXCEPT ![x] = new]
      BY <1>2 DEF ExternalEdit
    <3> HIDE DEF new
    <3> QED
      BY <3>1, <3>2 DEF IInv, TypeOK
  <2>2. faults' \in [FaultKinds -> Nat]
    BY <1>2, FaultType DEF ExternalEdit, FaultKinds, IInv
  <2> QED
    BY <1>2, <2>1, <2>2 DEF ExternalEdit, memory, durable, history, IInv, TypeOK, RefsOK
<1>3. ASSUME PullChanges PROVE IInv'
  <2>1. version' \in 0..MaxVersion
    BY <1>3, ConstantsAssumption DEF PullChanges, IInv, TypeOK
  <2> QED
    BY <1>3, <2>1 DEF PullChanges, durable, history, IInv, TypeOK, RefsOK
<1> QED
  BY <1>1, <1>2, <1>3 DEF Environment

-----------------------------------------------------------------------------
(* The invariant is inductive.                                             *)

LEMMA DrainInv == ASSUME IInv, NEW r \in Runs, Answered(r) PROVE IInv'
BY ResumeNextInv, ResumeDoneInv, ResumeGetInv, PickPropertyInv, SendNextInv,
   SendDoneInv, PostOkInv, PostEndsInv, VerifyInv, DrainDoneInv, BookingsDoneInv,
   PersistNextInv,
   PersistEndsInv, PersistRowOkInv DEF Answered

LEMMA NextIInv == IInv /\ [Next]_vars => IInv'
<1> SUFFICES ASSUME IInv, [Next]_vars PROVE IInv'
  OBVIOUS
<1>1. CASE Command
  BY <1>1, EnqueueNewInv, EnqueueKnownInv, SupersedeConflictInv DEF Command
<1>2. CASE Request
  BY <1>2, PersistOkInv, PersistFailsInv DEF Request
<1>3. CASE Drain
  BY <1>3, StartDrainInv, DrainInv DEF Drain
<1>4. CASE Crash
  BY <1>4, CrashInv
<1>5. CASE Hydrate
  BY <1>5, HydrateRowInv, HydrateEndsInv DEF Hydrate
<1>6. CASE Environment
  BY <1>6, EnvironmentInv
<1>7. CASE UNCHANGED vars
  BY <1>7 DEF vars, memory, durable, history, IInv, TypeOK, RefsOK
<1> QED
  BY <1>1, <1>2, <1>3, <1>4, <1>5, <1>6, <1>7 DEF Next

\* Every variable keeps its type: no step of a request, a drain or a restart writes a
\* status outside the table's enumeration, or refers to an object there is not.
THEOREM TypeCorrect == Spec => []TypeOK
<1>1. Init => IInv
  BY InitIInv
<1>2. IInv /\ [Next]_vars => IInv'
  BY NextIInv
<1>3. IInv => TypeOK
  BY DEF IInv
<1> QED
  BY <1>1, <1>2, <1>3, PTL DEF Spec

-----------------------------------------------------------------------------
(* What is answered with success is durable.                               *)

\* No step takes a row away: the only writer of another row is the UPDATE.
LEMMA RowsStay ==
    ASSUME IInv, [Next]_vars
    PROVE  \A cmd \in Commands : db[cmd] # NoRow => db'[cmd] # NoRow
<1>1. CASE UNCHANGED db
  BY <1>1
<1>2. ASSUME NEW c \in Clients, client[c] # NoReq, Inserted(c)
      PROVE  \A cmd \in Commands : db[cmd] # NoRow => db'[cmd] # NoRow
  BY <1>2, InsertedType
<1>3. ASSUME NEW r \in Runs, run[r].pc = "persistRow", Updated(r)
      PROVE  \A cmd \in Commands : db[cmd] # NoRow => db'[cmd] # NoRow
  BY <1>3, UpdatedType
<1>4. CASE Command
  BY <1>1, <1>4 DEF Command, EnqueueNew, EnqueueKnown, SupersedeConflict, Ask, durable
<1>5. CASE Request
  BY <1>1, <1>2, <1>5 DEF Request, PersistOk, PersistFails, durable
<1>6. CASE Drain
  <2> SUFFICES ASSUME NEW r \in Runs, StartDrain(r) \/ Answered(r), db' # db
               PROVE  PersistRowOk(r)
    BY <1>1, <1>3, <1>6 DEF Drain, PersistRowOk, Reading
  <2> QED
    BY DEF StartDrain, Answered, ResumeNext, ResumeDone, ResumeGetOk, ResumeGetFails,
           PickProperty, SendNext, SendDone, PostOk, PostPartial, PostUnknown,
           PostRefused, PostReturns, VerifyOk, VerifyFails, DrainDone, BookingsDone, PersistNext,
           PersistLoopDone, PersistRowFails, RunOnly, durable
<1>7. CASE Crash
  BY <1>1, <1>2, <1>3, <1>7 DEF Crash, durable
<1>8. CASE Hydrate
  BY <1>1, <1>8 DEF Hydrate, HydrateRow, HydrateDone, HydrateFails, durable
<1>9. CASE Environment
  BY <1>1, <1>9 DEF Environment, BackoffExpires, ExternalEdit, PullChanges, durable
<1>10. CASE UNCHANGED vars
  BY <1>1, <1>10 DEF vars, durable
<1> QED
  BY <1>4, <1>5, <1>6, <1>7, <1>8, <1>9, <1>10 DEF Next

\* Only a request whose insert has been answered is answered itself.
LEMMA AckedByInsert ==
    ASSUME IInv, [Next]_vars
    PROVE  \/ acked' = acked
           \/ \E c \in Clients : PersistOk(c) /\ acked' = acked \cup {intents[client[c].obj].cmd}
<1>1. CASE Command
  BY <1>1 DEF Command, EnqueueNew, EnqueueKnown, SupersedeConflict, Ask
<1>2. CASE Request
  BY <1>2 DEF Request, PersistOk, PersistFails, history
<1>3. CASE Drain
  BY <1>3, ZenonT(40) DEF Drain, StartDrain, Answered, ResumeNext, ResumeDone, ResumeGetOk,
       ResumeGetFails, PickProperty, SendNext, SendDone, PostOk, PostPartial,
       PostUnknown, PostRefused, PostReturns, VerifyOk, VerifyFails, DrainDone, BookingsDone,
       PersistNext, PersistLoopDone, PersistRowOk, PersistRowFails, RunOnly, history
<1>4. CASE Crash
  BY <1>4 DEF Crash, history
<1>5. CASE Hydrate
  BY <1>5 DEF Hydrate, HydrateRow, HydrateDone, HydrateFails, history
<1>6. CASE Environment
  BY <1>6 DEF Environment, BackoffExpires, ExternalEdit, PullChanges, history
<1>7. CASE UNCHANGED vars
  BY <1>7 DEF vars, history
<1> QED
  BY <1>1, <1>2, <1>3, <1>4, <1>5, <1>6, <1>7 DEF Next

\* R15: a command answered with success has its row, in every interleaving of any
\* number of requests and drains, with statements that fail after they committed
\* and restarts at any await.
THEOREM AckedStaysDurable == Spec => []AckedIsDurable
<1>1. Init => IInv /\ AckedIsDurable
  BY InitIInv DEF Init, AckedIsDurable
<1>2. IInv /\ AckedIsDurable /\ [Next]_vars => AckedIsDurable'
  <2> SUFFICES ASSUME IInv, AckedIsDurable, [Next]_vars, NEW cmd \in acked'
               PROVE  db'[cmd] # NoRow
    BY DEF AckedIsDurable
  <2>1. CASE cmd \in acked
    BY <2>1, RowsStay DEF AckedIsDurable, IInv, TypeOK
  <2>2. CASE cmd \notin acked
    <3>1. PICK c \in Clients : PersistOk(c) /\ cmd = intents[client[c].obj].cmd
      BY <2>2, AckedByInsert
    <3>2. db'[cmd] \in Row
      BY <3>1, InsertedType DEF PersistOk
    <3> QED
      BY <3>2, NoRowAssumption
  <2> QED
    BY <2>1, <2>2
<1>3. IInv /\ [Next]_vars => IInv'
  BY NextIInv
<1> QED
  BY <1>1, <1>2, <1>3, PTL DEF Spec

-----------------------------------------------------------------------------
(* One live intent per idempotency key.                                    *)

\* A step that leaves every object its command, and brings none back to life.
InPlace(q) ==
    /\ DOMAIN q = DOMAIN intents
    /\ \A i \in DOMAIN intents : q[i].cmd = intents[i].cmd /\ (q[i].live => intents[i].live)

LEMMA InPlaceUnique ==
    ASSUME LiveKeysUnique, InPlace(intents') PROVE LiveKeysUnique'
BY DEF InPlace, LiveKeysUnique, Live

LEMMA UpdatesInPlace ==
    ASSUME IInv
    PROVE  /\ \A S, s : InPlace(WithStatus(S, s))
           /\ \A i : InPlace(WithRetry(i))
           /\ \A i, s : InPlace(WithTask(i, s))
           /\ \A i, n : InPlace([intents EXCEPT ![i].id = n])
           /\ \A i, b : InPlace([intents EXCEPT ![i].backoff = b])
           /\ \A i : InPlace([intents EXCEPT ![i].live = FALSE])
<1>1. intents \in Seq(Intent) /\ \A i \in DOMAIN intents : intents[i] \in Intent
  BY DEF IInv, TypeOK
<1>2. ASSUME NEW S, NEW s PROVE InPlace(WithStatus(S, s))
  BY <1>1 DEF WithStatus, InPlace, Intent
<1>3. ASSUME NEW i PROVE InPlace(WithRetry(i))
  BY <1>1 DEF WithRetry, InPlace, Intent
<1>4. ASSUME NEW i, NEW s PROVE InPlace(WithTask(i, s))
  BY <1>1 DEF WithTask, InPlace, Intent
<1>5. ASSUME NEW i, NEW n PROVE InPlace([intents EXCEPT ![i].id = n])
  BY <1>1 DEF InPlace, Intent
<1>6. ASSUME NEW i, NEW b PROVE InPlace([intents EXCEPT ![i].backoff = b])
  BY <1>1 DEF InPlace, Intent
<1>7. ASSUME NEW i PROVE InPlace([intents EXCEPT ![i].live = FALSE])
  BY <1>1 DEF InPlace, Intent
<1> QED
  BY <1>2, <1>3, <1>4, <1>5, <1>6, <1>7

\* An object appended under a key that no live object has.
LEMMA AppendUnique ==
    ASSUME IInv, LiveKeysUnique, NEW q, InPlace(q), q \in Seq(Intent),
           NEW o \in Intent, SameKey(o.cmd) = {}, intents' = Append(q, o)
    PROVE  LiveKeysUnique'
<1>1. /\ DOMAIN intents' = DOMAIN intents \cup {Len(q) + 1}
      /\ intents'[Len(q) + 1] = o
      /\ \A i \in DOMAIN intents : intents'[i] = q[i]
      /\ Len(q) + 1 \notin DOMAIN intents
  <2>1. DOMAIN q = 1..Len(q) /\ Len(q) \in Nat /\ DOMAIN q = DOMAIN intents
    BY DEF InPlace
  <2>2. DOMAIN intents' = 1..(Len(q) + 1)
    OBVIOUS
  <2> QED
    BY <2>1, <2>2
<1>2. \A i \in DOMAIN intents : q[i].live => intents[i].live /\ q[i].cmd = intents[i].cmd
  BY DEF InPlace
<1>3. \A i \in DOMAIN intents : q[i].live => q[i].cmd # o.cmd
  BY <1>2 DEF SameKey, Live
<1> QED
  BY <1>1, <1>2, <1>3 DEF LiveKeysUnique, Live

\* The drain never adds an object.
LEMMA DrainInPlace ==
    ASSUME IInv, NEW r \in Runs, StartDrain(r) \/ Answered(r)
    PROVE  InPlace(intents')
<1>1. ASSUME intents' = intents PROVE InPlace(intents')
  BY <1>1 DEF InPlace
<1> QED
  BY <1>1, UpdatesInPlace
     DEF StartDrain, Answered, ResumeNext, ResumeDone, ResumeGetOk, ResumeGetFails,
         Compared, PickProperty, SendNext, SendDone, PostOk, PostPartial, PostUnknown,
         PostRefused, PostReturns, VerifyOk, VerifyFails, DrainDone, BookingsDone, PersistNext,
         PersistLoopDone, PersistRowOk, PersistRowFails, RunOnly

\* At most one live intent has a given idempotency key: the key names one object in
\* memory as it names one row of the table, through replays, splices and restarts.
THEOREM LiveKeysStayUnique == Spec => []LiveKeysUnique
<1>1. Init => LiveKeysUnique
  BY DEF Init, LiveKeysUnique, Live
<1>2. IInv /\ LiveKeysUnique /\ [Next]_vars => LiveKeysUnique'
  <2> SUFFICES ASSUME IInv, LiveKeysUnique, [Next]_vars PROVE LiveKeysUnique'
    OBVIOUS
  <2>1. ASSUME NEW c \in Clients, NEW cmd \in Commands, EnqueueNew(c, cmd)
        PROVE  LiveKeysUnique'
    <3> DEFINE new == [cmd |-> cmd, id |-> nextId, status |-> "queued",
                       backoff |-> FALSE, tasked |-> FALSE, live |-> TRUE]
    <3>1. new \in Intent /\ new.cmd = cmd /\ intents' = Append(CancelAll(cmd), new)
      BY <2>1 DEF Intent, Statuses, EnqueueNew, IInv, TypeOK
    <3> HIDE DEF new
    <3>2. SameKey(new.cmd) = {}
      BY <2>1, <3>1 DEF EnqueueNew
    <3>3. CancelAll(cmd) \in Seq(Intent) /\ InPlace(CancelAll(cmd))
      BY CancelAllType, UpdatesInPlace DEF CancelAll
    <3> QED
      BY <3>1, <3>2, <3>3, AppendUnique
  <2>2. ASSUME NEW c \in Clients, NEW cmd \in Commands,
               EnqueueKnown(c, cmd) \/ SupersedeConflict(c, cmd)
        PROVE  LiveKeysUnique'
    BY <2>2, UpdatesInPlace, InPlaceUnique DEF EnqueueKnown, SupersedeConflict, CancelAll
  <2>3. CASE Request
    BY <2>3, UpdatesInPlace, InPlaceUnique, SMTT(30) DEF Request, PersistOk, PersistFails
  <2>4. CASE Drain
    BY <2>4, DrainInPlace, InPlaceUnique DEF Drain
  <2>5. CASE Crash
    BY <2>5 DEF Crash, LiveKeysUnique, Live
  <2>6. ASSUME NEW cmd \in Commands, HydrateRow(cmd) PROVE LiveKeysUnique'
    <3> DEFINE new == [cmd |-> cmd, id |-> db[cmd].id, status |-> db[cmd].status,
                       backoff |-> db[cmd].backoff, tasked |-> db[cmd].tasked, live |-> TRUE]
    <3>1. db[cmd] \in Row
      BY <2>6 DEF HydrateRow, Missing, IInv, TypeOK
    <3>2. new \in Intent /\ new.cmd = cmd /\ intents' = Append(intents, new)
      BY <2>6, <3>1 DEF Row, Intent, HydrateRow
    <3> HIDE DEF new
    <3>3. SameKey(new.cmd) = {} /\ intents \in Seq(Intent) /\ InPlace(intents)
      BY <2>6, <3>2 DEF HydrateRow, Missing, InPlace, IInv, TypeOK
    <3> QED
      BY <3>2, <3>3, AppendUnique
  <2>7. CASE intents' = intents
    BY <2>7 DEF LiveKeysUnique, Live
  <2>8. CASE Environment
    BY <2>7, <2>8, UpdatesInPlace, InPlaceUnique
       DEF Environment, BackoffExpires, ExternalEdit, PullChanges, memory
  <2> QED
    BY <2>1, <2>2, <2>3, <2>4, <2>5, <2>6, <2>7, <2>8
       DEF Next, Command, Hydrate, HydrateDone, HydrateFails, vars, memory
<1>3. Init => IInv
  BY InitIInv
<1>4. IInv /\ [Next]_vars => IInv'
  BY NextIInv
<1> QED
  BY <1>1, <1>2, <1>3, <1>4, PTL DEF Spec
=============================================================================
