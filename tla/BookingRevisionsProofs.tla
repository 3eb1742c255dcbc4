------------------------ MODULE BookingRevisionsProofs ------------------------
(***************************************************************************)
(* Proofs about BookingRevisions, for every value of its constants: any    *)
(* rooms, stays and histories, any number of pulls, ack runs and faults.   *)
(***************************************************************************)
EXTENDS BookingRevisions, TLAPS, WellFoundedInduction

\* What acks are of has been committed.  AckAfterCommit needs it: a run of the ack
\* outbox tells Channex of what the ack says, not of what was applied.
AcksCommitted == \A k \in DOMAIN acks : acks[k].rev \in Members(applied)
IInv == TypeOK /\ AcksCommitted

-----------------------------------------------------------------------------
(* Lemmas about the operators.                                             *)

\* A non-empty set of naturals has a least element, and SetMin is it.
LEMMA SetMinIn ==
    ASSUME NEW S, S \subseteq Nat, S # {}
    PROVE  SetMin(S) \in S /\ \A y \in S : SetMin(S) <= y
<1> DEFINE R == OpToRel(<, Nat)
<1>1. IsWellFoundedOn(R, Nat)
  BY NatLessThanWellFounded
<1>2. PICK x \in S : \A y \in S : ~(<<y, x>> \in R)
  BY <1>1, WFMin
<1>3. \A y \in S : <<y, x>> \in R <=> y < x
  BY Zenon DEF OpToRel
<1> HIDE DEF R
<1>4. \A y \in S : ~(y < x)
  BY <1>2, <1>3, Zenon
<1>5. \A y \in S : x <= y
  <2>1. \A y \in S : y \in Nat /\ x \in Nat
    OBVIOUS
  <2> QED
    BY <1>4, <2>1
<1> QED
  BY <1>5 DEF SetMin

\* The room assigned is none, or one of the type booked that nobody else has
\* for a night of the stay.
LEMMA AssignedRoomFree ==
    ASSUME NEW i, NEW new
    PROVE  \/ AssignedRoom(i, new) = NoRoom
           \/ /\ AssignedRoom(i, new) \in Rooms \ Taken(i, new.stay)
              /\ TypeOf[AssignedRoom(i, new)] = new.type
<1> DEFINE free == {k \in Rooms : TypeOf[k] = new.type} \ Taken(i, new.stay)
<1>1. AssignedRoom(i, new) = IF ~IsLiveStay(new) \/ free = {} THEN NoRoom
                             ELSE IF new.room \in free THEN new.room ELSE SetMin(free)
  BY DEF AssignedRoom
<1>2. free \subseteq Nat
  BY ConstantsAssumption
<1>3. free # {} => SetMin(free) \in free
  BY <1>2, SetMinIn
<1> HIDE DEF free
<1>4. AssignedRoom(i, new) = NoRoom \/ AssignedRoom(i, new) \in free
  BY <1>1, <1>3
<1> QED
  BY <1>4 DEF free

\* The next ack to send is in the outbox, 0 when there is none.
LEMMA NextUnsentIn ==
    ASSUME NEW T, NEW list \in Seq(T), NEW i
    PROVE  NextUnsent(list, i) \in 0..Len(list)
<1> DEFINE later == {j \in DOMAIN list : j > i /\ list[j].status # "sent"}
<1>1. NextUnsent(list, i) = IF later = {} THEN 0 ELSE SetMin(later)
  BY DEF NextUnsent
<1>2. later \subseteq Nat /\ later \subseteq 1..Len(list) /\ Len(list) \in Nat
  OBVIOUS
<1>3. later # {} => SetMin(later) \in later
  BY <1>2, SetMinIn
<1> HIDE DEF later
<1>4. CASE later = {}
  BY <1>1, <1>2, <1>4
<1>5. CASE later # {}
  <2>1. NextUnsent(list, i) \in later
    BY <1>1, <1>3, <1>5
  <2>2. NextUnsent(list, i) \in 1..Len(list)
    BY <1>2, <2>1
  <2> QED
    BY <1>2, <2>2
<1> QED
  BY <1>4, <1>5

\* A revision belongs to the reservation that has its booking, if one has.
LEMMA MatchedIn ==
    ASSUME TypeOK, NEW rev
    PROVE  IF ByBooking(rev) # {} THEN Matched(rev) \in ByBooking(rev)
           ELSE Matched(rev) \in Nat
<1>1. ByBooking(rev) \subseteq Nat /\ ByCode(rev) \subseteq Nat
  BY ConstantsAssumption DEF ByBooking, ByCode, Held, ResIds
<1>2. nextRes \in Nat
  BY DEF TypeOK
<1> QED
  BY <1>1, <1>2, SetMinIn DEF Matched

\* What a commit makes of a reservation is a reservation.
LEMMA ProjectedType ==
    ASSUME TypeOK, NEW i \in ResIds, NEW r \in DOMAIN revs
    PROVE  Projected(i, r) \in Reservation
<1>1. revs[r] \in Revision /\ r \in 1..MaxRevisions
  BY ConstantsAssumption DEF TypeOK
<1> DEFINE rev == revs[r]
<1> DEFINE old == IF res[i] # NoRes THEN res[i]
               ELSE [booking |-> rev.booking, code |-> rev.code, status |-> "confirmed",
                     type |-> rev.type, stay |-> rev.stay, room |-> NoRoom, src |-> r]
<1>2. old \in Reservation
  BY <1>1 DEF TypeOK, Revision, Reservation, Statuses
<1>3. StatusAfter(old, rev) \in Statuses
  BY <1>2 DEF StatusAfter, Reservation, Statuses
<1>4. /\ rev.booking \in BookingIds /\ rev.code \in Codes
      /\ rev.type \in Types /\ rev.stay \in Stays
  BY <1>1 DEF Revision
<1>5. Projected(i, r) =
         [old EXCEPT !.booking = rev.booking, !.stay = rev.stay, !.type = rev.type,
                    !.code = IF rev.code # NoCode THEN rev.code ELSE @,
                    !.status = StatusAfter(old, rev), !.src = r]
  BY DEF Projected
<1>6. r \in 0..MaxRevisions
  BY <1>1, ConstantsAssumption
<1> HIDE DEF old, rev
<1> DEFINE code == IF rev.code # NoCode THEN rev.code ELSE old.code
<1>7. code \in Codes /\ old.room \in Rooms \cup {NoRoom}
  BY <1>2, <1>4 DEF Reservation
<1>8. Projected(i, r) =
         [booking |-> rev.booking, code |-> code, status |-> StatusAfter(old, rev),
          type |-> rev.type, stay |-> rev.stay, room |-> old.room, src |-> r]
  BY <1>2, <1>5 DEF Reservation
<1> HIDE DEF code
<1> QED
  BY <1>3, <1>4, <1>6, <1>7, <1>8 DEF Reservation

\* ... with any room there is.
LEMMA WithRoomType ==
    ASSUME NEW o \in Reservation, NEW k \in Rooms \cup {NoRoom}
    PROVE  [o EXCEPT !.room = k] \in Reservation
BY DEF Reservation

LEMMA FaultType ==
    ASSUME TypeOK, NEW k \in FaultKinds, CanFault(k), Fault(k)
    PROVE  faults' \in [FaultKinds -> Nat]
BY DEF TypeOK, CanFault, Fault

\* Appending keeps what a sequence has, and adds one.
LEMMA MembersAppend ==
    ASSUME NEW T, NEW s \in Seq(T), NEW e
    PROVE  Members(Append(s, e)) = Members(s) \cup {e}
<1> DEFINE t == Append(s, e)
<1>1. /\ Len(s) \in Nat /\ DOMAIN s = 1..Len(s) /\ DOMAIN t = 1..Len(s) + 1
      /\ \A k \in 1..Len(s) : t[k] = s[k]
      /\ t[Len(s) + 1] = e
  OBVIOUS
<1> HIDE DEF t
<1>2. \A k \in DOMAIN t : t[k] \in Members(s) \cup {e}
  BY <1>1 DEF Members
<1>3. \A k \in DOMAIN s : s[k] \in Members(t)
  <2> TAKE k \in DOMAIN s
  <2>1. k \in DOMAIN t /\ t[k] = s[k]
    BY <1>1
  <2> QED
    BY <2>1 DEF Members
<1>4. e \in Members(t)
  BY <1>1 DEF Members
<1> QED
  BY <1>2, <1>3, <1>4 DEF t, Members

-----------------------------------------------------------------------------
(* Types.                                                                  *)

\* The part of TypeOK that a revision applied can disturb.
LocalOK ==
    /\ res \in [ResIds -> Reservation \cup {NoRes}] /\ nextRes \in Nat
    /\ applied \in Seq(DOMAIN revs) /\ letters \in Seq(DOMAIN revs)
    /\ acks \in Seq([rev : DOMAIN revs, status : AckStatuses])

\* Applying a revision, whoever brought it, keeps the types, and takes no ack away.
LEMMA ApplyType ==
    ASSUME TypeOK, NEW r \in DOMAIN revs, Apply(r), UNCHANGED revs
    PROVE  LocalOK' /\ Len(acks) <= Len(acks')
<1> USE DEF TypeOK
<1>1. CASE DeadLetter(r)
  <2>1. letters' = letters \/ letters' = Append(letters, r)
    BY <1>1 DEF DeadLetter
  <2>3. letters \in Seq(DOMAIN revs)
    OBVIOUS
  <2>4. letters' \in Seq(DOMAIN revs)
    <3> DEFINE D == DOMAIN revs
    <3>1. letters \in Seq(D) /\ r \in D
      BY <2>3
    <3> HIDE DEF D, TypeOK
    <3>2. Append(letters, r) \in Seq(D)
      BY <3>1
    <3>3. letters' \in Seq(D)
      BY <2>1, <3>1, <3>2
    <3> QED
      BY <3>3 DEF D
  <2>2. UNCHANGED <<res, nextRes, applied, acks>>
    BY <1>1 DEF DeadLetter
  <2> QED
    BY <2>2, <2>4 DEF LocalOK
<1>2. CASE Duplicate(r)
  BY <1>2 DEF Duplicate, local, LocalOK
<1>3. CASE Commit(r)
  <2> DEFINE i == Matched(revs[r])
             new == Projected(i, r)
  <2>1. /\ i \in ResIds
        /\ res' = [res EXCEPT ![i] = [new EXCEPT !.room = AssignedRoom(i, new)]]
        /\ nextRes' = IF i = nextRes THEN nextRes + 1 ELSE nextRes
        /\ applied' = Append(applied, r)
        /\ acks' = Append(acks, [rev |-> r, status |-> "pending"])
        /\ UNCHANGED letters
    BY <1>3 DEF Commit
  <2>2. new \in Reservation
    BY <2>1, ProjectedType
  <2>3. AssignedRoom(i, new) \in Rooms \cup {NoRoom}
    BY AssignedRoomFree
  <2>4. [new EXCEPT !.room = AssignedRoom(i, new)] \in Reservation
    BY <2>2, <2>3, WithRoomType
  <2> HIDE DEF i, new
  <2>5. res' \in [ResIds -> Reservation \cup {NoRes}] /\ nextRes' \in Nat
    BY <2>1, <2>4
  <2>6. [rev |-> r, status |-> "pending"] \in [rev : DOMAIN revs, status : AckStatuses]
    BY DEF AckStatuses
  <2>7. /\ applied' \in Seq(DOMAIN revs) /\ letters' \in Seq(DOMAIN revs)
        /\ acks' \in Seq([rev : DOMAIN revs, status : AckStatuses])
        /\ Len(acks') = Len(acks) + 1 /\ Len(acks) \in Nat
    BY <2>1, <2>6
  <2> QED
    BY <2>5, <2>7 DEF LocalOK
<1> QED
  BY <1>1, <1>2, <1>3 DEF Apply

\* The ack runs stay inside an outbox that has not shrunk.
LEMMA AckerGrows ==
    ASSUME TypeOK, Len(acks) <= Len(acks'), acks' \in Seq([rev : DOMAIN revs, status : AckStatuses])
    PROVE  acker \in [Ackers -> 0..Len(acks')]
<1>1. Len(acks) \in Nat /\ Len(acks') \in Nat
  BY DEF TypeOK
<1>2. 0..Len(acks) \subseteq 0..Len(acks')
  BY <1>1
<1> QED
  BY <1>2 DEF TypeOK

\* A sequence over a set is one over a larger set.
LEMMA SeqOfMore ==
    ASSUME NEW A, NEW B, A \subseteq B
    PROVE  Seq(A) \subseteq Seq(B)
OBVIOUS

\* One more revision.
LEMMA RevisionsGrow ==
    ASSUME TypeOK, NEW rev \in Revision, Len(revs) < MaxRevisions, revs' = Append(revs, rev),
           UNCHANGED <<local, mapped, jobs, turn, acked, faults>>
    PROVE  TypeOK'
<1>1. revs \in Seq(Revision) /\ Len(revs) \in Nat /\ MaxRevisions \in Nat
  BY ConstantsAssumption DEF TypeOK
<1>2. /\ revs' \in Seq(Revision) /\ Len(revs') <= MaxRevisions
      /\ DOMAIN revs \subseteq DOMAIN revs'
  BY <1>1
<1> DEFINE D == DOMAIN revs
           E == DOMAIN revs'
<1>3. Seq(D) \subseteq Seq(E)
  BY <1>2, SeqOfMore
<1>4. [rev : D, status : AckStatuses] \subseteq [rev : E, status : AckStatuses]
  BY <1>2
<1>5. acks \in Seq([rev : E, status : AckStatuses])
  <2>1. acks \in Seq([rev : D, status : AckStatuses])
    BY DEF TypeOK
  <2> HIDE DEF D, E
  <2> QED
    BY <1>4, <2>1, SeqOfMore
<1>6. pull \in [Pullers -> [pc : PullPcs, list : SUBSET E]]
  BY <1>2 DEF TypeOK
<1>7. retry \in [on : BOOLEAN, todo : Seq(E)]
  BY <1>3 DEF TypeOK
<1> QED
  BY <1>2, <1>3, <1>5, <1>6, <1>7 DEF TypeOK, local, jobs

\* What Channex says next is one more revision.
LEMMA SaysType ==
    ASSUME TypeOK, NEW rev, Says(rev)
    PROVE  TypeOK'
<1>1. PICK h \in Histories : IsPrefix(Append(revs, rev), h)
  BY DEF Says
<1>2. h \in Seq(Revision)
  BY <1>1, HistoriesAssumption
<1>3. /\ revs \in Seq(Revision) /\ Len(revs) \in Nat /\ Len(revs) < MaxRevisions
      /\ revs' = Append(revs, rev) /\ MaxRevisions \in Nat
  BY ConstantsAssumption DEF TypeOK, Says
<1>4. rev \in Revision
  <2> DEFINE s == Append(revs, rev)
             n == Len(revs) + 1
  <2>1. Len(s) = n /\ s[n] = rev /\ n \in Nat \ {0}
    BY <1>3
  <2>2. Len(s) <= Len(h) /\ s = SubSeq(h, 1, Len(s))
    BY <1>1 DEF IsPrefix
  <2> HIDE DEF s, n
  <2>3. n <= Len(h) /\ s = SubSeq(h, 1, n)
    BY <2>1, <2>2
  <2>4. SubSeq(h, 1, n)[n] = h[n]
    BY <1>2, <2>1, <2>3
  <2>5. rev = h[n]
    BY <2>1, <2>3, <2>4
  <2> QED
    BY <1>2, <2>1, <2>3, <2>5
<1> QED
  BY <1>3, <1>4, RevisionsGrow DEF Says

LEMMA InitType == Init => TypeOK
<1> SUFFICES ASSUME Init PROVE TypeOK
  OBVIOUS
<1> USE ConstantsAssumption DEF Init
<1>1. res \in [ResIds -> Reservation \cup {NoRes}] /\ nextRes \in Nat
  BY DEF NoReservations
<1>2. pull \in [Pullers -> [pc : PullPcs, list : SUBSET DOMAIN revs]]
  BY DEF IdlePulls, IdlePull, PullPcs
<1>3. /\ revs \in Seq(Revision) /\ Len(revs) <= MaxRevisions
      /\ applied \in Seq(DOMAIN revs) /\ letters \in Seq(DOMAIN revs)
      /\ acks \in Seq([rev : DOMAIN revs, status : AckStatuses])
      /\ retry \in [on : BOOLEAN, todo : Seq(DOMAIN revs)]
      /\ acker \in [Ackers -> 0..Len(acks)]
  BY DEF NoRetry, IdleAckers
<1> QED
  BY <1>1, <1>2, <1>3 DEF TypeOK

\* The feed.
LEMMA PullType ==
    ASSUME TypeOK, NEW p \in Pullers, Pull(p)
    PROVE  TypeOK'
<1>1. CASE PullStart(p)
  BY <1>1 DEF PullStart, TypeOK, local, Remote, PullPcs
<1>2. CASE FeedAnswers(p)
  <2>1. Feed \subseteq DOMAIN revs
    BY DEF Feed
  <2> QED
    BY <1>2, <2>1 DEF FeedAnswers, TypeOK, local, Remote, PullPcs
<1>3. CASE PullResumes(p)
  BY <1>3 DEF PullResumes, TypeOK, local, Remote, PullPcs
<1>4. CASE PullApplies(p)
  <2> DEFINE r == SetMin(pull[p].list)
  <2>1. pull[p].list \subseteq DOMAIN revs /\ pull[p].list # {}
    BY <1>4 DEF PullApplies, TypeOK
  <2>2. r \in DOMAIN revs
    <3>1. pull[p].list \subseteq Nat
      BY <2>1 DEF TypeOK
    <3> QED
      BY <2>1, <3>1, SetMinIn
  <2>3. /\ Apply(r)
        /\ pull' = [pull EXCEPT ![p].list = @ \ {r}]
        /\ UNCHANGED <<mapped, claimed, fetching, lease, retry, acker, turn, revs, acked, faults>>
    BY <1>4 DEF PullApplies, Remote
  <2> HIDE DEF r
  <2>4. LocalOK' /\ Len(acks) <= Len(acks')
    BY <2>2, <2>3, ApplyType
  <2>5. acker \in [Ackers -> 0..Len(acks')]
    BY <2>3, <2>4, AckerGrows DEF LocalOK
  <2>6. pull' \in [Pullers -> [pc : PullPcs, list : SUBSET DOMAIN revs]]
    BY <2>3 DEF TypeOK
  <2> QED
    BY <2>3, <2>4, <2>5, <2>6 DEF TypeOK, LocalOK
<1>5. CASE PullDone(p)
  BY <1>5 DEF PullDone, TypeOK, local, Remote, PullPcs, IdlePull, Released
<1>6. CASE PullFails(p)
  <2>1. faults' \in [FaultKinds -> Nat]
    BY <1>6, FaultType DEF PullFails, FaultKinds
  <2> QED
    BY <1>6, <2>1 DEF PullFails, TypeOK, local, Remote, PullPcs, IdlePull, Released
<1> QED
  BY <1>1, <1>2, <1>3, <1>4, <1>5, <1>6 DEF Pull

\* Webhooks.
LEMMA HookType ==
    ASSUME TypeOK, NEW r \in DOMAIN revs, Hook(r)
    PROVE  TypeOK'
<1>1. CASE Webhook(r)
  <2>1. faults' \in [FaultKinds -> Nat]
    BY <1>1, FaultType DEF Webhook, FaultKinds
  <2> QED
    BY <1>1, <2>1 DEF Webhook, TypeOK, local, Remote
<1>2. CASE FetchOk(r)
  <2>1. /\ Apply(r)
        /\ fetching' = fetching \ {r}
        /\ UNCHANGED <<mapped, claimed, pull, lease, retry, acker, turn, revs, acked, faults>>
    BY <1>2 DEF FetchOk, Remote
  <2>2. LocalOK' /\ Len(acks) <= Len(acks')
    BY <2>1, ApplyType
  <2>3. acker \in [Ackers -> 0..Len(acks')]
    BY <2>1, <2>2, AckerGrows DEF LocalOK
  <2> QED
    BY <2>1, <2>2, <2>3 DEF TypeOK, LocalOK
<1>3. CASE FetchFails(r)
  <2>1. faults' \in [FaultKinds -> Nat]
    BY <1>3, FaultType DEF FetchFails, FaultKinds
  <2> QED
    BY <1>3, <2>1 DEF FetchFails, TypeOK, local, Remote
<1> QED
  BY <1>1, <1>2, <1>3 DEF Hook

\* An answer to an ack is written where the run stands, and the run moves on.
LEMMA AckReturnsType ==
    ASSUME TypeOK, NEW a \in Ackers, NEW st \in AckStatuses, AckReturns(a, st)
    PROVE  /\ acks' \in Seq([rev : DOMAIN revs, status : AckStatuses])
           /\ acker' \in [Ackers -> 0..Len(acks')]
           /\ acks[acker[a]].rev \in DOMAIN revs /\ acker[a] \in DOMAIN acks
           /\ DOMAIN acks' = DOMAIN acks
           /\ \A k \in DOMAIN acks : acks'[k].rev = acks[k].rev
<1> DEFINE T == [rev : DOMAIN revs, status : AckStatuses]
           k == acker[a]
<1>1. acks \in Seq(T) /\ acker \in [Ackers -> 0..Len(acks)] /\ Len(acks) \in Nat
  BY DEF TypeOK
<1>2. acks' = [acks EXCEPT ![k].status = st]
      /\ acker' = [acker EXCEPT ![a] = NextUnsent(acks', k)] /\ k # 0
  BY DEF AckReturns
<1>3. k \in 1..Len(acks)
  BY <1>1, <1>2
<1>4. acks[k] \in T
  <2> HIDE DEF T, k
  <2> QED
    BY <1>1, <1>3
<1>5. [acks[k] EXCEPT !.status = st] \in T
  BY <1>4
<1> HIDE DEF k
<1>6. acks' = [acks EXCEPT ![k] = [acks[k] EXCEPT !.status = st]]
  BY <1>2
<1>7. acks' \in Seq(T) /\ Len(acks') = Len(acks)
  <2> HIDE DEF T
  <2> QED
    BY <1>1, <1>3, <1>5, <1>6
<1>8. NextUnsent(acks', k) \in 0..Len(acks')
  BY <1>7, NextUnsentIn
<1>9. acker' \in [Ackers -> 0..Len(acks')]
  BY <1>1, <1>2, <1>7, <1>8
<1>10. \A n \in DOMAIN acks : acks'[n].rev = acks[n].rev
  BY <1>1, <1>4, <1>6
<1> QED
  BY <1>1, <1>3, <1>4, <1>7, <1>9, <1>10 DEF k

\* Acknowledgements.
LEMMA AckType ==
    ASSUME TypeOK, NEW a \in Ackers, AckRun(a)
    PROVE  TypeOK'
<1>1. CASE AckStart(a)
  <2>1. NextUnsent(acks, 0) \in 0..Len(acks)
    BY NextUnsentIn DEF TypeOK
  <2> QED
    BY <1>1, <2>1 DEF AckStart, TypeOK, local, Remote
<1>2. ASSUME NEW st \in AckStatuses, AckReturns(a, st),
             acked' \subseteq acked \cup {acks[acker[a]].rev},
             faults' \in [FaultKinds -> Nat]
      PROVE  TypeOK'
  <2>1. /\ acks' \in Seq([rev : DOMAIN revs, status : AckStatuses])
        /\ acker' \in [Ackers -> 0..Len(acks')]
        /\ acks[acker[a]].rev \in DOMAIN revs
    BY <1>2, AckReturnsType
  <2>2. UNCHANGED <<res, nextRes, applied, letters, mapped, claimed, fetching, pull,
                    lease, retry, turn, revs>>
    BY <1>2 DEF AckReturns
  <2>3. acked' \subseteq DOMAIN revs
    BY <1>2, <2>1 DEF TypeOK
  <2> QED
    BY <1>2, <2>1, <2>2, <2>3 DEF TypeOK
<1>3. CASE AckOk(a)
  BY <1>2, <1>3 DEF AckOk, AckStatuses, TypeOK
<1>4. CASE AckFails(a)
  <2>1. faults' \in [FaultKinds -> Nat]
    BY <1>4, FaultType DEF AckFails, FaultKinds
  <2>2. acked' \subseteq acked \cup {acks[acker[a]].rev} /\ AckReturns(a, "failed")
    BY <1>4 DEF AckFails
  <2> QED
    BY <1>2, <2>1, <2>2 DEF AckStatuses
<1> QED
  BY <1>1, <1>3, <1>4 DEF AckRun

\* The outbox with failed acks pending again.
LEMMA PendingAgain ==
    ASSUME TypeOK, NEW q, q = [k \in DOMAIN acks |->
             IF acks[k].status = "failed" THEN [acks[k] EXCEPT !.status = "pending"] ELSE acks[k]]
    PROVE  /\ q \in Seq([rev : DOMAIN revs, status : AckStatuses])
           /\ DOMAIN q = DOMAIN acks /\ Len(q) = Len(acks)
           /\ \A k \in DOMAIN acks : q[k].rev = acks[k].rev
<1> DEFINE T == [rev : DOMAIN revs, status : AckStatuses]
           f(k) == IF acks[k].status = "failed" THEN [acks[k] EXCEPT !.status = "pending"]
                   ELSE acks[k]
<1>1. acks \in Seq(T)
  BY DEF TypeOK
<1>2. \A k \in DOMAIN acks : acks[k] \in T
  <2> HIDE DEF T
  <2> QED
    BY <1>1
<1>3. \A k \in DOMAIN acks : f(k) \in T /\ f(k).rev = acks[k].rev
  BY <1>2 DEF AckStatuses
<1>4. q = [k \in DOMAIN acks |-> f(k)]
  OBVIOUS
<1> HIDE DEF T, f
<1>5. q \in Seq(T) /\ DOMAIN q = DOMAIN acks /\ Len(q) = Len(acks)
  <2>1. DOMAIN acks = 1..Len(acks) /\ Len(acks) \in Nat
    BY <1>1
  <2>2. q \in [1..Len(acks) -> T]
    BY <1>3, <1>4, <2>1
  <2> QED
    BY <2>1, <2>2
<1> QED
  BY <1>3, <1>4, <1>5 DEF T

\* The retry of dead letters.
LEMMA RetryType ==
    ASSUME TypeOK, Retry
    PROVE  TypeOK'
<1>1. CASE RetryStart
  <2>1. faults' \in [FaultKinds -> Nat]
    BY <1>1, FaultType DEF RetryStart, FaultKinds
  <2> QED
    BY <1>1, <2>1 DEF RetryStart, TypeOK, local, Remote
<1>2. CASE RetryFetchOk
  <2> DEFINE r == Head(retry.todo)
             D == DOMAIN revs
  <2>1. retry.todo \in Seq(D) /\ retry.todo # <<>> /\ retry \in [on : BOOLEAN, todo : Seq(D)]
    BY <1>2 DEF RetryFetchOk, TypeOK
  <2>2. r \in DOMAIN revs /\ Tail(retry.todo) \in Seq(D)
    <3> HIDE DEF D
    <3>1. Head(retry.todo) \in D /\ Tail(retry.todo) \in Seq(D)
      BY <2>1
    <3> QED
      BY <3>1 DEF D
  <2>3. /\ Apply(r)
        /\ retry' = [retry EXCEPT !.todo = Tail(@)]
        /\ UNCHANGED <<mapped, claimed, fetching, pull, lease, acker, turn, revs, acked, faults>>
    BY <1>2 DEF RetryFetchOk, Remote
  <2> HIDE DEF r
  <2>4. LocalOK' /\ Len(acks) <= Len(acks')
    BY <2>2, <2>3, ApplyType
  <2>5. acker \in [Ackers -> 0..Len(acks')]
    BY <2>3, <2>4, AckerGrows DEF LocalOK
  <2>6. retry' \in [on : BOOLEAN, todo : Seq(D)]
    BY <2>1, <2>2, <2>3
  <2> QED
    BY <2>3, <2>4, <2>5, <2>6 DEF TypeOK, LocalOK
<1>3. CASE RetryFetchFails
  <2> DEFINE D == DOMAIN revs
  <2>1. faults' \in [FaultKinds -> Nat]
    BY <1>3, FaultType DEF RetryFetchFails, FaultKinds
  <2>2. retry.todo \in Seq(D) /\ retry.todo # <<>> /\ retry \in [on : BOOLEAN, todo : Seq(D)]
    BY <1>3 DEF RetryFetchFails, TypeOK
  <2>3. Tail(retry.todo) \in Seq(D)
    <3> HIDE DEF D
    <3> QED
      BY <2>2
  <2>4. retry' \in [on : BOOLEAN, todo : Seq(D)]
    BY <1>3, <2>2, <2>3 DEF RetryFetchFails
  <2> QED
    BY <1>3, <2>1, <2>4 DEF RetryFetchFails, TypeOK, local, Remote
<1>4. ASSUME NEW a \in Ackers, RetryAcks(a)
      PROVE  TypeOK'
  <2>1. /\ acks' \in Seq([rev : DOMAIN revs, status : AckStatuses])
        /\ Len(acks') = Len(acks)
    BY <1>4, PendingAgain DEF RetryAcks
  <2>2. NextUnsent(acks', 0) \in 0..Len(acks')
    BY <2>1, NextUnsentIn
  <2>3. acker' \in [Ackers -> 0..Len(acks')]
    BY <1>4, <2>1, <2>2 DEF RetryAcks, TypeOK
  <2>4. retry' \in [on : BOOLEAN, todo : Seq(DOMAIN revs)]
    BY <1>4 DEF RetryAcks, NoRetry
  <2> QED
    BY <1>4, <2>1, <2>3, <2>4 DEF RetryAcks, TypeOK, Remote
<1> QED
  BY <1>1, <1>2, <1>3, <1>4 DEF Retry

\* A restart: everything local is as at the start.
LEMMA CrashType ==
    ASSUME TypeOK, Crash
    PROVE  TypeOK'
<1>1. faults' \in [FaultKinds -> Nat]
  BY FaultType DEF Crash, FaultKinds
<1>2. acked' \subseteq DOMAIN revs
  <2>1. CASE UNCHANGED acked
    BY <2>1 DEF TypeOK
  <2>2. ASSUME NEW a \in Ackers, acker[a] # 0, acked' = acked \cup {acks[acker[a]].rev}
        PROVE  acked' \subseteq DOMAIN revs
    <3> DEFINE T == [rev : DOMAIN revs, status : AckStatuses]
    <3>1. acks \in Seq(T) /\ acker[a] \in 1..Len(acks)
      BY <2>2 DEF TypeOK
    <3>2. acks[acker[a]] \in T
      <4> HIDE DEF T
      <4> QED
        BY <3>1
    <3> QED
      BY <2>2, <3>2 DEF TypeOK
  <2> QED
    BY <2>1, <2>2 DEF Crash
<1>3. res' \in [ResIds -> Reservation \cup {NoRes}] /\ nextRes' \in Nat
  BY DEF Crash, NoReservations
<1>4. pull' \in [Pullers -> [pc : PullPcs, list : SUBSET DOMAIN revs]]
  BY DEF Crash, IdlePulls, IdlePull, PullPcs
<1>5. /\ applied' \in Seq(DOMAIN revs) /\ letters' \in Seq(DOMAIN revs)
      /\ acks' \in Seq([rev : DOMAIN revs, status : AckStatuses])
      /\ retry' \in [on : BOOLEAN, todo : Seq(DOMAIN revs)]
      /\ acker' \in [Ackers -> 0..Len(acks')]
  BY DEF Crash, NoRetry, IdleAckers
<1> QED
  BY <1>1, <1>2, <1>3, <1>4, <1>5 DEF Crash, TypeOK

LEMMA NextType ==
    ASSUME TypeOK, [Next]_vars
    PROVE  TypeOK'
<1>1. CASE \E p \in Pullers : Pull(p)
  BY <1>1, PullType
<1>2. CASE \E r \in DOMAIN revs : Hook(r)
  BY <1>2, HookType
<1>3. CASE \E a \in Ackers : AckRun(a)
  BY <1>3, AckType
<1>4. CASE Retry
  BY <1>4, RetryType
<1>5. CASE LeaseExpires
  <2>1. faults' \in [FaultKinds -> Nat]
    BY <1>5, FaultType DEF LeaseExpires, FaultKinds
  <2> QED
    BY <1>5, <2>1 DEF LeaseExpires, TypeOK, local, Remote
<1>6. CASE Crash
  BY <1>6, CrashType
<1>7. CASE Channex
  BY <1>7, SaysType DEF Channex, NewBooking, Modified, Cancelled
<1>8. CASE \E t \in Types : Import(t)
  BY <1>8 DEF Import, TypeOK, local, jobs, Remote
<1>9. CASE UNCHANGED vars
  BY <1>9 DEF vars, local, jobs, TypeOK
<1> QED
  BY <1>1, <1>2, <1>3, <1>4, <1>5, <1>6, <1>7, <1>8, <1>9 DEF Next, Running

\* Types of all variables: every ack, list and pull refers to a revision there is.
THEOREM TypeCorrect == Spec => []TypeOK
<1>1. TypeOK /\ [Next]_vars => TypeOK'
  BY NextType
<1> QED
  BY InitType, <1>1, PTL DEF Spec

-----------------------------------------------------------------------------
(* Reservations.                                                           *)

\* What a step short of a restart does: a revision is committed, Channex has one
\* more to say, or reservations and revisions stay as they are.
LEMMA RunningSteps ==
    ASSUME TypeOK, Running
    PROVE  /\ \/ \E r \in DOMAIN revs : Commit(r) /\ UNCHANGED revs
              \/ UNCHANGED <<res, nextRes, applied, revs>>
              \/ Channex /\ UNCHANGED <<res, nextRes, applied>>
           /\ faults'["crash"] = faults["crash"]
<1> DEFINE Quiet0 == UNCHANGED <<res, nextRes, applied, revs>>
           SameCrash == faults'["crash"] = faults["crash"]
<1>1. ASSUME NEW r \in DOMAIN revs, Apply(r), UNCHANGED revs
      PROVE  (Commit(r) /\ UNCHANGED revs) \/ Quiet0
  BY <1>1 DEF Apply, DeadLetter, Duplicate, local
<1>2. ASSUME NEW k \in FaultKinds, k # "crash", Fault(k)
      PROVE  SameCrash
  BY <1>2 DEF Fault, FaultKinds, TypeOK
<1>3. ASSUME NEW p \in Pullers, Pull(p)
      PROVE  ((\E r \in DOMAIN revs : Commit(r) /\ UNCHANGED revs) \/ Quiet0) /\ SameCrash
  <2>1. CASE PullApplies(p)
    <3>1. pull[p].list \subseteq DOMAIN revs /\ pull[p].list # {}
      BY <2>1 DEF PullApplies, TypeOK
    <3>2. SetMin(pull[p].list) \in DOMAIN revs
      <4>1. pull[p].list \subseteq Nat
        BY <3>1 DEF TypeOK
      <4> QED
        BY <3>1, <4>1, SetMinIn
    <3> QED
      BY <1>1, <2>1, <3>2 DEF PullApplies, Remote
  <2>2. CASE PullFails(p)
    BY <1>2, <2>2 DEF PullFails, FaultKinds, local, Remote
  <2> QED
    BY <1>3, <2>1, <2>2 DEF Pull, PullStart, FeedAnswers, PullResumes, PullDone, local, Remote
<1>4. ASSUME NEW r \in DOMAIN revs, Hook(r)
      PROVE  ((Commit(r) /\ UNCHANGED revs) \/ Quiet0) /\ SameCrash
  <2>1. CASE Webhook(r)
    BY <1>2, <2>1 DEF Webhook, FaultKinds, local, Remote
  <2>2. CASE FetchOk(r)
    BY <1>1, <2>2 DEF FetchOk, Remote
  <2>3. CASE FetchFails(r)
    BY <1>2, <2>3 DEF FetchFails, FaultKinds, local, Remote
  <2> QED
    BY <1>4, <2>1, <2>2, <2>3 DEF Hook
<1>5. ASSUME NEW a \in Ackers, AckRun(a)
      PROVE  Quiet0 /\ SameCrash
  <2>1. CASE AckFails(a)
    BY <1>2, <2>1 DEF AckFails, AckReturns, FaultKinds
  <2> QED
    BY <1>5, <2>1 DEF AckRun, AckStart, AckOk, AckReturns, local, Remote
<1>6. ASSUME Retry
      PROVE  ((\E r \in DOMAIN revs : Commit(r) /\ UNCHANGED revs) \/ Quiet0) /\ SameCrash
  <2>1. CASE RetryFetchOk
    <3> DEFINE D == DOMAIN revs
    <3>1. retry.todo \in Seq(D) /\ retry.todo # <<>> /\ Apply(Head(retry.todo))
      BY <2>1 DEF RetryFetchOk, TypeOK
    <3>2. Head(retry.todo) \in D
      <4> HIDE DEF D
      <4> QED
        BY <3>1
    <3> QED
      BY <1>1, <2>1, <3>1, <3>2 DEF RetryFetchOk, Remote
  <2>2. CASE RetryStart \/ RetryFetchFails
    BY <1>2, <2>2 DEF RetryStart, RetryFetchFails, FaultKinds, local, Remote
  <2> QED
    BY <1>6, <2>1, <2>2 DEF Retry, RetryAcks, local, Remote
<1>7. ASSUME Channex
      PROVE  Channex /\ UNCHANGED <<res, nextRes, applied>> /\ SameCrash
  BY <1>7 DEF Channex, NewBooking, Modified, Cancelled, Says, local
<1>8. ASSUME LeaseExpires \/ \E t \in Types : Import(t)
      PROVE  Quiet0 /\ SameCrash
  BY <1>2, <1>8 DEF LeaseExpires, Import, FaultKinds, local, Remote
<1> HIDE DEF Quiet0, SameCrash
<1>9. /\ (\E r \in DOMAIN revs : Commit(r) /\ UNCHANGED revs) \/ Quiet0
                  \/ (Channex /\ UNCHANGED <<res, nextRes, applied>>)
      /\ SameCrash
  BY <1>3, <1>4, <1>5, <1>6, <1>7, <1>8 DEF Running
<1> QED
  BY <1>9 DEF Quiet0, SameCrash

\* What a step does to reservations and applied revisions: one revision is
\* committed, or nothing happens, or all is lost.
LEMMA StepsOfRes ==
    ASSUME TypeOK, [Next]_vars
    PROVE  \/ \E r \in DOMAIN revs : Commit(r)
           \/ UNCHANGED <<res, applied>>
           \/ Crash
BY RunningSteps DEF Next, vars, local

\* The record a commit leaves at the reservation it is of.
LEMMA CommitWrites ==
    ASSUME TypeOK, NEW r \in DOMAIN revs, Commit(r)
    PROVE  LET i == Matched(revs[r])
               new == Projected(i, r)
           IN  /\ i \in ResIds
               /\ res'[i] = [new EXCEPT !.room = AssignedRoom(i, new)]
               /\ res'[i].room = AssignedRoom(i, new) /\ res'[i].booking = revs[r].booking
               /\ res'[i].stay = new.stay /\ res'[i].type = new.type
               /\ \A k \in ResIds \ {i} : res'[k] = res[k]
<1> DEFINE i == Matched(revs[r])
           new == Projected(i, r)
<1>1. /\ i \in ResIds
      /\ res' = [res EXCEPT ![i] = [new EXCEPT !.room = AssignedRoom(i, new)]]
  BY DEF Commit
<1>2. new \in Reservation
  BY <1>1, ProjectedType
<1>3. new.booking = revs[r].booking
  <2> DEFINE rev == revs[r]
  <2> DEFINE old == IF res[i] # NoRes THEN res[i]
               ELSE [booking |-> rev.booking, code |-> rev.code, status |-> "confirmed",
                     type |-> rev.type, stay |-> rev.stay, room |-> NoRoom, src |-> r]
  <2>1. old \in Reservation
    <3>1. rev \in Revision /\ r \in 1..MaxRevisions
      BY ConstantsAssumption DEF TypeOK
    <3> QED
      BY <1>1, <3>1 DEF TypeOK, Revision, Reservation, Statuses
  <2>2. new = [old EXCEPT !.booking = rev.booking, !.stay = rev.stay, !.type = rev.type,
                    !.code = IF rev.code # NoCode THEN rev.code ELSE @,
                    !.status = StatusAfter(old, rev), !.src = r]
    BY DEF Projected
  <2> HIDE DEF old, rev, new
  <2>3. new.booking = rev.booking
    BY <2>1, <2>2 DEF Reservation
  <2> QED
    BY <2>3 DEF rev
<1> HIDE DEF i, new
<1>4. res \in [ResIds -> Reservation \cup {NoRes}]
  BY DEF TypeOK
<1>5. res'[i] = [new EXCEPT !.room = AssignedRoom(i, new)]
  BY <1>1, <1>4
<1>6. /\ res'[i].room = AssignedRoom(i, new) /\ res'[i].booking = new.booking
      /\ res'[i].stay = new.stay /\ res'[i].type = new.type
  BY <1>2, <1>5 DEF Reservation
<1>7. \A k \in ResIds \ {i} : res'[k] = res[k]
  BY <1>1, <1>4
<1> QED
  BY <1>1, <1>3, <1>5, <1>6, <1>7 DEF i, new

\* A room that is not taken clashes with no other stay.
LEMMA CommitKeepsRooms ==
    ASSUME TypeOK, NoDoubleBooking, NEW r \in DOMAIN revs, Commit(r)
    PROVE  NoDoubleBooking'
<1> DEFINE c == Matched(revs[r])
           new == Projected(c, r)
<1>1. /\ c \in ResIds
      /\ res'[c].room = AssignedRoom(c, new)
      /\ res'[c].stay = new.stay /\ res'[c].type = new.type
      /\ \A k \in ResIds \ {c} : res'[k] = res[k]
  BY CommitWrites
<1>2. \/ res'[c].room = NoRoom
      \/ /\ res'[c].room \notin Taken(c, res'[c].stay)
         /\ TypeOf[res'[c].room] = res'[c].type
  BY <1>1, AssignedRoomFree
<1> HIDE DEF c, new
<1>3. \A j \in Stayers' \ {c} : j \in Stayers /\ res'[j] = res[j]
  BY <1>1 DEF Stayers, Held
<1>4. \A j \in Stayers' : c \in Stayers' /\ j # c /\ Overlap(res'[c].stay, res'[j].stay) =>
          res'[c].room # res'[j].room
  <2> SUFFICES ASSUME NEW j \in Stayers', c \in Stayers', j # c,
                      Overlap(res'[c].stay, res'[j].stay)
               PROVE  res'[c].room # res'[j].room
    OBVIOUS
  <2>1. j \in Stayers /\ res'[j] = res[j]
    BY <1>3
  <2>2. res[j].room \in Taken(c, res'[c].stay)
    BY <2>1 DEF Taken, Stayers
  <2>3. res'[c].room # NoRoom
    BY DEF Stayers
  <2> QED
    BY <1>2, <2>1, <2>2, <2>3
<1>5. ASSUME NEW i \in Stayers', NEW j \in Stayers', i # j,
             Overlap(res'[i].stay, res'[j].stay)
      PROVE  res'[i].room # res'[j].room
  <2>1. Overlap(res'[j].stay, res'[i].stay)
    BY <1>5 DEF Overlap
  <2>2. CASE i = c
    BY <1>4, <1>5, <2>2
  <2>3. CASE j = c
    BY <1>4, <1>5, <2>1, <2>3
  <2>4. CASE i # c /\ j # c
    BY <1>3, <1>5, <2>4 DEF NoDoubleBooking
  <2> QED
    BY <2>2, <2>3, <2>4
<1>6. ASSUME NEW i \in Stayers'
      PROVE  TypeOf[res'[i].room] = res'[i].type
  BY <1>2, <1>3 DEF NoDoubleBooking, Stayers
<1> QED
  BY <1>5, <1>6 DEF NoDoubleBooking

\* No physical room is ever given to two stays that share a night, in whatever
\* order revisions arrive, are repeated, or move a booking.
THEOREM RoomsNeverDoubleBooked == Spec => []NoDoubleBooking
<1>1. Init => NoDoubleBooking
  BY DEF Init, NoReservations, NoDoubleBooking, Stayers, Held
<1>2. ASSUME TypeOK, NoDoubleBooking, [Next]_vars
      PROVE  NoDoubleBooking'
  <2>1. CASE \E r \in DOMAIN revs : Commit(r)
    BY <1>2, <2>1, CommitKeepsRooms
  <2>2. CASE UNCHANGED <<res, applied>>
    BY <1>2, <2>2 DEF NoDoubleBooking, Stayers, Held
  <2>3. CASE Crash
    BY <2>3 DEF Crash, NoReservations, NoDoubleBooking, Stayers, Held
  <2> QED
    BY <1>2, <2>1, <2>2, <2>3, StepsOfRes
<1> QED
  BY <1>1, <1>2, TypeCorrect, PTL DEF Spec

\* A commit gives a booking to a second reservation only when the first is not there.
LEMMA CommitKeepsOne ==
    ASSUME TypeOK, OneReservationPerBooking, NEW r \in DOMAIN revs, Commit(r)
    PROVE  OneReservationPerBooking'
<1> DEFINE c == Matched(revs[r])
           b == revs[r].booking
<1>1. /\ c \in ResIds /\ res'[c].booking = b
      /\ \A k \in ResIds \ {c} : res'[k] = res[k]
  BY CommitWrites
<1>2. \A k \in Held : res[k].booking = b => ByBooking(revs[r]) # {}
  BY DEF ByBooking
<1>3. ByBooking(revs[r]) # {} => c \in Held /\ res[c].booking = b
  BY MatchedIn DEF ByBooking
<1> HIDE DEF c, b
<1>4. \A k \in Held' \ {c} : k \in Held /\ res'[k] = res[k]
  BY <1>1 DEF Held
<1>5. \A k \in Held' \ {c} : res'[k].booking # b \/ b = 0
  BY <1>2, <1>3, <1>4 DEF OneReservationPerBooking
<1> QED
  BY <1>1, <1>4, <1>5 DEF OneReservationPerBooking

\* All revisions of a booking end at one reservation, whichever comes first.
THEOREM BookingsStayOne == Spec => []OneReservationPerBooking
<1>1. Init => OneReservationPerBooking
  BY DEF Init, NoReservations, OneReservationPerBooking, Held
<1>2. ASSUME TypeOK, OneReservationPerBooking, [Next]_vars
      PROVE  OneReservationPerBooking'
  <2>1. CASE \E r \in DOMAIN revs : Commit(r)
    BY <1>2, <2>1, CommitKeepsOne
  <2>2. CASE UNCHANGED <<res, applied>>
    BY <1>2, <2>2 DEF OneReservationPerBooking, Held
  <2>3. CASE Crash
    BY <2>3 DEF Crash, NoReservations, OneReservationPerBooking, Held
  <2> QED
    BY <1>2, <2>1, <2>2, <2>3, StepsOfRes
<1> QED
  BY <1>1, <1>2, TypeCorrect, PTL DEF Spec

\* Feed, webhook and retry may bring a revision many times: one commit of it stands.
THEOREM RevisionsAppliedOnce == Spec => []AppliedOnce
<1>1. Init => AppliedOnce
  BY DEF Init, AppliedOnce
<1>2. ASSUME TypeOK, AppliedOnce, [Next]_vars
      PROVE  AppliedOnce'
  <2>1. ASSUME NEW r \in DOMAIN revs, Commit(r)
        PROVE  AppliedOnce'
    <3>1. applied' = Append(applied, r) /\ \A k \in DOMAIN applied : applied[k] # r
      BY <2>1 DEF Commit, Known, Members
    <3>2. applied \in Seq(DOMAIN revs)
      BY <1>2 DEF TypeOK
    <3>3. /\ Len(applied) \in Nat /\ DOMAIN applied = 1..Len(applied)
          /\ DOMAIN applied' = 1..Len(applied) + 1
          /\ applied'[Len(applied) + 1] = r
          /\ \A k \in 1..Len(applied) : applied'[k] = applied[k]
      BY <3>1, <3>2
    <3> QED
      BY <1>2, <3>1, <3>3 DEF AppliedOnce
  <2>2. CASE UNCHANGED <<res, applied>>
    BY <1>2, <2>2 DEF AppliedOnce
  <2>3. CASE Crash
    BY <2>3 DEF Crash, AppliedOnce
  <2> QED
    BY <1>2, <2>1, <2>2, <2>3, StepsOfRes
<1> QED
  BY <1>1, <1>2, TypeCorrect, PTL DEF Spec

\* A cancelled reservation is cancelled in what any later revision makes of it.
LEMMA CancelledProjected ==
    ASSUME TypeOK, NEW i \in ResIds, NEW r \in DOMAIN revs,
           res[i] # NoRes, res[i].status = "cancelled", NEW k \in Rooms \cup {NoRoom}
    PROVE  [Projected(i, r) EXCEPT !.room = k].status = "cancelled"
<1> DEFINE rev == revs[r]
           old == res[i]
<1>1. old \in Reservation
  BY DEF TypeOK
<1>2. StatusAfter(old, rev) = "cancelled"
  BY DEF StatusAfter
<1>3. Projected(i, r) =
         [old EXCEPT !.booking = rev.booking, !.stay = rev.stay, !.type = rev.type,
                    !.code = IF rev.code # NoCode THEN rev.code ELSE @,
                    !.status = StatusAfter(old, rev), !.src = r]
  BY DEF Projected
<1> HIDE DEF old, rev
<1>4. Projected(i, r).status = "cancelled" /\ DOMAIN Projected(i, r) = DOMAIN old
  BY <1>1, <1>2, <1>3 DEF Reservation
<1> QED
  BY <1>1, <1>4 DEF Reservation

\* A revision that comes late, or again, never revives a cancelled reservation.
THEOREM CancelledNeverRevived == Spec => CancelledStays
<1>1. ASSUME TypeOK, [Next]_vars, NEW i \in Held, res[i].status = "cancelled", res'[i] # NoRes
      PROVE  res'[i].status = "cancelled"
  <2>1. i \in ResIds /\ res[i] # NoRes
    BY DEF Held
  <2>2. ASSUME NEW r \in DOMAIN revs, Commit(r)
        PROVE  res'[i].status = "cancelled"
    <3> DEFINE c == Matched(revs[r])
    <3>1. /\ c \in ResIds
          /\ res'[c] = [Projected(c, r) EXCEPT !.room = AssignedRoom(c, Projected(c, r))]
          /\ \A k \in ResIds \ {c} : res'[k] = res[k]
      BY <1>1, <2>2, CommitWrites
    <3> HIDE DEF c
    <3>2. AssignedRoom(c, Projected(c, r)) \in Rooms \cup {NoRoom}
      BY AssignedRoomFree
    <3>3. CASE i = c
      BY <1>1, <2>1, <3>1, <3>2, <3>3, CancelledProjected, ZenonT(40)
    <3>4. CASE i # c
      BY <1>1, <2>1, <3>1, <3>4
    <3> QED
      BY <3>3, <3>4
  <2>3. CASE UNCHANGED <<res, applied>>
    BY <1>1, <2>3
  <2>4. CASE Crash
    BY <1>1, <2>1, <2>4 DEF Crash, NoReservations
  <2> QED
    BY <1>1, <2>2, <2>3, <2>4, StepsOfRes
<1>2. TypeOK /\ [Next]_vars =>
        [\A i \in Held : res[i].status = "cancelled" /\ res'[i] # NoRes =>
            res'[i].status = "cancelled"]_vars
  BY <1>1
<1> QED
  BY <1>2, TypeCorrect, PTL DEF Spec, CancelledStays

-----------------------------------------------------------------------------
(* Acknowledgements.                                                       *)

\* A revision applied adds at most an ack of itself, and then it is committed.
LEMMA ApplyKeepsAcks ==
    ASSUME TypeOK, AcksCommitted, NEW r, Apply(r)
    PROVE  AcksCommitted'
<1>1. CASE DeadLetter(r) \/ Duplicate(r)
  BY <1>1 DEF DeadLetter, Duplicate, local, AcksCommitted
<1>2. CASE Commit(r)
  <2> DEFINE T == [rev : DOMAIN revs, status : AckStatuses]
             e == [rev |-> r, status |-> "pending"]
  <2>1. acks' = Append(acks, e) /\ Members(applied') = Members(applied) \cup {r}
    BY <1>2, MembersAppend DEF Commit, TypeOK
  <2>2. acks \in Seq(T)
    BY DEF TypeOK
  <2> HIDE DEF T, e
  <2>3. \A k \in DOMAIN acks' : acks'[k] = e \/ (k \in DOMAIN acks /\ acks'[k] = acks[k])
    BY <2>1, <2>2
  <2>4. e.rev = r
    BY DEF e
  <2> QED
    BY <2>1, <2>3, <2>4 DEF AcksCommitted
<1> QED
  BY <1>1, <1>2 DEF Apply

\* Every step keeps acks to what has been committed.
LEMMA NextKeepsAcks ==
    ASSUME IInv, [Next]_vars
    PROVE  AcksCommitted'
<1> USE DEF IInv
<1>1. ASSUME NEW p \in Pullers, Pull(p)
      PROVE  AcksCommitted'
  <2>1. CASE PullApplies(p)
    BY <2>1, ApplyKeepsAcks DEF PullApplies
  <2> QED
    BY <1>1, <2>1 DEF Pull, PullStart, FeedAnswers, PullResumes, PullDone, PullFails, local,
         AcksCommitted
<1>2. ASSUME NEW r \in DOMAIN revs, Hook(r)
      PROVE  AcksCommitted'
  BY <1>2, ApplyKeepsAcks DEF Hook, Webhook, FetchOk, FetchFails, local, AcksCommitted
<1>3. ASSUME NEW a \in Ackers, AckRun(a)
      PROVE  AcksCommitted'
  <2>1. ASSUME NEW st \in AckStatuses, AckReturns(a, st)
        PROVE  AcksCommitted'
    <3>1. DOMAIN acks' = DOMAIN acks /\ \A k \in DOMAIN acks : acks'[k].rev = acks[k].rev
      BY <2>1, AckReturnsType
    <3> QED
      BY <2>1, <3>1 DEF AckReturns, AcksCommitted
  <2> QED
    BY <1>3, <2>1 DEF AckRun, AckStart, AckOk, AckFails, AckStatuses, local, AcksCommitted
<1>4. CASE Retry
  <2>1. CASE RetryFetchOk
    BY <2>1, ApplyKeepsAcks DEF RetryFetchOk
  <2>2. ASSUME NEW a \in Ackers, RetryAcks(a)
        PROVE  AcksCommitted'
    <3>1. DOMAIN acks' = DOMAIN acks /\ \A k \in DOMAIN acks : acks'[k].rev = acks[k].rev
      BY <2>2, PendingAgain DEF RetryAcks
    <3> QED
      BY <2>2, <3>1 DEF RetryAcks, AcksCommitted
  <2> QED
    BY <1>4, <2>1, <2>2 DEF Retry, RetryStart, RetryFetchFails, local, AcksCommitted
<1>5. CASE Crash
  BY <1>5 DEF Crash, AcksCommitted
<1>6. CASE LeaseExpires \/ Channex \/ (\E t \in Types : Import(t)) \/ UNCHANGED vars
  BY <1>6 DEF LeaseExpires, Channex, NewBooking, Modified, Cancelled, Says, Import, vars, local,
       AcksCommitted
<1> QED
  BY <1>1, <1>2, <1>3, <1>4, <1>5, <1>6 DEF Next, Running

\* The acks a run awaits are of revisions that have been committed.
LEMMA OnlyAcksOfCommitted ==
    ASSUME IInv, [Next]_vars
    PROVE  acked' \ acked \subseteq Members(applied)
<1>1. ASSUME NEW a \in Ackers, acker[a] # 0
      PROVE  acks[acker[a]].rev \in Members(applied)
  <2>1. acker[a] \in DOMAIN acks
    BY <1>1 DEF IInv, TypeOK
  <2> QED
    BY <2>1 DEF IInv, AcksCommitted
<1>2. CASE \E a \in Ackers : AckRun(a)
  BY <1>1, <1>2 DEF AckRun, AckStart, AckOk, AckFails, AckReturns, Remote
<1>3. CASE Crash
  BY <1>1, <1>3 DEF Crash
<1>4. CASE \/ \E p \in Pullers : Pull(p)
           \/ \E r \in DOMAIN revs : Hook(r)
           \/ Retry \/ LeaseExpires \/ Channex
           \/ \E t \in Types : Import(t)
           \/ UNCHANGED vars
  <2>1. UNCHANGED acked
    BY <1>4 DEF Pull, PullStart, FeedAnswers, PullResumes, PullApplies, PullDone, PullFails,
         Hook, Webhook, FetchOk, FetchFails, Retry, RetryStart, RetryFetchOk, RetryFetchFails,
         RetryAcks, LeaseExpires, Channex, NewBooking, Modified, Cancelled, Says, Import, vars,
         Remote
  <2> QED
    BY <2>1
<1> QED
  BY <1>2, <1>3, <1>4 DEF Next, Running

\* KTD7: Channex is never told of a revision that has not been committed, so one
\* that was only fetched, or became a dead letter, stays in the feed.
THEOREM AcksFollowCommits == Spec => AckAfterCommit
<1>1. Init => AcksCommitted
  BY DEF Init, AcksCommitted
<1>2. IInv /\ [Next]_vars => AcksCommitted'
  BY NextKeepsAcks
<1>3. Spec => []IInv
  BY <1>1, <1>2, TypeCorrect, PTL DEF Spec, IInv
<1>4. IInv /\ [Next]_vars => [acked' \ acked \subseteq Members(applied)]_vars
  BY OnlyAcksOfCommitted
<1> QED
  BY <1>3, <1>4, PTL DEF Spec, AckAfterCommit
=============================================================================
