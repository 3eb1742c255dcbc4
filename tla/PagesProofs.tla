---------------------------- MODULE PagesProofs ----------------------------
(***************************************************************************)
(* The pages agree: for any network of homes, room types, people and       *)
(* nights, and after any bookings, check-ins, payments, imports and edits, *)
(* the read models, the guards and the offers that are written apart never *)
(* contradict each other.                                                  *)
(*                                                                         *)
(* What the bookings keep is small: a room is of the home of its stay, and *)
(* live stays that share a night have different rooms.  Night totals agree *)
(* by counting the same pairs twice; the rest is by cases over roles.      *)
(***************************************************************************)
EXTENDS MCFrontDesk, FiniteSetTheorems, WellFoundedInduction, TLAPS

-----------------------------------------------------------------------------
(* Sums that count.                                                        *)

\* The fold under Total, with the values of v.
Folds(it, S, v) ==
    it = [s \in SUBSET S |->
            IF s = {} THEN 0 ELSE v[CHOOSE x \in s : TRUE] + it[s \ {CHOOSE x \in s : TRUE}]]

\* When v[x] is how many of P are at x, the total of v counts P: one at a time, in any order.
LEMMA TakesOne ==
    ASSUME NEW S, IsFiniteSet(S), NEW P, IsFiniteSet(P), NEW g \in [P -> S],
           NEW s \in SUBSET S, NEW x \in s
    PROVE  Cardinality({p \in P : g[p] \in s})
             = Cardinality({p \in P : g[p] = x}) + Cardinality({p \in P : g[p] \in s \ {x}})
<1> DEFINE A == {p \in P : g[p] = x}
           B == {p \in P : g[p] \in s \ {x}}
<1>1. A \in SUBSET P /\ B \in SUBSET P
  OBVIOUS
<1>2. {p \in P : g[p] \in s} = A \cup B /\ A \cap B = {}
  OBVIOUS
<1> HIDE DEF A, B
<1>3. IsFiniteSet(A) /\ IsFiniteSet(B)
  BY <1>1, FS_Subset
<1>4. Cardinality(A \cup B) = Cardinality(A) + Cardinality(B) - Cardinality(A \cap B)
  BY <1>3, FS_Union
<1>5. Cardinality(A) \in Nat /\ Cardinality(B) \in Nat /\ Cardinality({}) = 0
  <2>1. Cardinality({}) = 0
    BY FS_EmptySet
  <2>2. Cardinality(A) \in Nat
    BY <1>3, FS_CardinalityType
  <2>3. Cardinality(B) \in Nat
    BY <1>3, FS_CardinalityType
  <2> QED
    BY <2>1, <2>2, <2>3
<1>6. Cardinality(A \cup B) = Cardinality(A) + Cardinality(B)
  <2>1. Cardinality(A \cap B) = 0
    BY <1>2, <1>5, Zenon
  <2> QED
    BY <1>4, <1>5, <2>1
<1> QED
  BY <1>2, <1>6 DEF A, B

\* v[x] is how many of P are at x.
Tallies(S, P, g, v) == g \in [P -> S] /\ \A x \in S : v[x] = Cardinality({p \in P : g[p] = x})

\* By the least set of the fold that would not count: taking an element from it goes on counting.
LEMMA FoldCounts ==
    ASSUME NEW S, IsFiniteSet(S), NEW P, IsFiniteSet(P), NEW g, NEW v, Tallies(S, P, g, v),
           NEW it, Folds(it, S, v)
    PROVE  it[S] = Cardinality(P)
<1> USE DEF Tallies
<1> DEFINE Over(s) == Cardinality({p \in P : g[p] \in s})
           Wrong == {s \in SUBSET S : it[s] # Over(s)}
<1>1. \A s \in SUBSET S :
        it[s] = IF s = {} THEN 0 ELSE v[CHOOSE x \in s : TRUE] + it[s \ {CHOOSE x \in s : TRUE}]
  BY Zenon DEF Folds
<1>2. Wrong = {}
  <2> SUFFICES ASSUME Wrong # {} PROVE FALSE
    OBVIOUS
  <2>1. Wrong \subseteq FiniteSubsetsOf(S)
    BY FS_Subset DEF FiniteSubsetsOf
  <2>2. PICK s \in Wrong : \A t \in Wrong : ~(<<t, s>> \in StrictSubsetOrdering(S))
    <3>1. IsWellFoundedOn(StrictSubsetOrdering(S), FiniteSubsetsOf(S))
      BY FS_StrictSubsetOrderingWellFounded
    <3> HIDE DEF Wrong
    <3> QED
      BY <2>1, <3>1, WFMin
  <2>3. CASE s = {}
    <3>1. {p \in P : g[p] \in {}} = {}
      OBVIOUS
    <3> QED
      BY <1>1, <2>2, <2>3, <3>1, FS_EmptySet
  <2>4. CASE s # {}
    <3>1. PICK x : x = (CHOOSE y \in s : TRUE)
      OBVIOUS
    <3>2. x \in s /\ s \in SUBSET S /\ x \in S
      BY <2>2, <2>4, <3>1
    <3>3. s \ {x} \in SUBSET S /\ s \ {x} # s
      BY <3>2
    <3>4. <<s \ {x}, s>> \in StrictSubsetOrdering(S)
      BY <3>2, <3>3 DEF StrictSubsetOrdering
    <3>5. it[s \ {x}] = Over(s \ {x})
      BY <2>2, <3>3, <3>4
    <3>6. it[s] = v[x] + it[s \ {x}]
      BY <1>1, <2>4, <3>1, <3>2
    <3>7. Over(s) = v[x] + Over(s \ {x})
      <4>1. Cardinality({p \in P : g[p] \in s})
              = Cardinality({p \in P : g[p] = x}) + Cardinality({p \in P : g[p] \in s \ {x}})
        BY ONLY <3>2, TakesOne, IsFiniteSet(S), IsFiniteSet(P), Tallies(S, P, g, v) DEF Tallies
      <4>2. v[x] = Cardinality({p \in P : g[p] = x})
        BY <3>2
      <4> QED
        BY <4>1, <4>2
    <3> QED
      BY <2>2, <3>5, <3>6, <3>7
  <2> QED
    BY <2>3, <2>4
<1>3. it[S] = Over(S)
  BY <1>2
<1>4. {p \in P : g[p] \in S} = P
  OBVIOUS
<1> QED
  BY <1>3, <1>4

\* The count itself is such a fold, so the one that is chosen is one.
LEMMA FoldExists ==
    ASSUME NEW S, IsFiniteSet(S), NEW P, IsFiniteSet(P), NEW g, NEW v, Tallies(S, P, g, v)
    PROVE  \E it : Folds(it, S, v)
<1> USE DEF Tallies
<1> DEFINE it == [s \in SUBSET S |-> Cardinality({p \in P : g[p] \in s})]
<1>1. ASSUME NEW s \in SUBSET S
      PROVE  it[s] = IF s = {} THEN 0 ELSE v[CHOOSE x \in s : TRUE] + it[s \ {CHOOSE x \in s : TRUE}]
  <2>1. CASE s = {}
    <3>1. {p \in P : g[p] \in {}} = {}
      OBVIOUS
    <3> QED
      BY <2>1, <3>1, FS_EmptySet
  <2>2. CASE s # {}
    <3>1. PICK x : x = (CHOOSE y \in s : TRUE)
      OBVIOUS
    <3>2. x \in s /\ x \in S /\ s \ {x} \in SUBSET S
      BY <2>2, <3>1
    <3>3. Cardinality({p \in P : g[p] \in s})
             = Cardinality({p \in P : g[p] = x}) + Cardinality({p \in P : g[p] \in s \ {x}})
      BY <3>2, TakesOne
    <3>4. it[s] = v[x] + it[s \ {x}]
      BY <3>2, <3>3
    <3> QED
      BY <2>2, <3>1, <3>4
  <2> QED
    BY <2>1, <2>2
<1>2. it = [s \in SUBSET S |-> it[s]]
  OBVIOUS
<1>3. Folds(it, S, v)
  <2> HIDE DEF it
  <2> QED
    BY <1>1, <1>2 DEF Folds
<1> QED
  BY <1>3


\* The library chooses a greatest and a least element.
LEMMA MaxOfTwo ==
    ASSUME NEW a \in Int, NEW b \in Int
    PROVE  Max({a, b}) = IF a >= b THEN a ELSE b
<1> DEFINE m == IF a >= b THEN a ELSE b
<1>1. m \in {a, b} /\ \A y \in {a, b} : m >= y
  OBVIOUS
<1>2. \A z \in {a, b} : (\A y \in {a, b} : z >= y) => z = m
  OBVIOUS
<1> QED
  BY <1>1, <1>2 DEF Max

LEMMA MinOfTwo ==
    ASSUME NEW a \in Int, NEW b \in Int
    PROVE  Min({a, b}) = IF a <= b THEN a ELSE b
<1> DEFINE m == IF a <= b THEN a ELSE b
<1>1. m \in {a, b} /\ \A y \in {a, b} : m <= y
  OBVIOUS
<1>2. \A z \in {a, b} : (\A y \in {a, b} : z <= y) => z = m
  OBVIOUS
<1> QED
  BY <1>1, <1>2 DEF Min

\* As many pairs with one side fixed as there are other sides.
LEMMA PairsWithDay ==
    ASSUME NEW T, IsFiniteSet(T), NEW d
    PROVE  Cardinality({<<x, d>> : x \in T}) = Cardinality(T)
<1> DEFINE U == {<<x, d>> : x \in T}
           f == [x \in T |-> <<x, d>>]
<1>1. f \in Bijection(T, U)
  BY DEF Bijection, Injection, Surjection, IsInjective
<1>2. ExistsBijection(T, U)
  BY <1>1 DEF ExistsBijection
<1>3. Cardinality(U) = Cardinality(T)
  <2> HIDE DEF U
  <2> QED
    BY <1>2, FS_Bijection
<1> QED
  BY <1>3

\* A stay has as many pairs as it has nights.
LEMMA PairsOfStay ==
    ASSUME NEW T, IsFiniteSet(T), NEW i
    PROVE  Cardinality({<<i, x>> : x \in T}) = Cardinality(T)
<1> DEFINE U == {<<i, x>> : x \in T}
           f == [x \in T |-> <<i, x>>]
<1>1. f \in Bijection(T, U)
  BY DEF Bijection, Injection, Surjection, IsInjective
<1>2. ExistsBijection(T, U)
  BY <1>1 DEF ExistsBijection
<1>3. Cardinality(U) = Cardinality(T)
  <2> HIDE DEF U
  <2> QED
    BY <1>2, FS_Bijection
<1> QED
  BY <1>3

-----------------------------------------------------------------------------
(* Pages.                                                                  *)

StayRecord ==
    [home : Homes, guest : GuestKeys \cup {NoGuest}, from : Int, to : Int,
     status : {"confirmed", "cancelled", "pending_sync"}, room : {NoRoom} \cup DOMAIN Rooms,
     op : {"none", "checked_in", "checked_out"}]
\* A room is one of the stay's home, and no two live stays that share a night have the same.
RoomsFit ==
    /\ \A id \in DOMAIN stays :
        /\ stays[id].from <= stays[id].to
        /\ stays[id].room # NoRoom => Rooms[stays[id].room] = stays[id].home
    /\ \A id, other \in DOMAIN stays :
        id # other /\ Live(stays[id]) /\ Live(stays[other]) /\ stays[id].room # NoRoom
            /\ stays[id].room = stays[other].room
        => ~Overlap(stays[id], stays[other])
StaysInv == stays \in Seq(StayRecord) /\ RoomsFit

\* The nights that a report counts for a stay are the days of the calendar in its range.
LEMMA NightsAreDays ==
    ASSUME NEW s \in StayRecord, NEW w \in Int \X Int
    PROVE  /\ OverlappingNights(s, w[1], w[2] - 1)
                = Cardinality({d \in Days(w) : s.from <= d /\ d < s.to})
           /\ IsFiniteSet({d \in Days(w) : s.from <= d /\ d < s.to})
<1> DEFINE start == IF s.from >= w[1] THEN s.from ELSE w[1]
           end == IF s.to <= w[2] THEN s.to ELSE w[2]
           D == {d \in Days(w) : s.from <= d /\ d < s.to}
<1>1. s.from \in Int /\ s.to \in Int /\ w[1] \in Int /\ w[2] \in Int
  BY DEF StayRecord
<1>2. start \in Int /\ end \in Int /\ w[2] - 1 + 1 = w[2]
  BY <1>1
<1>3. Max({s.from, w[1]}) = start /\ Min({s.to, w[2] - 1 + 1}) = end
  BY <1>1, <1>2, MaxOfTwo, MinOfTwo
<1>4. OverlappingNights(s, w[1], w[2] - 1) = IF end <= start THEN 0 ELSE end - start
  <2> HIDE DEF start, end
  <2> QED
    BY <1>3 DEF OverlappingNights
<1>5. D = start..(end - 1)
  BY <1>1 DEF Days
<1> HIDE DEF start, end
<1>6. IsFiniteSet(start..(end - 1))
      /\ Cardinality(start..(end - 1)) = IF start > end - 1 THEN 0 ELSE end - 1 - start + 1
  BY <1>2, FS_Interval
<1>7. OverlappingNights(s, w[1], w[2] - 1) = Cardinality(start..(end - 1))
  BY <1>2, <1>4, <1>6
<1> HIDE DEF D
<1>8. OverlappingNights(s, w[1], w[2] - 1) = Cardinality(D) /\ IsFiniteSet(D)
  BY <1>5, <1>6, <1>7, Zenon
<1> QED
  BY <1>8 DEF D

\* The stays that a report is of, and the days of each in the range.
Reported(p, f) == {id \in DOMAIN stays : Reportable(stays[id]) /\ stays[id].home \in ReportHomes(p, f)}
StayDays(p, f, w) ==
    {q \in Reported(p, f) \X Days(w) : stays[q[1]].from <= q[2] /\ q[2] < stays[q[1]].to}

\* What is counted is finite.
LEMMA StayDaysFinite ==
    ASSUME StaysInv, NEW p, NEW f, NEW w \in Int \X Int
    PROVE  /\ IsFiniteSet(DOMAIN stays) /\ IsFiniteSet(Reported(p, f)) /\ IsFiniteSet(Days(w))
           /\ IsFiniteSet(StayDays(p, f, w))
<1>1. IsFiniteSet(DOMAIN stays)
  <2>1. DOMAIN stays = 1..Len(stays) /\ Len(stays) \in Nat
    BY DEF StaysInv
  <2> QED
    BY <2>1, FS_Interval
<1>2. IsFiniteSet(Reported(p, f))
  <2>1. Reported(p, f) \in SUBSET DOMAIN stays
    BY DEF Reported
  <2> QED
    BY <1>1, <2>1, FS_Subset
<1>3. IsFiniteSet(Days(w))
  <2>1. w[1] \in Int /\ w[2] - 1 \in Int
    OBVIOUS
  <2> QED
    BY <2>1, FS_Interval DEF Days
<1>4. IsFiniteSet(StayDays(p, f, w))
  <2>1. IsFiniteSet(Reported(p, f) \X Days(w))
    BY <1>2, <1>3, FS_Product
  <2>2. StayDays(p, f, w) \in SUBSET (Reported(p, f) \X Days(w))
    BY DEF StayDays
  <2> QED
    BY <2>1, <2>2, FS_Subset
<1> QED
  BY <1>1, <1>2, <1>3, <1>4

\* The report adds them up stay by stay.
LEMMA ReportCountsDays ==
    ASSUME StaysInv, NEW p, NEW f, NEW w \in Int \X Int
    PROVE  OccupiedNights(p, f, w[1], w[2] - 1) = Cardinality(StayDays(p, f, w))
<1> DEFINE R == Reported(p, f)
           P == StayDays(p, f, w)
           g == [q \in P |-> q[1]]
           v == [id \in R |-> OverlappingNights(stays[id], w[1], w[2] - 1)]
           Iter(it) ==
             it = [s \in SUBSET R |->
                     IF s = {} THEN 0
                     ELSE OverlappingNights(stays[CHOOSE x \in s : TRUE], w[1], w[2] - 1)
                            + it[s \ {CHOOSE x \in s : TRUE}]]
<1>1. IsFiniteSet(R) /\ IsFiniteSet(P) /\ g \in [P -> R]
  BY StayDaysFinite DEF StayDays
<1>2. ASSUME NEW id \in R PROVE v[id] = Cardinality({q \in P : g[q] = id})
  <2> DEFINE D == {d \in Days(w) : stays[id].from <= d /\ d < stays[id].to}
  <2>1. stays[id] \in StayRecord
    BY DEF StaysInv, Reported
  <2>2. OverlappingNights(stays[id], w[1], w[2] - 1) = Cardinality(D) /\ IsFiniteSet(D)
    BY <2>1, NightsAreDays
  <2>3. {q \in P : g[q] = id} = {<<id, d>> : d \in D}
    BY DEF StayDays
  <2>4. Cardinality({<<id, d>> : d \in D}) = Cardinality(D)
    <3> HIDE DEF D
    <3> QED
      BY <2>2, PairsOfStay
  <2> HIDE DEF P, g, D
  <2> QED
    BY <2>2, <2>3, <2>4
<1>3. ASSUME NEW it PROVE Folds(it, R, v) <=> Iter(it)
  <2>1. ASSUME NEW s \in SUBSET R
        PROVE  (IF s = {} THEN 0 ELSE v[CHOOSE x \in s : TRUE] + it[s \ {CHOOSE x \in s : TRUE}])
             = (IF s = {} THEN 0
                ELSE OverlappingNights(stays[CHOOSE x \in s : TRUE], w[1], w[2] - 1)
                       + it[s \ {CHOOSE x \in s : TRUE}])
    <3>1. s # {} => (CHOOSE x \in s : TRUE) \in R
      OBVIOUS
    <3> QED
      BY <3>1
  <2>2. [s \in SUBSET R |->
            IF s = {} THEN 0 ELSE v[CHOOSE x \in s : TRUE] + it[s \ {CHOOSE x \in s : TRUE}]]
      = [s \in SUBSET R |->
            IF s = {} THEN 0
            ELSE OverlappingNights(stays[CHOOSE x \in s : TRUE], w[1], w[2] - 1)
                   + it[s \ {CHOOSE x \in s : TRUE}]]
    <3> HIDE DEF v, R
    <3> QED
      BY <2>1
  <2> QED
    BY <2>2 DEF Folds
<1>4. OccupiedNights(p, f, w[1], w[2] - 1) = (CHOOSE it : Iter(it))[R]
  BY DEF OccupiedNights, Total, MapThenSumSet, MapThenFoldSet, Reported
<1> HIDE DEF R, P, g, v, Iter
<1>5. Tallies(R, P, g, v)
  BY <1>1, <1>2 DEF Tallies
<1>6. \E it : Folds(it, R, v)
  BY <1>1, <1>5, FoldExists
<1>7. Iter(CHOOSE it : Iter(it))
  BY <1>3, <1>6
<1>8. Folds(CHOOSE it : Iter(it), R, v)
  BY <1>3, <1>7
<1>9. ASSUME NEW it, Folds(it, R, v) PROVE it[R] = Cardinality(P)
  BY <1>1, <1>5, <1>9, FoldCounts
<1> QED
  BY <1>4, <1>8, <1>9 DEF P

\* The calendar adds them up home by home and day by day.
LEMMA CalendarCountsDays ==
    ASSUME StaysInv, IsFiniteSet(Homes), NEW p, NEW f, NEW w \in Int \X Int
    PROVE  Total(CalendarHomes(p, f) \X Days(w), LAMBDA c : Booked(c[1], Reservations(p, f, w), c[2]))
             = Cardinality(StayDays(p, f, w))
<1> DEFINE C == CalendarHomes(p, f) \X Days(w)
           ids == Reservations(p, f, w)
           P == StayDays(p, f, w)
           g == [q \in P |-> <<stays[q[1]].home, q[2]>>]
           v == [c \in C |-> Booked(c[1], ids, c[2])]
           Iter(it) ==
             it = [s \in SUBSET C |->
                     IF s = {} THEN 0
                     ELSE Booked((CHOOSE x \in s : TRUE)[1], ids, (CHOOSE x \in s : TRUE)[2])
                            + it[s \ {CHOOSE x \in s : TRUE}]]
<1>1. IsFiniteSet(C) /\ IsFiniteSet(P)
  <2>1. CalendarHomes(p, f) \in SUBSET Homes
    BY DEF CalendarHomes, ScopedHomes
  <2>2. IsFiniteSet(CalendarHomes(p, f))
    BY <2>1, FS_Subset
  <2>3. IsFiniteSet(Days(w)) /\ IsFiniteSet(P)
    BY StayDaysFinite
  <2> HIDE DEF P
  <2> QED
    BY <2>2, <2>3, FS_Product
<1>2. g \in [P -> C]
  BY DEF StayDays, Reported, ReportHomes, CalendarHomes
<1>3. ASSUME NEW c \in C PROVE v[c] = Cardinality({q \in P : g[q] = c})
  <2> DEFINE T == {id \in ids : stays[id].home = c[1] /\ Live(stays[id])
                                  /\ stays[id].from <= c[2] /\ stays[id].to > c[2]}
  <2>1. c[1] \in CalendarHomes(p, f) /\ c[2] \in Days(w) /\ c = <<c[1], c[2]>>
    OBVIOUS
  <2>2. ASSUME NEW id \in DOMAIN stays
        PROVE  /\ id \in T <=> id \in Reported(p, f) /\ stays[id].home = c[1]
                               /\ stays[id].from <= c[2] /\ c[2] < stays[id].to
    <3>1. stays[id] \in StayRecord
      BY DEF StaysInv
    <3>2. Reportable(stays[id]) <=> Live(stays[id])
      BY <3>1 DEF StayRecord, Reportable, Live
    <3>3. stays[id].from \in Int /\ stays[id].to \in Int /\ c[2] \in Int /\ w[1] \in Int /\ w[2] \in Int
          /\ w[1] <= c[2] /\ c[2] < w[2]
      BY <2>1, <3>1 DEF StayRecord, Days
    <3>4. stays[id].from <= c[2] /\ stays[id].to > c[2] => stays[id].to > w[1] /\ stays[id].from < w[2]
      BY <3>3
    <3>5. stays[id].to > c[2] <=> c[2] < stays[id].to
      BY <3>3
    <3>6. stays[id].home = c[1] =>
            InScope(p, id) /\ Chosen(f, stays[id].home) /\ stays[id].home \in ReportHomes(p, f)
      BY <2>1 DEF CalendarHomes, ScopedHomes, ReportHomes, InScope
    <3> QED
      BY <3>2, <3>4, <3>5, <3>6 DEF Reservations, Reported
  <2>3. T \in SUBSET DOMAIN stays
    BY DEF Reservations
  <2>4. {q \in P : g[q] = c} = {<<id, c[2]>> : id \in T}
    <3>1. ASSUME NEW q \in P, g[q] = c PROVE q \in {<<id, c[2]>> : id \in T}
      <4>1. q = <<q[1], q[2]>> /\ q[1] \in Reported(p, f) /\ q[1] \in DOMAIN stays
            /\ stays[q[1]].from <= q[2] /\ q[2] < stays[q[1]].to
        BY DEF StayDays, Reported
      <4>2. stays[q[1]].home = c[1] /\ q[2] = c[2]
        BY <3>1
      <4> HIDE DEF P, g, T
      <4> QED
        BY <2>2, <4>1, <4>2
    <3>2. ASSUME NEW id \in T PROVE <<id, c[2]>> \in P /\ g[<<id, c[2]>>] = c
      <4>1. id \in DOMAIN stays /\ id \in Reported(p, f) /\ stays[id].home = c[1]
               /\ stays[id].from <= c[2] /\ c[2] < stays[id].to
        BY <2>2, <2>3
      <4>2. <<id, c[2]>> \in P
        BY <2>1, <4>1 DEF StayDays
      <4> QED
        BY <2>1, <4>1, <4>2
    <3> HIDE DEF P, g, T
    <3> QED
      BY <3>1, <3>2
  <2>5. IsFiniteSet(T)
    <3>1. IsFiniteSet(DOMAIN stays)
      BY StayDaysFinite
    <3> HIDE DEF T
    <3> QED
      BY <2>3, <3>1, FS_Subset
  <2>6. v[c] = Cardinality(T)
    BY DEF Booked
  <2>7. Cardinality({<<id, c[2]>> : id \in T}) = Cardinality(T)
    <3> HIDE DEF T
    <3> QED
      BY <2>5, PairsWithDay
  <2> HIDE DEF P, g, T, v
  <2> QED
    BY <2>4, <2>6, <2>7
<1>4. ASSUME NEW it PROVE Folds(it, C, v) <=> Iter(it)
  <2>1. ASSUME NEW s \in SUBSET C
        PROVE  (IF s = {} THEN 0 ELSE v[CHOOSE x \in s : TRUE] + it[s \ {CHOOSE x \in s : TRUE}])
             = (IF s = {} THEN 0
                ELSE Booked((CHOOSE x \in s : TRUE)[1], ids, (CHOOSE x \in s : TRUE)[2])
                       + it[s \ {CHOOSE x \in s : TRUE}])
    <3>1. s # {} => (CHOOSE x \in s : TRUE) \in C
      OBVIOUS
    <3> HIDE DEF C, ids
    <3> QED
      BY <3>1
  <2>2. [s \in SUBSET C |->
            IF s = {} THEN 0 ELSE v[CHOOSE x \in s : TRUE] + it[s \ {CHOOSE x \in s : TRUE}]]
      = [s \in SUBSET C |->
            IF s = {} THEN 0
            ELSE Booked((CHOOSE x \in s : TRUE)[1], ids, (CHOOSE x \in s : TRUE)[2])
                   + it[s \ {CHOOSE x \in s : TRUE}]]
    <3> HIDE DEF v, C, ids
    <3> QED
      BY <2>1
  <2> QED
    BY <2>2 DEF Folds
<1>5. Total(C, LAMBDA c : Booked(c[1], ids, c[2])) = (CHOOSE it : Iter(it))[C]
  BY DEF Total, MapThenSumSet, MapThenFoldSet
<1> HIDE DEF C, P, g, v, Iter
<1>6. Tallies(C, P, g, v)
  BY <1>2, <1>3 DEF Tallies
<1>7. \E it : Folds(it, C, v)
  BY <1>1, <1>6, FoldExists
<1>8. Iter(CHOOSE it : Iter(it))
  BY <1>4, <1>7
<1>9. Folds(CHOOSE it : Iter(it), C, v)
  BY <1>4, <1>8
<1>10. ASSUME NEW it, Folds(it, C, v) PROVE it[C] = Cardinality(P)
  BY <1>1, <1>6, <1>10, FoldCounts
<1>11. Total(C, LAMBDA c : Booked(c[1], ids, c[2])) = Cardinality(P)
  BY <1>5, <1>9, <1>10
<1> QED
  BY <1>11 DEF C, P

\* The two read models agree, for any principal.
LEMMA NightsAlwaysAgree ==
    ASSUME StaysInv, IsFiniteSet(Homes), \A w \in Windows : w \in Int \X Int
    PROVE  NightsAgree
<1> SUFFICES ASSUME NEW p \in Principals, NEW f \in Filters, NEW w \in Windows
             PROVE  OccupiedNights(p, f, w[1], w[2] - 1)
                      = Total(CalendarHomes(p, f) \X Days(w),
                              LAMBDA c : Booked(c[1], Reservations(p, f, w), c[2]))
  BY DEF NightsAgree
<1>1. w \in Int \X Int
  OBVIOUS
<1>2. OccupiedNights(p, f, w[1], w[2] - 1) = Cardinality(StayDays(p, f, w))
  BY <1>1, ReportCountsDays
<1>3. Total(CalendarHomes(p, f) \X Days(w), LAMBDA c : Booked(c[1], Reservations(p, f, w), c[2]))
        = Cardinality(StayDays(p, f, w))
  BY <1>1, CalendarCountsDays
<1> QED
  BY <1>2, <1>3

\* A row is drawn for each bar: its room's when that is there, otherwise the home's.
LEMMA BarsHaveRows ==
    ASSUME StaysInv, Rooms \in Seq(Hotels)
    PROVE  EveryBarHasRow
<1> SUFFICES ASSUME NEW p \in Principals, NEW f \in Filters, NEW w \in Windows
             PROVE  \A id \in Reservations(p, f, w) :
                        RowOf(stays[id]) \in CalendarRows(p, f, Reservations(p, f, w))
  BY DEF EveryBarHasRow
<1> DEFINE ids == Reservations(p, f, w)
           lines == CalendarRows(p, f, ids)
<1>1. ASSUME NEW id \in ids PROVE RowOf(stays[id]) \in lines
  <2> DEFINE s == stays[id]
  <2>1. id \in DOMAIN stays /\ s \in StayRecord
    BY DEF Reservations, StaysInv
  <2>2. s.home \in CalendarHomes(p, f)
    BY <2>1 DEF Reservations, CalendarHomes, ScopedHomes, InScope, StayRecord
  <2>3. CASE s.home \notin Hotels
    <3>1. RowOf(s) = PropertyRow(s.home)
      BY <2>3 DEF RowOf
    <3> QED
      BY <2>2, <2>3, <3>1 DEF CalendarRows
  <2>4. CASE s.home \in Hotels /\ Placed(s.room)
    <3>1. RowOf(s) = RoomRow(s.room)
      BY <2>4 DEF RowOf
    <3>2. s.room \in LiveRooms(s.home)
      BY <2>1, <2>4 DEF StayRecord, Placed, LiveRooms, StaysInv, RoomsFit
    <3>3. RoomRow(s.room) \in {RoomRow(r) : r \in LiveRooms(s.home)} \cup Unassigned(s.home, ids)
      BY <3>2
    <3> QED
      BY <2>2, <2>4, <3>1, <3>3 DEF CalendarRows
  <2>5. CASE s.home \in Hotels /\ ~Placed(s.room)
    <3>1. RowOf(s) = UnassignedRow(s.home)
      BY <2>5 DEF RowOf
    <3>2. Unassigned(s.home, ids) = {UnassignedRow(s.home)}
      BY <2>5 DEF Unassigned
    <3>3. UnassignedRow(s.home) \in {RoomRow(r) : r \in LiveRooms(s.home)} \cup Unassigned(s.home, ids)
      BY <3>2
    <3>4. UnassignedRow(s.home) \in lines
      <4> HIDE DEF s, ids
      <4> QED
        BY <2>2, <2>5, <3>3 DEF CalendarRows
    <3> QED
      BY <3>1, <3>4
  <2> QED
    BY <2>3, <2>4, <2>5
<1> QED
  BY <1>1

\* A set without two elements has at most one.
LEMMA AtMostOne ==
    ASSUME NEW S, \A x, y \in S : x = y
    PROVE  Cardinality(S) <= 1
<1>1. CASE S = {}
  BY <1>1, FS_EmptySet
<1>2. CASE S # {}
  <2>1. PICK x : S = {x}
    BY <1>2
  <2>2. Cardinality({x}) = 1
    BY FS_Singleton
  <2> QED
    BY <2>1, <2>2
<1> QED
  BY <1>1, <1>2

\* Two live bars of a row on one day would be two live stays of a room that share a night.
LEMMA NightsAlwaysFit ==
    ASSUME StaysInv, \A w \in Windows : w \in Int \X Int
    PROVE  NightsFit
<1> SUFFICES ASSUME NEW r \in DOMAIN Rooms, NEW w \in Windows, NEW day \in Days(w)
             PROVE  Cardinality({id \in BarsForRow(RoomRow(r), DOMAIN stays, day) : Live(stays[id])}) <= 1
  BY DEF NightsFit
<1> DEFINE S == {id \in BarsForRow(RoomRow(r), DOMAIN stays, day) : Live(stays[id])}
<1>1. day \in Int
  BY DEF Days
<1>2. ASSUME NEW id \in S
      PROVE  /\ id \in DOMAIN stays /\ Live(stays[id]) /\ OverlapsDay(id, day)
             /\ stays[id].room = r /\ r # NoRoom
  <2>1. id \in DOMAIN stays /\ RowOf(stays[id]) = RoomRow(r) /\ Live(stays[id]) /\ OverlapsDay(id, day)
    BY DEF BarsForRow
  <2>2. RowOf(stays[id]).kind = "room"
    BY <2>1 DEF RoomRow
  <2>3. RowOf(stays[id]) = RoomRow(stays[id].room) /\ Placed(stays[id].room)
    BY <2>2 DEF RowOf, PropertyRow, UnassignedRow
  <2>4. stays[id].room = r
    BY <2>1, <2>3 DEF RoomRow
  <2> QED
    BY <2>1, <2>3, <2>4 DEF Placed
<1>3. ASSUME NEW id \in S, NEW other \in S PROVE id = other
  <2>1. /\ stays[id] \in StayRecord /\ stays[other] \in StayRecord
        /\ stays[id].from <= day /\ day < stays[id].to
        /\ stays[other].from <= day /\ day < stays[other].to
    BY <1>2 DEF StaysInv, OverlapsDay
  <2>2. Overlap(stays[id], stays[other])
    BY <1>1, <2>1 DEF StayRecord, Overlap
  <2> QED
    BY <1>2, <2>2 DEF StaysInv, RoomsFit
<1> HIDE DEF S
<1>4. Cardinality(S) <= 1
  BY <1>3, AtMostOne
<1> QED
  BY <1>4 DEF S

\* What the constants say of a principal.
IsPrincipal(p) ==
    p = Principal(p.user, p.role, p.members, p.owns) /\ p.role \in DOMAIN ModuleMatrix

\* The settings that are listed are the ones whose guard lets in, role by role.
LEMMA SettingsAreGuarded == SettingsAreShown
<1> SUFFICES ASSUME NEW r \in DOMAIN ModuleMatrix
             PROVE  LET p == Principal("anyone", r, {}, {})
                    IN  \A i \in DOMAIN SettingsGuards(p) : SettingsGuards(p)[i] <=> i \in SettingsItems(p)
  BY DEF SettingsAreShown
<1> DEFINE p == Principal("anyone", r, {}, {})
<1>1. p.role = r
  BY DEF Principal
<1>2. r \in {"org_admin", "manager", "front_desk", "housekeeping", "accounting", "property_owner"}
  BY DEF ModuleMatrix
<1>3. DOMAIN SettingsGuards(p) = {"team", "integrations", "billing"}
  BY DEF SettingsGuards
<1>4. /\ SettingsGuards(p)["team"] <=> "team" \in SettingsItems(p)
      /\ SettingsGuards(p)["integrations"] <=> "integrations" \in SettingsItems(p)
      /\ SettingsGuards(p)["billing"] <=> "billing" \in SettingsItems(p)
  <2> HIDE DEF p
  <2>1. SettingsGuards(p)["team"] <=> p.role \in {"org_admin", "manager"}
    BY Zenon DEF SettingsGuards
  <2>2. SettingsGuards(p)["integrations"] <=> CanPerformAction(p, "integrations")
    BY Zenon DEF SettingsGuards
  <2>3. SettingsGuards(p)["billing"] <=> p.role = "org_admin"
    BY Zenon DEF SettingsGuards
  <2>4. "team" \in SettingsItems(p) <=> p.role \in {"org_admin", "manager"}
    BY <1>1, <1>2 DEF SettingsItems, SettingsAction, CanAccessModule, CanPerformAction,
                      ModuleMatrix, AllStaff
  <2>5. "integrations" \in SettingsItems(p) <=> CanPerformAction(p, "integrations")
    BY <1>1, <1>2 DEF SettingsItems, SettingsAction, CanAccessModule, CanPerformAction,
                      ModuleMatrix, ActionMatrix, AllStaff
  <2>6. "billing" \in SettingsItems(p) <=> p.role = "org_admin"
    BY <1>1, <1>2 DEF SettingsItems, SettingsAction, CanAccessModule, CanPerformAction,
                      ModuleMatrix, ActionMatrix, AllStaff
  <2> QED
    BY <2>1, <2>2, <2>3, <2>4, <2>5, <2>6
<1> QED
  BY <1>3, <1>4

\* Owners have their portal, and nobody else has it.
LEMMA OwnersHavePortal ==
    ASSUME NEW p, IsPrincipal(p)
    PROVE  /\ p.role \in {"org_admin", "manager", "front_desk", "housekeeping", "accounting", "property_owner"}
           /\ \A m : p.role = "property_owner" => (CanAccessModule(p, m) <=> m = "owner")
           /\ CanAccessModule(p, "owner") <=> p.role = "property_owner"
BY DEF IsPrincipal, CanAccessModule, ModuleMatrix, AllStaff

\* What a call may change, the page of the caller shows: by the role and the scope of the caller.
LEMMA WritesAlwaysShown ==
    ASSUME \A p \in Principals : IsPrincipal(p)
    PROVE  WritesAreShown
<1> SUFFICES ASSUME NEW p \in Principals
             PROVE
        /\ \A t \in DOMAIN tasks : AdmitsTask(p, t) <=> Admits(p, "tasks") /\ t \in TaskRows(p, All)
        /\ \A i \in DOMAIN reviews : AdmitsReview(p, i) <=> Admits(p, "reviews") /\ i \in ReviewRows(p, All)
        /\ \A id \in DOMAIN stays :
            /\ AdmitsPayment(p, id) <=> Admits(p, "payments") /\ id \in Payable(p, All)
            /\ CanCheckIn(stays[id]) => MayCheckIn(stays[id])
            /\ CanCheckOut(stays[id]) <=> MayCheckOut(stays[id])
            /\ Admits(p, "owner") /\ id \in OwnerBookings(p, All) => ~AdmitsStay(p, id)
        /\ \A e \in DOMAIN ledger : AdmitsPayment(p, ledger[e].stay) => e \in LedgerRows(p, All)
        /\ \A home \in Homes : CanAccessProperty(p, home) => home \in OpenHomes(p, TRUE)
        /\ \A m \in SidebarItems(p) : Admits(p, m)
  BY DEF WritesAreShown
<1>1. ASSUME NEW home PROVE Chosen(All, home)
  BY DEF Chosen
<1>2. ASSUME NEW t \in DOMAIN tasks
      PROVE  AdmitsTask(p, t) <=> Admits(p, "tasks") /\ t \in TaskRows(p, All)
  BY <1>1 DEF AdmitsTask, TaskRows
<1>3. ASSUME NEW i \in DOMAIN reviews
      PROVE  AdmitsReview(p, i) <=> Admits(p, "reviews") /\ i \in ReviewRows(p, All)
  BY <1>1 DEF AdmitsReview, ReviewRows
<1>4. ASSUME NEW id \in DOMAIN stays
      PROVE  /\ AdmitsPayment(p, id) <=> Admits(p, "payments") /\ id \in Payable(p, All)
             /\ CanCheckIn(stays[id]) => MayCheckIn(stays[id])
             /\ CanCheckOut(stays[id]) <=> MayCheckOut(stays[id])
             /\ Admits(p, "owner") /\ id \in OwnerBookings(p, All) => ~AdmitsStay(p, id)
  <2>1. AdmitsPayment(p, id) <=> Admits(p, "payments") /\ id \in Payable(p, All)
    BY <1>1 DEF AdmitsPayment, Payable
  <2>2. /\ CanCheckIn(stays[id]) => MayCheckIn(stays[id])
        /\ CanCheckOut(stays[id]) <=> MayCheckOut(stays[id])
    BY DEF CanCheckIn, MayCheckIn, CanCheckOut, MayCheckOut
  <2>3. Admits(p, "owner") => ~Admits(p, "reservations")
    BY OwnersHavePortal DEF Admits
  <2> QED
    BY <2>1, <2>2, <2>3 DEF AdmitsStay
<1>5. ASSUME NEW e \in DOMAIN ledger
      PROVE  AdmitsPayment(p, ledger[e].stay) => e \in LedgerRows(p, All)
  BY <1>1 DEF AdmitsPayment, LedgerRows
<1>6. ASSUME NEW home \in Homes
      PROVE  CanAccessProperty(p, home) => home \in OpenHomes(p, TRUE)
  BY DEF OpenHomes, ScopedHomes
<1>7. ASSUME NEW m \in SidebarItems(p) PROVE Admits(p, m)
  <2>1. CanAccessModule(p, m)
    BY DEF SidebarItems
  <2> QED
    BY <2>1 DEF Admits
<1> QED
  BY <1>2, <1>3, <1>4, <1>5, <1>6, <1>7

\* Sums, rows, writes and settings: the four parts of ScreensAgree.
LEMMA ScreensAlwaysAgree ==
    ASSUME StaysInv, StaysAssumption, ScreensAssumption
    PROVE  ScreensAgree
<1>1. IsFiniteSet(Homes) /\ Rooms \in Seq(Hotels) /\ \A p \in Principals : IsPrincipal(p)
  BY DEF StaysAssumption, IsPrincipal
<1>2. \A w \in Windows : w \in Int \X Int
  BY DEF ScreensAssumption
<1> QED
  BY <1>1, <1>2, BarsHaveRows, NightsAlwaysAgree, NightsAlwaysFit, WritesAlwaysShown, SettingsAreGuarded DEF ScreensAgree

-----------------------------------------------------------------------------
(* The routes behind the pages.                                            *)

\* A page of the sidebar is of a module that the principal has.
LEMMA SidebarIsAdmitted ==
    ASSUME NEW p, IsPrincipal(p), NEW m \in SidebarItems(p)
    PROVE  /\ CanAccessModule(p, m) /\ Admits(p, m)
           /\ m \in ModuleItems \cup {"owner"}
           /\ m \in ModuleItems => p.role # "property_owner"
<1>1. CanAccessModule(p, m) /\ m \in ModuleItems \cup {"owner"}
  BY DEF SidebarItems
<1>2. m \in ModuleItems => ~CanAccessModule(p, "owner")
  BY DEF SidebarItems, ModuleItems, AllStaff
<1> QED
  BY <1>1, <1>2, OwnersHavePortal DEF Admits

\* Whom the pages of staff are for.
LEMMA PagesOfRoles ==
    ASSUME NEW p, IsPrincipal(p)
    PROVE  /\ CanAccessModule(p, "guests") => Admits(p, "reservations")
           /\ CanAccessModule(p, "payments") => Admits(p, "reservations")
           /\ CanAccessModule(p, "inbox") => Admits(p, "reservations")
           /\ CanAccessModule(p, "calendar") => Admits(p, "reservations")
           /\ CanAccessModule(p, "automation") => CanPerformAction(p, "automation_approval")
BY DEF IsPrincipal, CanAccessModule, CanPerformAction, Admits, ModuleMatrix, ActionMatrix, AllStaff

\* Every call of a page in the sidebar is taken: page by page, as the matrix gives the page.
LEMMA PagesAlwaysServed ==
    ASSUME \A p \in Principals : IsPrincipal(p)
    PROVE  PagesAreServed
<1> SUFFICES ASSUME NEW p \in Principals, NEW m \in SidebarItems(p)
             PROVE  ShownPage(p, m, Full)
  BY DEF PagesAreServed
<1>1. /\ CanAccessModule(p, m) /\ Admits(p, m)
      /\ m \in ModuleItems \cup {"owner"} /\ (m \in ModuleItems => p.role # "property_owner")
  BY SidebarIsAdmitted
<1>2. ASSUME NEW home PROVE Chosen(All, home)
  BY DEF Chosen
<1>3. CASE m = "guests"
  <2>1. Admits(p, "reservations") /\ Admits(p, "guests")
    BY <1>1, <1>3, PagesOfRoles
  <2>2. GuestList(p) = GuestRows(p)
    BY <2>1 DEF GuestList, Served
  <2>3. ASSUME NEW g \in GuestRows(p)
        PROVE  /\ GuestRecord(p, g.key) = {g}
               /\ \A home \in g.homes : EnrichGuest(p, home)
               /\ \A id \in g.ids : ReservationRecord(p, id)
    <3> DEFINE mine == {id \in DOMAIN stays : InScope(p, id) /\ stays[id].guest # NoGuest}
               Of(key) == {id \in mine : stays[id].guest = key}
               Row(key) == [key |-> key, ids |-> Of(key), homes |-> {stays[id].home : id \in Of(key)}]
    <3>1. GuestRows(p) = {Row(key) : key \in {stays[id].guest : id \in mine}}
      BY DEF GuestRows
    <3>2. PICK key \in {stays[id].guest : id \in mine} : g = Row(key)
      BY <3>1
    <3>3. GuestRecord(p, g.key) = {g}
      <4>1. \A k : Row(k).key = k
        OBVIOUS
      <4>2. \A h \in GuestRows(p) : h.key = g.key => h = g
        <5> HIDE DEF Row
        <5> QED
          BY <3>1, <3>2, <4>1
      <4> QED
        BY <2>2, <4>2 DEF GuestRecord
    <3>4. ASSUME NEW id \in g.ids PROVE InScope(p, id)
      BY <3>2
    <3>5. ASSUME NEW home \in g.homes PROVE CanAccessProperty(p, home)
      BY <3>2 DEF InScope
    <3> QED
      BY <2>1, <3>3, <3>4, <3>5 DEF EnrichGuest, AdmitsHome, ReservationRecord, AdmitsStay
  <2>4. GuestsCalls(p)
    BY <2>2, <2>3 DEF GuestsCalls
  <2> QED
    BY <1>3, <2>4 DEF ShownPage
<1>4. CASE m = "reservations"
  BY <1>1, <1>4 DEF ShownPage, ReservationsCalls, Reservations, ReservationRecord, AttachNote, AdmitsStay
<1>5. CASE m = "tasks"
  <2>1. \A t \in TaskList(p, All) : AdmitsTask(p, t)
    BY <1>1, <1>5 DEF TaskList, Served, TaskRows, AdmitsTask
  <2>2. \A f \in Homes \cup {All}, w \in Windows : \A home \in Schedule(p, f, w, Full) : AdmitsHome(p, "tasks", home)
    BY <1>1, <1>5 DEF Schedule, Served, OpsContext, ScopedPropertyIds, ScopedHomes, AdmitsHome
  <2>3. TasksCalls(p, Full)
    BY <2>1, <2>2 DEF TasksCalls
  <2> QED
    BY <1>5, <2>3 DEF ShownPage
<1>6. CASE m = "reviews"
  <2>1. ReviewsCalls(p)
    BY <1>1, <1>6 DEF ReviewsCalls, ReviewList, ReviewRecord, Served, ReviewRows, AdmitsReview
  <2> QED
    BY <1>6, <2>1 DEF ShownPage
<1>7. CASE m = "reports"
  <2>1. ReportsCalls(p, Full)
    BY <1>1, <1>7 DEF ReportsCalls, ReportedHomes, ForecastContext, Forecast, Served
  <2> QED
    BY <1>7, <2>1 DEF ShownPage
<1>8. CASE m = "rates"
  <2>1. "rates" \in AiStatus(p, Full).modules
    BY <1>1, <1>8 DEF AiStatus
  <2>2. ScopedPropertyIds(p, All) = ScopedHomes(p)
    BY <1>2 DEF ScopedPropertyIds, ScopedHomes
  <2>3. PricingContext(p, All).homes = RateHomes(p)
    BY <1>1, <1>8, <2>2 DEF PricingContext, RateHomes, Served
  <2>4. YieldCalls(p, Full)
    BY <2>1, <2>3 DEF YieldCalls
  <2> QED
    BY <1>8, <2>4 DEF ShownPage
<1>9. CASE m = "properties"
  <2>1. PropertyCalls(p)
    BY <1>1, <1>9 DEF PropertyCalls, PropertyList, Served, OpenHomes, ScopedHomes, PropertyRecord,
                      EditProperty, LabelRoom, AdmitsHome
  <2> QED
    BY <1>9, <2>1 DEF ShownPage
<1>10. CASE m = "payments"
  <2>1. Admits(p, "reservations")
    BY <1>1, <1>10, PagesOfRoles
  <2>2. PaymentsCalls(p)
    BY <1>1, <1>10, <2>1 DEF PaymentsCalls, Payable, PostPayment, LedgerTypes, AdmitsPayment,
                             ReservationRecord, AdmitsStay
  <2> QED
    BY <1>10, <2>2 DEF ShownPage
<1>11. CASE m = "inbox"
  <2>1. Admits(p, "reservations")
    BY <1>1, <1>11, PagesOfRoles
  <2>2. InboxCalls(p, Full)
    BY <1>1, <1>11, <2>1 DEF InboxCalls, Conversations, Served, ScopedHomes, ReadConversation, AdmitsHome,
                             ReservationRecord, AdmitsStay, InScope, DraftReply, ConciergeContext, Full
  <2> QED
    BY <1>11, <2>2 DEF ShownPage
<1>12. CASE m = "calendar"
  <2>1. Admits(p, "reservations")
    BY <1>1, <1>12, PagesOfRoles
  <2>2. DayCalls(p)
    BY <1>1, <1>12, <2>1 DEF DayCalls, CalendarHomes, ScopedHomes, NoteDay, BookDirect, AdmitsHome
  <2> QED
    BY <1>12, <2>2 DEF ShownPage
<1>13. CASE m = "automation"
  <2>1. AutomationCalls(p)
    BY <1>1, <1>13, PagesOfRoles DEF AutomationCalls, ReadAutomation, CreateRule, PatchRule, FireEvent,
                                     RetryRun, ApproveHeld
  <2> QED
    BY <1>13, <2>1 DEF ShownPage
<1>14. CASE m = "owner"
  <2>1. OwnerList(p, All) = OwnerBookings(p, All)
    BY <1>1, <1>14 DEF OwnerList, Served
  <2> QED
    BY <1>14, <2>1 DEF ShownPage
<1>15. CASE m = "dashboard"
  <2>1. HeaderCalls(p)
    BY DEF HeaderCalls, Admits
  <2> QED
    BY <1>15, <2>1 DEF ShownPage
<1>16. m \in {"guests", "reservations", "tasks", "reviews", "reports", "rates", "properties", "payments",
              "inbox", "calendar", "automation", "owner", "dashboard"}
  BY <1>1 DEF ModuleItems, AllStaff
<1> QED
  BY <1>3, <1>4, <1>5, <1>6, <1>7, <1>8, <1>9, <1>10, <1>11, <1>12, <1>13, <1>14, <1>15, <1>16

\* No list of the staff has a record for an owner, as its module is none of the role.
LEMMA OwnersAlwaysApart ==
    ASSUME \A p \in Principals : IsPrincipal(p), stays \in Seq(StayRecord)
    PROVE  OwnersApart
<1> SUFFICES ASSUME NEW p \in Principals, p.role = "property_owner"
             PROVE
        /\ GuestList(p) = {} /\ TaskList(p, All) = {} /\ ReviewList(p, All) = {}
        /\ PaymentList(p, All) = {} /\ PropertyList(p, TRUE) = {} /\ Conversations(p) = {}
        /\ RateHomes(p) = {} /\ ReportedHomes(p, All) = {}
        /\ \A id \in DOMAIN stays : ~ReservationRecord(p, id)
        /\ OwnerPortal(p, All) \subseteq p.owns
        /\ OwnerList(p, All) = {id \in DOMAIN stays : stays[id].home \in OwnerPortal(p, All)}
  BY DEF OwnersApart
<1>1. \A m : Admits(p, m) <=> m = "owner"
  BY OwnersHavePortal DEF Admits
<1>2. /\ GuestList(p) = {} /\ TaskList(p, All) = {} /\ ReviewList(p, All) = {}
      /\ PaymentList(p, All) = {} /\ PropertyList(p, TRUE) = {} /\ Conversations(p) = {}
      /\ RateHomes(p) = {} /\ ReportedHomes(p, All) = {}
  BY <1>1 DEF GuestList, TaskList, ReviewList, PaymentList, PropertyList, Conversations, RateHomes,
              ReportedHomes, Served
<1>3. \A id \in DOMAIN stays : ~ReservationRecord(p, id)
  BY <1>1 DEF ReservationRecord, AdmitsStay
<1>4. OwnerPortal(p, All) = {home \in ScopedHomes(p) : Chosen(All, home)}
  BY <1>1 DEF OwnerPortal, Served, ReportHomes
<1>5. OwnerPortal(p, All) \subseteq p.owns
  BY <1>4 DEF ScopedHomes, CanAccessProperty
<1>6. OwnerList(p, All) = {id \in DOMAIN stays : InScope(p, id) /\ Chosen(All, stays[id].home)}
  BY <1>1 DEF OwnerList, Served, OwnerBookings
<1>7. ASSUME NEW id \in DOMAIN stays PROVE stays[id].home \in Homes
  <2>1. stays[id] \in StayRecord
    OBVIOUS
  <2> QED
    BY <2>1 DEF StayRecord
<1>8. OwnerList(p, All) = {id \in DOMAIN stays : stays[id].home \in OwnerPortal(p, All)}
  BY <1>4, <1>6, <1>7 DEF ScopedHomes, InScope
<1> QED
  BY <1>2, <1>3, <1>5, <1>8

\* What the line of a conversation calls in house or due, in days.
LEMMA LinesTell ==
    ASSUME NEW s \in StayRecord, s.from <= s.to, NEW today \in Int, Live(s), s.op = "none"
    PROVE  StatusLine(s, today) \in {"In house", "Check-in today"}
             <=> (s.from <= today /\ today < s.to) \/ today = s.to
<1>1. s.from \in Int /\ s.to \in Int
  BY DEF StayRecord
<1> DEFINE line == IF s.from = today THEN "Check-in today" ELSE IF s.from < today THEN "In house" ELSE "Upcoming"
           a == ~Live(s)
           b == Live(s) /\ (s.op = "checked_out" \/ s.to < today)
           c == Live(s) /\ s.op = "checked_in" /\ s.to >= today
           d == Live(s) /\ s.op = "none" /\ s.to >= today
<1>2. StatusLine(s, today) = CASE a -> "Cancelled" [] b -> "Checked out" [] c -> "In house" [] d -> line
  BY DEF StatusLine
<1>3. ~a /\ ~c
  OBVIOUS
<1>4. CASE s.to < today
  <2>1. b /\ ~d
    BY <1>1, <1>4
  <2>2. StatusLine(s, today) = "Checked out"
    <3> HIDE DEF a, b, c, d
    <3> QED
      BY <1>2, <1>3, <2>1, Zenon
  <2>3. StatusLine(s, today) \notin {"In house", "Check-in today"}
    BY <2>2
  <2>4. ~((s.from <= today /\ today < s.to) \/ today = s.to)
    BY <1>1, <1>4
  <2> QED
    BY <2>3, <2>4, Zenon
<1>5. CASE ~(s.to < today)
  <2>1. ~b /\ d
    BY <1>1, <1>5
  <2>2. StatusLine(s, today) = line
    <3> HIDE DEF a, b, c, d, line
    <3> QED
      BY <1>2, <1>3, <2>1, Zenon
  <2>3. line \in {"In house", "Check-in today"} <=> s.from <= today
    BY <1>1
  <2>4. s.from <= today <=> (s.from <= today /\ today < s.to) \/ today = s.to
    BY <1>1, <1>5
  <2> HIDE DEF line
  <2> QED
    BY <2>2, <2>3, <2>4, Zenon
<1> QED
  BY <1>4, <1>5

\* The line of a conversation follows the bar of the same day.
LEMMA LinesAlwaysFollow ==
    ASSUME StaysInv, \A w \in Windows : w \in Int \X Int
    PROVE  LinesFollowBars
<1> SUFFICES ASSUME NEW id \in DOMAIN stays, NEW w \in Windows, NEW today \in Days(w),
                    Live(stays[id]) /\ stays[id].op = "none"
             PROVE  StatusLine(stays[id], today) \in {"In house", "Check-in today"}
                      <=> OverlapsDay(id, today) \/ today = stays[id].to
  BY DEF LinesFollowBars
<1>1. stays[id] \in StayRecord
  BY DEF StaysInv
<1>2. stays[id].from <= stays[id].to
  BY DEF StaysInv, RoomsFit
<1>3. today \in Int
  BY DEF Days
<1> QED
  BY <1>1, <1>2, <1>3, LinesTell DEF OverlapsDay

\* A check-out that is due is of a home in the list, and its day is free for the next guest.
LEMMA CheckOutsAlwaysDue ==
    ASSUME StaysInv
    PROVE  CheckOutsAreDue
<1> SUFFICES ASSUME NEW p \in Principals, NEW w \in Windows, NEW id \in OpsContext(p, All, w).checkOuts
             PROVE  /\ stays[id].home \in OpsContext(p, All, w).homes
                    /\ ~OverlapsDay(id, stays[id].to) /\ id \in PricingContext(p, All).live
  BY DEF CheckOutsAreDue
<1>1. id \in DOMAIN stays /\ stays[id].home \in ScopedPropertyIds(p, All) /\ Live(stays[id])
  BY DEF OpsContext
<1>2. stays[id].to \in Int
  <2>1. stays[id] \in StayRecord
    BY <1>1 DEF StaysInv
  <2> QED
    BY <2>1 DEF StayRecord
<1> QED
  BY <1>1, <1>2 DEF OpsContext, OverlapsDay, PricingContext

\* The four parts of RoutesAgree.
LEMMA RoutesAlwaysAgree ==
    ASSUME StaysInv, StaysAssumption, ScreensAssumption
    PROVE  RoutesAgree
<1>1. \A p \in Principals : IsPrincipal(p)
  BY DEF StaysAssumption, IsPrincipal
<1>2. \A w \in Windows : w \in Int \X Int
  BY DEF ScreensAssumption
<1>3. stays \in Seq(StayRecord)
  BY DEF StaysInv
<1> QED
  BY <1>1, <1>2, <1>3, PagesAlwaysServed, OwnersAlwaysApart, LinesAlwaysFollow, CheckOutsAlwaysDue DEF RoutesAgree

\* What a role may do, one by one.
LEMMA OfEachRole ==
    ASSUME NEW r \in DOMAIN ModuleMatrix
    PROVE  /\ IsPrincipal(Principal("anyone", r, {}, {})) /\ Principal("anyone", r, {}, {}).role = r
           /\ r \in {"org_admin", "manager", "front_desk", "housekeeping", "accounting", "property_owner"}
<1> DEFINE p == Principal("anyone", r, {}, {})
<1>1. p.user = "anyone" /\ p.role = r /\ p.members = {} /\ p.owns = {}
  BY DEF Principal
<1>2. IsPrincipal(p)
  <2> HIDE DEF p
  <2>1. p = Principal(p.user, p.role, p.members, p.owns)
    BY <1>1 DEF p
  <2> QED
    BY <1>1, <2>1 DEF IsPrincipal
<1> QED
  BY <1>1, <1>2 DEF ModuleMatrix

LEMMA SettingsAlwaysServed == SettingsAreServed
<1> SUFFICES ASSUME NEW r \in DOMAIN ModuleMatrix, NEW on \in Installations
             PROVE  LET p == Principal("anyone", r, {}, {})
        IN  /\ \A item \in SettingsItems(p) : ShownSettings(p, item, on)
            /\ CanCreateNetwork(p, on) /\ on.commercial => CreateNetwork(p, on)
            /\ SettingsItems(p) = {} =>
                ~(SaveBranding(p, on) \/ SetCapability(p) \/ ManageTeam(p) \/ ReadBilling(p)
                    \/ SyncInternally(p) \/ SaveCredentials(p, on) \/ ApproveHeld(p) \/ PullMessages(p))
            /\ SetCapability(p) => ReadCapabilities(p)
            /\ SyncInternally(p) <=> PullNow(p)
  BY DEF SettingsAreServed
<1> DEFINE p == Principal("anyone", r, {}, {})
<1>1. p.role = r /\ r \in {"org_admin", "manager", "front_desk", "housekeeping", "accounting", "property_owner"}
  BY OfEachRole
<1> HIDE DEF p
<1>2. /\ Integrates(p) <=> r \in {"org_admin", "manager"}
      /\ CanPerformAction(p, "licensing") <=> r = "org_admin"
      /\ CanPerformAction(p, "capability_admin") <=> r = "org_admin"
      /\ CanPerformAction(p, "automation_approval") <=> r \in {"org_admin", "manager"}
      /\ CanAccessModule(p, "settings") <=> r \in {"org_admin", "manager"}
      /\ r \in {"org_admin", "manager"} => Admits(p, "properties")
  BY <1>1 DEF Integrates, CanPerformAction, CanAccessModule, Admits, ActionMatrix, ModuleMatrix, AllStaff
<1>3. ASSUME NEW item \in SettingsItems(p) PROVE ShownSettings(p, item, on)
  <2>1. CanAccessModule(p, "settings") /\ item \in DOMAIN SettingsAction
        /\ (SettingsAction[item] = "none" \/ CanPerformAction(p, SettingsAction[item]))
    BY DEF SettingsItems
  <2>2. item \in {"general", "team", "integrations", "billing", "notifications", "security", "api"}
    BY <2>1 DEF SettingsAction
  <2>3. CASE item = "team"
    <3>1. TeamCalls(p)
      BY <1>1, <1>2, <2>1 DEF TeamCalls, ManageTeam, InviteMember, ChangeMember
    <3> QED
      BY <2>3, <3>1 DEF ShownSettings
  <2>4. CASE item = "integrations"
    <3>1. IntegrationsCalls(p, on)
      BY <1>1, <1>2, <2>1 DEF IntegrationsCalls, ReadCredentials, ReadSyncHealth, SaveCredentials, ImportCatalog,
                              OnboardProperty, ConnectOta, PullNow, AckNow, RetryDeadLetters, MintChannelSession
    <3> QED
      BY <2>4, <3>1 DEF ShownSettings
  <2>5. CASE item = "billing"
    <3>1. CanPerformAction(p, "licensing")
      BY <2>1, <2>5 DEF SettingsAction
    <3>2. ReadBilling(p) /\ ReadLicensing(p)
      BY <1>1, <1>2, <3>1 DEF ReadBilling, ReadLicensing
    <3> QED
      BY <2>5, <3>2 DEF ShownSettings
  <2>6. CASE item = "general"
    <3>1. GeneralCalls(p, on)
      BY <1>1, <1>2, <2>1 DEF GeneralCalls, ReadBranding, SaveBranding, Brands
    <3> QED
      BY <2>6, <3>1 DEF ShownSettings
  <2>7. CASE item \in {"notifications", "security", "api"}
    BY <2>7 DEF ShownSettings
  <2> QED
    BY <2>2, <2>3, <2>4, <2>5, <2>6, <2>7
<1>4. CanCreateNetwork(p, on) /\ on.commercial => CreateNetwork(p, on)
  BY DEF CanCreateNetwork, CreateNetwork
<1>5. SettingsItems(p) = {} =>
                ~(SaveBranding(p, on) \/ SetCapability(p) \/ ManageTeam(p) \/ ReadBilling(p)
                    \/ SyncInternally(p) \/ SaveCredentials(p, on) \/ ApproveHeld(p) \/ PullMessages(p))
  <2>1. CanAccessModule(p, "settings") => "general" \in SettingsItems(p)
    BY DEF SettingsItems, SettingsAction
  <2> QED
    BY <1>1, <1>2, <2>1 DEF SaveBranding, Brands, SetCapability, ManageTeam, ReadBilling, SyncInternally,
                            SaveCredentials, ApproveHeld, PullMessages
<1>6. (SetCapability(p) => ReadCapabilities(p)) /\ (SyncInternally(p) <=> PullNow(p))
  BY <1>1, <1>2 DEF SetCapability, ReadCapabilities, SyncInternally, PullNow
<1>7. /\ \A item \in SettingsItems(p) : ShownSettings(p, item, on)
      /\ CanCreateNetwork(p, on) /\ on.commercial => CreateNetwork(p, on)
      /\ SettingsItems(p) = {} =>
                ~(SaveBranding(p, on) \/ SetCapability(p) \/ ManageTeam(p) \/ ReadBilling(p)
                    \/ SyncInternally(p) \/ SaveCredentials(p, on) \/ ApproveHeld(p) \/ PullMessages(p))
      /\ SetCapability(p) => ReadCapabilities(p)
      /\ SyncInternally(p) <=> PullNow(p)
  BY <1>3, <1>4, <1>5, <1>6
<1> QED
  BY <1>7 DEF p

LEMMA LinksAlwaysPages == LinksArePages
<1> SUFFICES ASSUME NEW r \in DOMAIN ModuleMatrix
             PROVE  LET p == Principal("anyone", r, {}, {})
        IN  /\ \A path \in LinkedModules \cup {"unknown"} :
                DeepLink(p, path) <=> path \in SidebarItems(p) \/ (path = "settings" /\ SettingsItems(p) # {})
            /\ r # "property_owner" => BottomActions(p) # {}
  BY DEF LinksArePages
<1> DEFINE p == Principal("anyone", r, {}, {})
<1>1. /\ IsPrincipal(p) /\ p.role = r
      /\ r \in {"org_admin", "manager", "front_desk", "housekeeping", "accounting", "property_owner"}
  BY OfEachRole
<1> HIDE DEF p
<1>2. SettingsItems(p) # {} <=> CanAccessModule(p, "settings")
  BY DEF SettingsItems, SettingsAction
<1>3. ASSUME NEW path \in LinkedModules \cup {"unknown"}
      PROVE  DeepLink(p, path) <=> path \in SidebarItems(p) \/ (path = "settings" /\ SettingsItems(p) # {})
  <2>1. CASE r = "property_owner"
    <3>1. \A m : CanAccessModule(p, m) <=> m = "owner"
      BY <1>1, <2>1, OwnersHavePortal
    <3> QED
      BY <1>2, <3>1 DEF DeepLink, SidebarItems, LinkedModules
  <2>2. CASE r # "property_owner"
    <3>1. ~CanAccessModule(p, "owner")
      BY <1>1, <2>2, OwnersHavePortal
    <3>2. SidebarItems(p) = {m \in ModuleItems : CanAccessModule(p, m)}
      BY <3>1 DEF SidebarItems
    <3>3. ~CanAccessModule(p, "unknown")
      BY <1>1 DEF CanAccessModule, ModuleMatrix, AllStaff
    <3>4. DeepLink(p, path) <=> path \in LinkedModules /\ CanAccessModule(p, path)
      BY DEF DeepLink
    <3>5. path \in ModuleItems \cup {"settings", "owner", "unknown"}
          /\ "settings" \notin ModuleItems /\ "owner" \notin ModuleItems /\ "unknown" \notin ModuleItems
          /\ ModuleItems \cup {"settings"} \subseteq LinkedModules
      BY DEF LinkedModules, ModuleItems, AllStaff
    <3> QED
      BY <1>2, <3>1, <3>2, <3>3, <3>4, <3>5
  <2> QED
    BY <2>1, <2>2
<1>4. r # "property_owner" => BottomActions(p) # {}
  <2> SUFFICES ASSUME r # "property_owner" PROVE "dashboard" \in BottomActions(p)
    OBVIOUS
  <2>1. ~CanAccessModule(p, "owner") /\ CanAccessModule(p, "dashboard")
    BY <1>1 DEF CanAccessModule, ModuleMatrix, AllStaff
  <2> QED
    BY <2>1 DEF BottomActions, SidebarItems, ModuleItems, AllStaff
<1>5. /\ \A path \in LinkedModules \cup {"unknown"} :
          DeepLink(p, path) <=> path \in SidebarItems(p) \/ (path = "settings" /\ SettingsItems(p) # {})
      /\ r # "property_owner" => BottomActions(p) # {}
  BY <1>3, <1>4
<1> QED
  BY <1>5 DEF p

\* The fold under Without, and what it is for lists of one and of two.
Keeps(it, ds, token) ==
    it = [s \in SUBSET DOMAIN ds |->
            IF s = {} THEN <<>>
            ELSE IF ds[Max(s)] = token THEN it[s \ {Max(s)}] ELSE Append(it[s \ {Max(s)}], ds[Max(s)])]
\* Without is a fold over the positions of the list.
LEMMA WithoutIsFold ==
    ASSUME NEW ds, NEW token
    PROVE  Without(ds, token) = (CHOOSE it : Keeps(it, ds, token))[DOMAIN ds]
BY DEF Without, FoldLeft, MapThenFoldSet, Keeps

LEMMA WithoutOfOne ==
    ASSUME NEW a, NEW token
    PROVE  Without(<<a>>, token) = IF a = token THEN <<>> ELSE <<a>>
<1> DEFINE ds == <<a>>
           one == IF a = token THEN <<>> ELSE <<a>>
           D == {1}
           f == [s \in SUBSET D |-> IF 1 \in s THEN one ELSE <<>>]
           Put(it, s) == IF s = {} THEN <<>>
              ELSE IF ds[Max(s)] = token THEN it[s \ {Max(s)}] ELSE Append(it[s \ {Max(s)}], ds[Max(s)])
<1>1. DOMAIN ds = D /\ ds[1] = a
  OBVIOUS
<1>2. Max({1}) = 1
  BY DEF Max
<1>3. SUBSET D = {{}, {1}} /\ {1} \ {1} = {}
  OBVIOUS
<1>4. f[{}] = <<>> /\ f[{1}] = one
  BY <1>3
<1>5. Append(<<>>, a) = <<a>>
  OBVIOUS
<1>6. ASSUME NEW it
      PROVE  Put(it, {}) = <<>> /\ Put(it, {1}) = IF a = token THEN it[{}] ELSE Append(it[{}], a)
  <2>1. Put(it, {}) = <<>>
    OBVIOUS
  <2>2. {1} # {} /\ Max({1}) = 1 /\ {1} \ {1} = {} /\ ds[1] = a
    BY <1>1, <1>2
  <2>3. Put(it, {1}) = IF a = token THEN it[{}] ELSE Append(it[{}], a)
    <3> HIDE DEF ds
    <3> QED
      BY <2>2, Zenon
  <2> QED
    BY <2>1, <2>3
<1>7. \A s \in SUBSET D : f[s] = Put(f, s)
  <2>1. Put(f, {}) = <<>> /\ Put(f, {1}) = one
    <3> HIDE DEF f, Put
    <3> QED
      BY <1>4, <1>5, <1>6
  <2> HIDE DEF f, D, ds, Put, one
  <2> QED
    BY <1>3, <1>4, <2>1
<1>8. f = [s \in SUBSET D |-> f[s]]
  OBVIOUS
<1>9. Keeps(f, ds, token)
  <2> HIDE DEF f, ds, D
  <2> QED
    BY <1>1, <1>7, <1>8 DEF Keeps
<1>10. PICK it : it = CHOOSE i : Keeps(i, ds, token)
  OBVIOUS
<1>11. Keeps(it, ds, token)
  BY <1>9, <1>10
<1>12. \A s \in SUBSET D : it[s] = Put(it, s)
  <2> HIDE DEF ds, D
  <2> QED
    BY <1>1, <1>11 DEF Keeps
<1>13. it[D] = one
  <2>1. it[{}] = Put(it, {}) /\ it[{1}] = Put(it, {1})
    <3> HIDE DEF D, Put
    <3> QED
      BY <1>3, <1>12
  <2>2. it[{}] = <<>>
    BY <1>6, <2>1, Zenon
  <2>3. it[{1}] = IF a = token THEN it[{}] ELSE Append(it[{}], a)
    <3> HIDE DEF Put
    <3> QED
      BY <1>6, <2>1, Zenon
  <2> QED
    BY <1>5, <2>2, <2>3
<1>14. Without(ds, token) = it[DOMAIN ds]
  BY <1>10, WithoutIsFold
<1> QED
  BY <1>1, <1>13, <1>14

LEMMA WithoutOfTwo ==
    ASSUME NEW a, NEW b, NEW token
    PROVE  Without(<<a, b>>, token)
             = LET one == IF a = token THEN <<>> ELSE <<a>>
               IN  IF b = token THEN one ELSE Append(one, b)
<1> DEFINE ds == <<a, b>>
           one == IF a = token THEN <<>> ELSE <<a>>
           two(k) == IF b = token THEN k ELSE Append(k, b)
           D == {1, 2}
           f == [s \in SUBSET D |-> LET k == IF 1 \in s THEN one ELSE <<>> IN IF 2 \in s THEN two(k) ELSE k]
           Put(it, s) == IF s = {} THEN <<>>
              ELSE IF ds[Max(s)] = token THEN it[s \ {Max(s)}] ELSE Append(it[s \ {Max(s)}], ds[Max(s)])
<1>1. DOMAIN ds = D /\ ds[1] = a /\ ds[2] = b
  OBVIOUS
<1>2. Max({1}) = 1 /\ Max({2}) = 2 /\ Max({1, 2}) = 2
  BY DEF Max
<1>3. SUBSET D = {{}, {1}, {2}, {1, 2}} /\ {1} \ {1} = {} /\ {2} \ {2} = {} /\ {1, 2} \ {2} = {1}
  OBVIOUS
<1>4. f[{}] = <<>> /\ f[{1}] = one /\ f[{2}] = two(<<>>) /\ f[{1, 2}] = two(one)
  BY <1>3
<1>5. Append(<<>>, a) = <<a>>
  OBVIOUS
<1>6. ASSUME NEW it
      PROVE  /\ Put(it, {}) = <<>>
             /\ Put(it, {1}) = IF a = token THEN it[{}] ELSE Append(it[{}], a)
             /\ Put(it, {2}) = two(it[{}]) /\ Put(it, {1, 2}) = two(it[{1}])
  <2>1. Put(it, {}) = <<>>
    OBVIOUS
  <2>2. Put(it, {1}) = IF a = token THEN it[{}] ELSE Append(it[{}], a)
    <3>1. {1} # {} /\ Max({1}) = 1 /\ {1} \ {1} = {} /\ ds[1] = a
      BY <1>1, <1>2
    <3> HIDE DEF ds
    <3> QED
      BY <3>1, Zenon
  <2>3. Put(it, {2}) = two(it[{}])
    <3>1. {2} # {} /\ Max({2}) = 2 /\ {2} \ {2} = {} /\ ds[2] = b
      BY <1>1, <1>2
    <3> HIDE DEF ds
    <3> QED
      BY <3>1, Zenon
  <2>4. Put(it, {1, 2}) = two(it[{1}])
    <3>1. {1, 2} # {} /\ Max({1, 2}) = 2 /\ {1, 2} \ {2} = {1} /\ ds[2] = b
      BY <1>1, <1>2
    <3> HIDE DEF ds
    <3> QED
      BY <3>1, Zenon
  <2> QED
    BY <2>1, <2>2, <2>3, <2>4
<1>7. \A s \in SUBSET D : f[s] = Put(f, s)
  <2>1. Put(f, {}) = <<>> /\ Put(f, {1}) = one /\ Put(f, {2}) = two(<<>>) /\ Put(f, {1, 2}) = two(one)
    <3> HIDE DEF f, Put, two
    <3> QED
      BY <1>4, <1>5, <1>6
  <2> HIDE DEF f, D, ds, Put, one, two
  <2> QED
    BY <1>3, <1>4, <2>1
<1>8. f = [s \in SUBSET D |-> f[s]]
  OBVIOUS
<1>9. Keeps(f, ds, token)
  <2> HIDE DEF f, ds, D
  <2> QED
    BY <1>1, <1>7, <1>8 DEF Keeps
<1>10. PICK it : it = CHOOSE i : Keeps(i, ds, token)
  OBVIOUS
<1>11. Keeps(it, ds, token)
  BY <1>9, <1>10
<1>12. \A s \in SUBSET D : it[s] = Put(it, s)
  <2> HIDE DEF ds, D
  <2> QED
    BY <1>1, <1>11 DEF Keeps
<1>13. it[D] = two(one)
  <2>1. it[{}] = Put(it, {}) /\ it[{1}] = Put(it, {1}) /\ it[{1, 2}] = Put(it, {1, 2})
    <3> HIDE DEF D, Put
    <3> QED
      BY <1>3, <1>12
  <2>2. it[{}] = <<>>
    BY <1>6, <2>1, Zenon
  <2>3. it[{1}] = one
    <3>1. it[{1}] = IF a = token THEN it[{}] ELSE Append(it[{}], a)
      <4> HIDE DEF Put
      <4> QED
        BY <1>6, <2>1, Zenon
    <3> QED
      BY <1>5, <2>2, <3>1
  <2>4. it[{1, 2}] = two(one)
    <3> HIDE DEF Put, two, one
    <3> QED
      BY <1>6, <2>1, <2>3, Zenon
  <2> QED
    BY <2>4
<1>14. Without(ds, token) = it[DOMAIN ds]
  BY <1>10, WithoutIsFold
<1> QED
  BY <1>1, <1>13, <1>14

\* A device that registers again has one entry: by cases over both entries of the list.
LEMMA DevicesStayOnce == DevicesOnce
<1> DEFINE none == [u \in {"ann", "bob"} |-> <<"d1">>]
           first == RegisterToken(none, "ann", "d2")
           second == RegisterToken(first, "ann", "d1")
<1>1. first = [none EXCEPT !["ann"] = Append(Without(none["ann"], "d2"), "d2")]
  BY DEF RegisterToken
<1>2. none["ann"] = <<"d1">> /\ none["bob"] = <<"d1">>
  OBVIOUS
<1>3. Without(<<"d1">>, "d2") = <<"d1">>
  <2>1. "d1" # "d2"
    OBVIOUS
  <2> QED
    BY <2>1, WithoutOfOne
<1>4. ASSUME NEW a, NEW b PROVE Append(<<a>>, b) = <<a, b>>
  <2> DEFINE x == Append(<<a>>, b)
  <2>1. <<a>> \in Seq({a, b}) /\ b \in {a, b} /\ Len(<<a>>) = 1 /\ <<a>>[1] = a
    OBVIOUS
  <2>2. x \in Seq({a, b}) /\ Len(x) = 2 /\ x[1] = a /\ x[2] = b
    BY <2>1
  <2>3. <<a, b>> \in Seq({a, b}) /\ Len(<<a, b>>) = 2 /\ <<a, b>>[1] = a /\ <<a, b>>[2] = b
    OBVIOUS
  <2> HIDE DEF x
  <2>4. \A i \in 1..2 : x[i] = <<a, b>>[i]
    BY <2>2, <2>3
  <2>5. x = <<a, b>>
    BY <2>2, <2>3, <2>4
  <2> QED
    BY <2>5 DEF x
<1>5. first = [u \in {"ann", "bob"} |-> IF u = "ann" THEN <<"d1", "d2">> ELSE <<"d1">>]
  BY <1>1, <1>2, <1>3, <1>4
<1>6. second = [first EXCEPT !["ann"] = Append(Without(first["ann"], "d1"), "d1")]
  BY DEF RegisterToken
<1>7. Without(<<"d1", "d2">>, "d1") = <<"d2">>
  <2>1. "d1" # "d2" /\ Append(<<>>, "d2") = <<"d2">>
    OBVIOUS
  <2>2. Without(<<"d1", "d2">>, "d1")
          = LET one == IF "d1" = "d1" THEN <<>> ELSE <<"d1">> IN IF "d2" = "d1" THEN one ELSE Append(one, "d2")
    BY WithoutOfTwo
  <2> QED
    BY <2>1, <2>2
<1> HIDE DEF first
<1>8. second["ann"] = <<"d2", "d1">> /\ second["bob"] = <<"d1">>
  BY <1>4, <1>5, <1>6, <1>7
<1> QED
  BY <1>8 DEF DevicesOnce, first

\* Who impersonates has no console, and one call gives the session back.
LEMMA ConsoleAlwaysCloses == ConsoleCloses
<1> DEFINE people == {"ann", "bob"}
<1> SUFFICES ASSUME NEW admins \in SUBSET people, NEW on \in Installations,
                    NEW s \in Sessions(people, admins), NEW u \in people
             PROVE
        LET t == Impersonate(s, u, on, admins)
        IN  /\ ConsoleMe(s, on).isSuperAdmin <=> PlatformAdmin(s, on)
            /\ t # s => /\ ~PlatformAdmin(t, on) /\ ConsoleMe(t, on).impersonating
                        /\ \A v \in people : Impersonate(t, v, on, admins) = t
                        /\ StopImpersonating(t, admins) = s
            /\ \A from \in admins, to \in people : MayRename(admins, from, to) => to \in admins
            /\ PatchSubscription(PatchSubscription(on, [whiteLabel |-> TRUE]), [multiNetwork |-> TRUE])
                = PatchSubscription(PatchSubscription(on, [multiNetwork |-> TRUE]), [whiteLabel |-> TRUE])
  BY DEF ConsoleCloses
<1> DEFINE t == Impersonate(s, u, on, admins)
<1>1. ASSUME NEW x
      PROVE  /\ ConsoleMe(x, on).isSuperAdmin <=> PlatformAdmin(x, on)
             /\ ConsoleMe(x, on).impersonating <=> on.commercial /\ x.by # "nobody"
  BY Zenon DEF ConsoleMe, PlatformAdmin
<1>2. ASSUME t # s
      PROVE  /\ ~PlatformAdmin(t, on) /\ ConsoleMe(t, on).impersonating
             /\ \A v \in people : Impersonate(t, v, on, admins) = t
             /\ StopImpersonating(t, admins) = s
  <2>1. PlatformAdmin(s, on) /\ u # s.user /\ t = [user |-> u, by |-> s.user, admin |-> u \in admins]
    BY <1>2 DEF Impersonate
  <2>2. on.commercial /\ s.by = "nobody"
    BY <2>1 DEF PlatformAdmin
  <2>3. PICK su \in people, sb \in people \cup {"nobody"} :
          s = [user |-> su, by |-> sb, admin |-> su \in admins]
    BY DEF Sessions
  <2>4. t.user = u /\ t.by = su /\ su # "nobody" /\ sb = "nobody"
    BY <2>1, <2>2, <2>3
  <2>5. ~PlatformAdmin(t, on)
    <3> HIDE DEF t
    <3> QED
      BY <2>4 DEF PlatformAdmin
  <2>6. ConsoleMe(t, on).impersonating
    <3> HIDE DEF t
    <3> QED
      BY <1>1, <2>2, <2>4
  <2>7. ASSUME NEW v \in people PROVE Impersonate(t, v, on, admins) = t
    <3> HIDE DEF t
    <3> QED
      BY <2>5 DEF Impersonate
  <2>8. StopImpersonating(t, admins) = [user |-> su, by |-> "nobody", admin |-> su \in admins]
    <3> HIDE DEF t
    <3> QED
      BY <2>4 DEF StopImpersonating
  <2>9. StopImpersonating(t, admins) = s
    BY <2>3, <2>4, <2>8
  <2> QED
    BY <2>5, <2>6, <2>7, <2>9
<1>3. ASSUME NEW from \in admins, NEW to \in people, MayRename(admins, from, to)
      PROVE  to \in admins
  BY <1>3 DEF MayRename
<1>4. PatchSubscription(PatchSubscription(on, [whiteLabel |-> TRUE]), [multiNetwork |-> TRUE])
        = PatchSubscription(PatchSubscription(on, [multiNetwork |-> TRUE]), [whiteLabel |-> TRUE])
  <2> DEFINE white == [whiteLabel |-> TRUE]
             multi == [multiNetwork |-> TRUE]
  <2>1. DOMAIN white = {"whiteLabel"} /\ DOMAIN multi = {"multiNetwork"}
        /\ white["whiteLabel"] = TRUE /\ multi["multiNetwork"] = TRUE
    OBVIOUS
  <2> HIDE DEF white, multi
  <2>2. ASSUME NEW e, NEW patch, NEW k \in DOMAIN e
        PROVE  /\ DOMAIN PatchSubscription(e, patch) = DOMAIN e
               /\ PatchSubscription(e, patch)[k] = IF k \in DOMAIN patch THEN patch[k] ELSE e[k]
    BY DEF PatchSubscription
  <2>3. PatchSubscription(PatchSubscription(on, white), multi)
          = [k \in DOMAIN on |-> IF k \in DOMAIN multi THEN multi[k] ELSE PatchSubscription(on, white)[k]]
    BY DEF PatchSubscription
  <2>4. PatchSubscription(PatchSubscription(on, multi), white)
          = [k \in DOMAIN on |-> IF k \in DOMAIN white THEN white[k] ELSE PatchSubscription(on, multi)[k]]
    BY DEF PatchSubscription
  <2>5. ASSUME NEW k \in DOMAIN on
        PROVE  (IF k \in DOMAIN multi THEN multi[k] ELSE PatchSubscription(on, white)[k])
             = (IF k \in DOMAIN white THEN white[k] ELSE PatchSubscription(on, multi)[k])
    <3>1. PatchSubscription(on, white)[k] = (IF k \in DOMAIN white THEN white[k] ELSE on[k])
          /\ PatchSubscription(on, multi)[k] = (IF k \in DOMAIN multi THEN multi[k] ELSE on[k])
      BY <2>2
    <3> QED
      BY <2>1, <3>1
  <2>6. PatchSubscription(PatchSubscription(on, white), multi) = PatchSubscription(PatchSubscription(on, multi), white)
    BY <2>3, <2>4, <2>5
  <2> QED
    BY <2>6 DEF white, multi
<1>5. /\ ConsoleMe(s, on).isSuperAdmin <=> PlatformAdmin(s, on)
      /\ t # s => /\ ~PlatformAdmin(t, on) /\ ConsoleMe(t, on).impersonating
                  /\ \A v \in people : Impersonate(t, v, on, admins) = t
                  /\ StopImpersonating(t, admins) = s
      /\ \A from \in admins, to \in people : MayRename(admins, from, to) => to \in admins
      /\ PatchSubscription(PatchSubscription(on, [whiteLabel |-> TRUE]), [multiNetwork |-> TRUE])
          = PatchSubscription(PatchSubscription(on, [multiNetwork |-> TRUE]), [whiteLabel |-> TRUE])
  BY <1>1, <1>2, <1>3, <1>4
<1> QED
  BY <1>5

\* The four parts of GuardsAgree.
LEMMA GuardsAlwaysAgree == GuardsAgree
BY SettingsAlwaysServed, LinksAlwaysPages, ConsoleAlwaysCloses, DevicesStayOnce DEF GuardsAgree

-----------------------------------------------------------------------------
(* What the rates pages offer.                                             *)

\* Who may write has the calendar, the drawer and the page of rates.
LEMMA WritersDraw ==
    ASSUME NEW p \in AriWriters("here")
    PROVE  MayWriteAri(p, "here") /\ Drawer(p, "here")
BY DEF AriWriters, MayWriteAri, Drawer

LEMMA SomeFieldsValid == FieldsValid(Price) /\ FieldsValid(Lengths) /\ DatesValid(0, Horizon) /\ DatesValid(0, 0)
<1>1. DOMAIN Price = {"rateMinor"} /\ Price["rateMinor"] = 1
  BY DEF Price
<1>2. DOMAIN Lengths = {"minStay", "maxStay", "closed"} /\ Lengths["minStay"] = 0 /\ Lengths["maxStay"] = 0
  BY DEF Lengths
<1>3. FieldsValid(Price)
  <2>1. Price.rateMinor > 0 /\ DOMAIN Price \cap {"minStay", "maxStay"} = {} /\ DOMAIN Price # {}
    BY <1>1
  <2> QED
    BY <2>1 DEF FieldsValid
<1>4. FieldsValid(Lengths)
  <2>1. "rateMinor" \notin DOMAIN Lengths /\ DOMAIN Lengths # {}
    BY <1>2
  <2>2. \A f \in DOMAIN Lengths \cap {"minStay", "maxStay"} : Lengths[f] = 0
    BY <1>2
  <2>3. \A f \in DOMAIN Lengths \cap {"minStay", "maxStay"} : Lengths[f] >= 0
    BY <2>2
  <2> QED
    BY <2>1, <2>3 DEF FieldsValid
<1> QED
  BY <1>3, <1>4 DEF DatesValid, Horizon

\* What the commands take, of a writer.
LEMMA TakenOfWriters ==
    ASSUME NEW p \in AriWriters("here"), NEW caps, NEW plan \in Plans
    PROVE  /\ Restricts(p, "here", caps, plan, Price, 0, Horizon)
                <=> "rateRestrictionWrite" \in caps /\ ResolveRateMode(plan) = "manual" /\ ~plan.child
           /\ Restricts(p, "here", caps, plan, Lengths, 0, Horizon) <=> "rateRestrictionWrite" \in caps
           /\ Modifies(p, "here", caps, plan, 1, <<plan>>)
                <=> "derivedRateWrite" \in caps /\ ResolveRateMode(plan) = "derived"
<1>1. plan # NoPlan
  <2>1. plan.mode # "unknown"
    BY DEF Plans, RawModes
  <2>2. NoPlan.mode = "unknown"
    BY DEF NoPlan
  <2> QED
    BY <2>1, <2>2
<1>2. RateEditable(Price, plan) <=> ResolveRateMode(plan) = "manual" /\ ~plan.child
  <2>1. "rateMinor" \in DOMAIN Price
    BY DEF Price
  <2> QED
    BY <1>1, <2>1 DEF RateEditable
<1>3. RateEditable(Lengths, plan)
  <2>1. "rateMinor" \notin DOMAIN Lengths
    BY DEF Lengths
  <2> QED
    BY <2>1 DEF RateEditable
<1>4. <<plan>> # <<>> /\ 1 >= 1
  OBVIOUS
<1>5. Restricts(p, "here", caps, plan, Price, 0, Horizon)
        <=> "rateRestrictionWrite" \in caps /\ ResolveRateMode(plan) = "manual" /\ ~plan.child
  BY <1>1, <1>2, WritersDraw, SomeFieldsValid DEF Restricts, SetsRestrictions
<1>6. Restricts(p, "here", caps, plan, Lengths, 0, Horizon) <=> "rateRestrictionWrite" \in caps
  BY <1>1, <1>3, WritersDraw, SomeFieldsValid DEF Restricts, SetsRestrictions
<1>7. Modifies(p, "here", caps, plan, 1, <<plan>>)
        <=> "derivedRateWrite" \in caps /\ ResolveRateMode(plan) = "derived"
  BY <1>1, <1>4, WritersDraw DEF Modifies, SetsModifier
<1> QED
  BY <1>5, <1>6, <1>7

\* The mode that a page derives is the one of the command where the page offers a write.
LEMMA ShownIsResolved ==
    ASSUME NEW plan \in Plans
    PROVE  /\ ShownMode(plan) = "manual" => ResolveRateMode(plan) = "manual"
           /\ ShownMode(plan) = "derived" => ResolveRateMode(plan) = "derived"
           /\ plan.mode \in {"none", "manual"} /\ ~plan.child => ResolveRateMode(plan) = "manual"
           /\ plan.mode = "derived" => ResolveRateMode(plan) = "derived"
BY DEF Plans, RawModes, ShownMode, ResolveRateMode, Normal

\* What the page and the drawer offer for a plan, the route takes, whatever the capabilities.
LEMMA PlansAreTaken ==
    ASSUME NEW p \in AriWriters("here"), NEW caps, NEW plan \in Plans
    PROVE
      LET page == RatesPage(caps, plan)
          drawer == DrawerOffers(caps, plan)
          takes == Restricts(p, "here", caps, plan, Price, 0, Horizon)
          modifies == Modifies(p, "here", caps, plan, 1, <<plan>>)
      IN  /\ (page.nightly \/ drawer.nightly => takes) /\ (takes => ~plan.child)
          /\ page.modifier \/ drawer.modifier => modifies
          /\ ~(takes /\ modifies)
          /\ page.readOnly => ~takes /\ ~modifies /\ ~Opens(p, "here", caps, 0, 0, 0)
          /\ (drawer.nightly \/ drawer.modifier => "price" \in Tabs(caps))
          /\ "restrictions" \in Tabs(caps) => Restricts(p, "here", caps, plan, Lengths, 0, Horizon)
<1> DEFINE page == RatesPage(caps, plan)
           drawer == DrawerOffers(caps, plan)
           takes == Restricts(p, "here", caps, plan, Price, 0, Horizon)
           modifies == Modifies(p, "here", caps, plan, 1, <<plan>>)
           lengths == Restricts(p, "here", caps, plan, Lengths, 0, Horizon)
           opens == Opens(p, "here", caps, 0, 0, 0)
           rates == "rateRestrictionWrite" \in caps
           derived == "derivedRateWrite" \in caps
           mode == ResolveRateMode(plan)
<1>1. /\ takes <=> rates /\ mode = "manual" /\ ~plan.child
      /\ lengths <=> rates
      /\ modifies <=> derived /\ mode = "derived"
  BY TakenOfWriters
<1>2. /\ page.nightly <=> rates /\ ShownMode(plan) = "manual" /\ ~plan.child
      /\ page.modifier <=> derived /\ ShownMode(plan) = "derived"
      /\ page.readOnly <=> caps \cap {"rateRestrictionWrite", "derivedRateWrite", "availabilityWrite"} = {}
  BY Zenon DEF RatesPage
<1>3. /\ drawer.nightly <=> rates /\ plan.mode \in {"none", "manual"} /\ ~plan.child
      /\ drawer.modifier <=> derived /\ plan.mode = "derived"
  BY Zenon DEF DrawerOffers
<1>4. /\ "price" \in Tabs(caps) <=> rates \/ derived
      /\ "restrictions" \in Tabs(caps) <=> rates
  BY DEF Tabs
<1>5. page.readOnly => ~rates /\ ~derived /\ ~opens
  <2>1. opens => "availabilityWrite" \in caps
    BY DEF Opens, SetsAvailability
  <2> HIDE DEF page, opens
  <2> QED
    BY <1>2, <2>1
<1>6. /\ ShownMode(plan) = "manual" => mode = "manual"
      /\ ShownMode(plan) = "derived" => mode = "derived"
      /\ plan.mode \in {"none", "manual"} /\ ~plan.child => mode = "manual"
      /\ plan.mode = "derived" => mode = "derived"
  BY ShownIsResolved
<1>7. ~(mode = "manual" /\ mode = "derived")
  <2> HIDE DEF mode
  <2> QED
    OBVIOUS
<1> HIDE DEF page, drawer, takes, modifies, lengths, opens, rates, derived, mode
<1>8. /\ (page.nightly \/ drawer.nightly => takes) /\ (takes => ~plan.child)
      /\ page.modifier \/ drawer.modifier => modifies
      /\ ~(takes /\ modifies)
      /\ page.readOnly => ~takes /\ ~modifies /\ ~opens
      /\ (drawer.nightly \/ drawer.modifier => "price" \in Tabs(caps))
      /\ "restrictions" \in Tabs(caps) => lengths
  BY <1>1, <1>2, <1>3, <1>4, <1>5, <1>6, <1>7, Zenon
<1> QED
  BY <1>8 DEF page, drawer, takes, modifies, lengths, opens

\* What the menu of a day offers, the route takes.
LEMMA DaysAreTaken ==
    ASSUME NEW p \in AriWriters("here"), NEW caps \in SUBSET WriteCapabilities, NEW day \in DayCells
    PROVE
      LET menu == CellActions(caps, day)
      IN  /\ {"close_availability", "open_availability"} \cap menu # {} =>
                  /\ day.typed /\ day.fresh
                  /\ \A count \in {0, Capacity(day)} : Opens(p, "here", caps, count, 0, 0)
                  /\ "edit_ari" \in menu
          /\ "edit_ari" \in menu /\ FirstTab(caps) \notin Tabs(caps) =>
                  Tabs(caps) = {"price"} /\ "rateRestrictionWrite" \notin caps
<1> DEFINE menu == CellActions(caps, day)
<1>1. "edit_ari" \in menu <=> \/ "rateRestrictionWrite" \in caps \/ "derivedRateWrite" \in caps
                              \/ "availabilityWrite" \in caps /\ day.fresh
  BY DEF CellActions, Availability
<1>2. ASSUME {"close_availability", "open_availability"} \cap menu # {}
      PROVE  "availabilityWrite" \in caps /\ day.typed /\ day.fresh
  BY <1>2 DEF CellActions, Availability
<1>3. ASSUME "availabilityWrite" \in caps, NEW count \in {0, Capacity(day)}
      PROVE  Opens(p, "here", caps, count, 0, 0)
  <2>1. Capacity(day) >= 0
    <3>1. day.rooms \in 0..2
      BY DEF DayCells
    <3> QED
      BY <3>1 DEF Capacity
  <2>2. count >= 0
    BY <2>1
  <2> QED
    BY <1>3, <2>2, WritersDraw, SomeFieldsValid DEF Opens, SetsAvailability
<1>4. ASSUME "edit_ari" \in menu, FirstTab(caps) \notin Tabs(caps)
      PROVE  Tabs(caps) = {"price"} /\ "rateRestrictionWrite" \notin caps
  <2>1. "availabilityWrite" \notin caps
    BY <1>4 DEF FirstTab, Tabs
  <2>2. "rateRestrictionWrite" \notin caps
    BY <1>4, <2>1 DEF FirstTab, Tabs
  <2>3. "derivedRateWrite" \in caps
    BY <1>1, <1>4, <2>1, <2>2
  <2> QED
    BY <2>1, <2>2, <2>3 DEF Tabs
<1> HIDE DEF menu
<1>5. /\ {"close_availability", "open_availability"} \cap menu # {} =>
                  /\ day.typed /\ day.fresh
                  /\ \A count \in {0, Capacity(day)} : Opens(p, "here", caps, count, 0, 0)
                  /\ "edit_ari" \in menu
      /\ "edit_ari" \in menu /\ FirstTab(caps) \notin Tabs(caps) =>
                  Tabs(caps) = {"price"} /\ "rateRestrictionWrite" \notin caps
  BY <1>1, <1>2, <1>3, <1>4, Zenon
<1> QED
  BY <1>5 DEF menu

LEMMA OffersAlwaysTaken == OffersAreTaken
<1>1. SomeDays \subseteq DayCells
  BY DEF SomeDays
<1> QED
  BY <1>1, PlansAreTaken, DaysAreTaken DEF OffersAreTaken

-----------------------------------------------------------------------------
(* Bookings: what happens to stays.                                        *)

\* A room that is free for i is so however else i's record is.
LEMMA RoomIsFree ==
    ASSUME StaysInv, Rooms \in Seq(Hotels), NEW i, NEW s \in StayRecord,
           NEW room \in Assigned(i, s)
    PROVE  /\ room \in {NoRoom} \cup DOMAIN Rooms
           /\ room # NoRoom =>
                /\ Rooms[room] = s.home
                /\ \A other \in DOMAIN stays \ {i} :
                     ~(Live(stays[other]) /\ stays[other].room = room /\ Overlap(stays[other], s))
<1> DEFINE free == Free(i, s)
<1>1. free \subseteq DOMAIN Rooms /\ DOMAIN Rooms \subseteq Nat
  BY DEF Free
<1>2. room # NoRoom => room \in free
  <2> SUFFICES ASSUME room # NoRoom PROVE room \in free
    OBVIOUS
  <2>1. free # {} /\ room = IF s.room \in free THEN s.room ELSE Min(free)
    BY DEF Assigned
  <2>2. Min(free) \in free
    <3> HIDE DEF free
    <3>1. \E x \in free : \A y \in free : x <= y
      <4>1. IsWellFoundedOn(OpToRel(<, Nat), Nat)
        BY NatLessThanWellFounded
      <4>2. PICK x \in free : \A y \in free : ~(<<y, x>> \in OpToRel(<, Nat))
        BY <1>1, <2>1, <4>1, WFMin
      <4>5. \A y, z \in Nat : <<y, z>> \in OpToRel(<, Nat) <=> y < z
        BY Zenon DEF OpToRel
      <4>3. \A y \in free : ~(y < x)
        BY <1>1, <4>2, <4>5, Zenon
      <4>4. \A y \in free : y \in Nat
        BY <1>1
      <4> QED
        BY <4>3, <4>4
    <3> QED
      BY <3>1 DEF Min
  <2> QED
    BY <2>1, <2>2
<1>3. room # NoRoom =>
        /\ Rooms[room] = s.home
        /\ \A other \in DOMAIN stays \ {i} :
             ~(Live(stays[other]) /\ stays[other].room = room /\ Overlap(stays[other], s))
  BY <1>2 DEF Free
<1> QED
  BY <1>1, <1>2, <1>3

\* A sequence with one element replaced.
LEMMA SeqExcept ==
    ASSUME NEW S, NEW q \in Seq(S), NEW i \in DOMAIN q, NEW x \in S
    PROVE  /\ [q EXCEPT ![i] = x] \in Seq(S)
           /\ DOMAIN [q EXCEPT ![i] = x] = DOMAIN q
           /\ [q EXCEPT ![i] = x][i] = x
           /\ \A j \in DOMAIN q \ {i} : [q EXCEPT ![i] = x][j] = q[j]
OBVIOUS

\* One stay is new or changed, and takes a room that is free for it or none.
LEMMA OneStayChanges ==
    ASSUME StaysInv, NEW i \in 1..(Len(stays) + 1), NEW s \in StayRecord, s.from <= s.to,
           s.room # NoRoom =>
             /\ Rooms[s.room] = s.home
             /\ \A other \in DOMAIN stays \ {i} :
                  ~(Live(stays[other]) /\ Live(s) /\ stays[other].room = s.room /\ Overlap(stays[other], s)),
           stays' = IF i \in DOMAIN stays THEN [stays EXCEPT ![i] = s] ELSE Append(stays, s)
    PROVE  StaysInv'
<1>1. stays \in Seq(StayRecord)
  BY DEF StaysInv
<1>2. /\ stays' \in Seq(StayRecord) /\ DOMAIN stays' = DOMAIN stays \cup {i}
      /\ stays'[i] = s /\ \A j \in DOMAIN stays \ {i} : stays'[j] = stays[j]
  <2>1. CASE i \in DOMAIN stays
    <3>1. stays' = [stays EXCEPT ![i] = s]
      BY <2>1
    <3>2. LET q == [stays EXCEPT ![i] = s]
          IN  /\ q \in Seq(StayRecord) /\ DOMAIN q = DOMAIN stays /\ q[i] = s
              /\ \A j \in DOMAIN stays \ {i} : q[j] = stays[j]
      BY <1>1, <2>1, SeqExcept, Zenon
    <3>3. DOMAIN stays \cup {i} = DOMAIN stays
      BY <2>1
    <3> QED
      BY <3>1, <3>2, <3>3, Zenon
  <2>2. CASE i \notin DOMAIN stays
    <3>1. i = Len(stays) + 1
      BY <1>1, <2>2
    <3>2. stays' = Append(stays, s)
      BY <2>2
    <3> QED
      BY <1>1, <3>1, <3>2
  <2> QED
    BY <2>1, <2>2
<1>3. ASSUME NEW j \in DOMAIN stays'
      PROVE  /\ stays'[j].from <= stays'[j].to
             /\ stays'[j].room # NoRoom => Rooms[stays'[j].room] = stays'[j].home
  BY <1>2 DEF StaysInv, RoomsFit
<1>4. ASSUME NEW j \in DOMAIN stays', NEW k \in DOMAIN stays', j # k,
             Live(stays'[j]), Live(stays'[k]), stays'[j].room # NoRoom, stays'[j].room = stays'[k].room
      PROVE  ~Overlap(stays'[j], stays'[k])
  <2>1. CASE j # i /\ k # i
    BY <1>2, <1>4, <2>1 DEF StaysInv, RoomsFit
  <2>2. CASE j = i
    <3>1. k \in DOMAIN stays \ {i} /\ stays'[k] = stays[k] /\ stays'[j] = s
      BY <1>2, <1>4, <2>2
    <3>2. ~Overlap(stays[k], s)
      BY <1>4, <3>1
    <3> QED
      BY <3>1, <3>2 DEF Overlap
  <2>3. CASE k = i
    <3>1. j \in DOMAIN stays \ {i} /\ stays'[j] = stays[j] /\ stays'[k] = s
      BY <1>2, <1>4, <2>3
    <3>2. ~Overlap(stays[j], s)
      BY <1>4, <3>1
    <3> QED
      BY <3>1, <3>2
  <2> QED
    BY <2>1, <2>2, <2>3
<1> QED
  BY <1>2, <1>3, <1>4 DEF StaysInv, RoomsFit, Live, Overlap

\* One step per operation of the desk; those that leave the bookings alone are last.
LEMMA StaysInvKept ==
    ASSUME StaysInv, StaysAssumption, StaysNext
    PROVE  StaysInv'
<1>0. stays \in Seq(StayRecord) /\ Rooms \in Seq(Hotels)
  BY DEF StaysInv, StaysAssumption
<1>1. ASSUME stays' = stays PROVE StaysInv'
  BY <1>1 DEF StaysInv, RoomsFit, Live, Overlap
<1>2. ASSUME NEW home \in Homes, NEW guest \in GuestKeys \cup {NoGuest}, NEW w \in Nights,
             NEW status \in {"confirmed", "cancelled", "pending_sync"}, Book(home, guest, w, status)
      PROVE  StaysInv'
  <2> DEFINE s == NewStay(home, guest, w, status)
             i == Len(stays) + 1
  <2>1. w \in Int \X Int /\ w[1] <= w[2]
    BY DEF StaysAssumption
  <2>2. s \in StayRecord /\ s.from <= s.to /\ s.home = home
    BY <2>1 DEF NewStay, StayRecord
  <2>3. PICK room \in IF status = "confirmed" THEN Assigned(i, s) ELSE {NoRoom} :
          stays' = Append(stays, [s EXCEPT !.room = room])
    BY <1>2 DEF Book
  <2> DEFINE n == [s EXCEPT !.room = room]
  <2> HIDE DEF s
  <2>4. /\ room \in {NoRoom} \cup DOMAIN Rooms
        /\ room # NoRoom =>
             /\ Rooms[room] = s.home
             /\ \A other \in DOMAIN stays \ {i} :
                  ~(Live(stays[other]) /\ stays[other].room = room /\ Overlap(stays[other], s))
    BY <1>0, <2>2, <2>3, RoomIsFree
  <2>5. n \in StayRecord /\ n.from = s.from /\ n.to = s.to /\ n.home = s.home /\ n.room = room
    BY <2>2, <2>4 DEF StayRecord
  <2>6. i \notin DOMAIN stays /\ i \in 1..(Len(stays) + 1)
    BY <1>0
  <2> HIDE DEF n, i
  <2> QED
    BY <2>2, <2>3, <2>4, <2>5, <2>6, OneStayChanges DEF Overlap, n
<1>3. ASSUME NEW id \in DOMAIN stays, NEW guest \in GuestKeys \cup {NoGuest}, NEW w \in Nights,
             Change(id, guest, w)
      PROVE  StaysInv'
  <2> DEFINE s == [stays[id] EXCEPT !.from = w[1], !.to = w[2],
                                    !.guest = IF guest = NoGuest THEN @ ELSE guest,
                                    !.status = IF @ = "pending_sync" THEN "confirmed" ELSE @]
  <2>1. w \in Int \X Int /\ w[1] <= w[2] /\ stays[id] \in StayRecord
    BY <1>0 DEF StaysAssumption
  <2>2. s \in StayRecord /\ s.from <= s.to
    BY <2>1 DEF StayRecord
  <2>3. PICK room \in IF Live(s) THEN Assigned(id, s) ELSE {NoRoom} :
          stays' = [stays EXCEPT ![id] = [s EXCEPT !.room = room]]
    BY <1>3 DEF Change
  <2> DEFINE n == [s EXCEPT !.room = room]
  <2> HIDE DEF s
  <2>4. /\ room \in {NoRoom} \cup DOMAIN Rooms
        /\ room # NoRoom =>
             /\ Rooms[room] = s.home
             /\ \A other \in DOMAIN stays \ {id} :
                  ~(Live(stays[other]) /\ stays[other].room = room /\ Overlap(stays[other], s))
    BY <1>0, <2>2, <2>3, RoomIsFree
  <2>5. n \in StayRecord /\ n.from = s.from /\ n.to = s.to /\ n.home = s.home /\ n.room = room
    BY <2>2, <2>4 DEF StayRecord
  <2>6. id \in 1..(Len(stays) + 1)
    BY <1>0
  <2> HIDE DEF n
  <2> QED
    BY <2>2, <2>3, <2>4, <2>5, <2>6, OneStayChanges DEF Overlap, n
<1>4. ASSUME NEW id \in DOMAIN stays, NEW s \in StayRecord, s.from <= s.to, stays' = [stays EXCEPT ![id] = s],
             \/ s.room = NoRoom
             \/ /\ s.room = stays[id].room /\ s.home = stays[id].home /\ s.from = stays[id].from
                /\ s.to = stays[id].to /\ s.status = stays[id].status
      PROVE  StaysInv'
  <2>1. s.room # NoRoom =>
             /\ Rooms[s.room] = s.home
             /\ \A other \in DOMAIN stays \ {id} :
                  ~(Live(stays[other]) /\ Live(s) /\ stays[other].room = s.room /\ Overlap(stays[other], s))
    BY <1>4 DEF StaysInv, RoomsFit, Live, Overlap
  <2>2. id \in 1..(Len(stays) + 1)
    BY <1>0
  <2> QED
    BY <1>4, <2>1, <2>2, OneStayChanges
<1>5. ASSUME NEW id \in DOMAIN stays, Cancel(id) PROVE StaysInv'
  <2> DEFINE s == [stays[id] EXCEPT !.status = "cancelled", !.room = NoRoom]
  <2>1. stays[id] \in StayRecord /\ stays[id].from <= stays[id].to
    BY <1>0 DEF StaysInv, RoomsFit
  <2>2. s \in StayRecord /\ s.from <= s.to /\ s.room = NoRoom
    BY <2>1 DEF StayRecord
  <2>3. stays' = [stays EXCEPT ![id] = s]
    BY <1>5 DEF Cancel
  <2> HIDE DEF s
  <2> QED
    BY <1>4, <2>2, <2>3
<1>6. ASSUME NEW id \in DOMAIN stays, NEW op \in {"checked_in", "checked_out"},
             stays' = [stays EXCEPT ![id].op = op]
      PROVE  StaysInv'
  <2> DEFINE s == [stays[id] EXCEPT !.op = op]
  <2>1. stays[id] \in StayRecord /\ stays[id].from <= stays[id].to
    BY <1>0 DEF StaysInv, RoomsFit
  <2>2. /\ s \in StayRecord /\ s.from <= s.to
        /\ s.room = stays[id].room /\ s.home = stays[id].home /\ s.from = stays[id].from
        /\ s.to = stays[id].to /\ s.status = stays[id].status
    BY <2>1 DEF StayRecord
  <2>3. stays' = [stays EXCEPT ![id] = s]
    BY <1>6
  <2> HIDE DEF s
  <2> QED
    BY <1>4, <2>2, <2>3
<1>7. ASSUME NEW p \in Principals, NEW id \in DOMAIN stays, CheckIn(p, id) \/ CheckOut(p, id) PROVE StaysInv'
  BY <1>6, <1>7 DEF CheckIn, CheckOut
<1>8. \/ \E home \in Homes, guest \in GuestKeys \cup {NoGuest}, w \in Nights :
           \E status \in {"confirmed", "cancelled", "pending_sync"} : Book(home, guest, w, status)
      \/ \E id \in DOMAIN stays :
           \/ \E guest \in GuestKeys \cup {NoGuest}, w \in Nights : Change(id, guest, w)
           \/ Cancel(id)
           \/ \E p \in Principals :
               \/ CheckIn(p, id) \/ CheckOut(p, id)
               \/ \E of \in DOMAIN ledger \cup {NoEntry} : RecordPayment(p, id, of)
      \/ \E p \in Principals :
           \/ \E home \in Homes :
               \/ \E q \in Principals : CreateTask(p, home, q.user)
               \/ ImportReviews(p, home)
               \/ \E archive \in BOOLEAN : UpdatePropertyOps(p, home, archive)
           \/ \E t \in DOMAIN tasks : UpdateTask(p, t)
           \/ \E i \in DOMAIN reviews : UpdateReview(p, i)
      \/ \E hotel \in Hotels, count \in 0..Len(Rooms) : ImportRooms(hotel, count)
  BY Zenon DEF StaysNext
<1>9. CASE \E home \in Homes, guest \in GuestKeys \cup {NoGuest}, w \in Nights :
             \E status \in {"confirmed", "cancelled", "pending_sync"} : Book(home, guest, w, status)
  BY <1>2, <1>9, Zenon
<1>10. CASE \E id \in DOMAIN stays :
             \/ \E guest \in GuestKeys \cup {NoGuest}, w \in Nights : Change(id, guest, w)
             \/ Cancel(id)
             \/ \E p \in Principals :
                 \/ CheckIn(p, id) \/ CheckOut(p, id)
                 \/ \E of \in DOMAIN ledger \cup {NoEntry} : RecordPayment(p, id, of)
  <2>1. PICK id \in DOMAIN stays :
             \/ \E guest \in GuestKeys \cup {NoGuest}, w \in Nights : Change(id, guest, w)
             \/ Cancel(id)
             \/ \E p \in Principals :
                 \/ CheckIn(p, id) \/ CheckOut(p, id)
                 \/ \E of \in DOMAIN ledger \cup {NoEntry} : RecordPayment(p, id, of)
    BY <1>10
  <2>2. CASE \E guest \in GuestKeys \cup {NoGuest}, w \in Nights : Change(id, guest, w)
    BY <1>3, <2>2, Zenon
  <2>3. CASE Cancel(id)
    BY <1>5, <2>3, Zenon
  <2>4. CASE \E p \in Principals : CheckIn(p, id) \/ CheckOut(p, id)
    BY <1>7, <2>4, Zenon
  <2>5. CASE \E p \in Principals : \E of \in DOMAIN ledger \cup {NoEntry} : RecordPayment(p, id, of)
    <3>1. stays' = stays
      BY <2>5 DEF RecordPayment
    <3> QED
      BY <1>1, <3>1, Zenon
  <2> QED
    BY <2>1, <2>2, <2>3, <2>4, <2>5, Zenon
<1>11. CASE \/ \E p \in Principals :
                \/ \E home \in Homes :
                    \/ \E q \in Principals : CreateTask(p, home, q.user)
                    \/ ImportReviews(p, home)
                    \/ \E archive \in BOOLEAN : UpdatePropertyOps(p, home, archive)
                \/ \E t \in DOMAIN tasks : UpdateTask(p, t)
                \/ \E i \in DOMAIN reviews : UpdateReview(p, i)
            \/ \E hotel \in Hotels, count \in 0..Len(Rooms) : ImportRooms(hotel, count)
  <2>1. stays' = stays
    BY <1>11 DEF CreateTask, ImportReviews, UpdatePropertyOps, UpdateTask, UpdateReview, ImportRooms
  <2> QED
    BY <1>1, <2>1, Zenon
<1> QED
  BY <1>8, <1>9, <1>10, <1>11, Zenon

\* Whatever happens in whatever order, the pages tell the same of the same bookings, and the
\* routes behind them take what they offer: the read models and guards that are written apart
\* (reservation-query.ts, reports, owner.ts, roles.ts, the handlers) never contradict each other.
THEOREM PagesNeverDisagree == Spec => []PagesAgree
<1>1. Init => StaysInv
  BY DEF Init, StaysInit, StaysInv, RoomsFit
<1>2. StaysInv /\ [Next]_<<part, roomVars, accountVars, billingVars, noteVars, tenancyVars,
                           proposalVars, stayVars>> => StaysInv'
  <2> SUFFICES ASSUME StaysInv, [Next]_<<part, roomVars, accountVars, billingVars, noteVars, tenancyVars,
                                         proposalVars, stayVars>>
               PROVE  StaysInv'
    OBVIOUS
  <2>1. ASSUME stayVars' = stayVars PROVE StaysInv'
    BY <2>1 DEF stayVars, StaysInv, RoomsFit, Live, Overlap
  <2>2. CASE Takes("desk") /\ StaysNext
    BY <2>2, StaysAssumption, StaysInvKept
  <2>3. CASE \E q \in Parts \ {"desk"} : Takes(q)
    <3>1. stayVars' = stayVars
      BY <2>3 DEF Takes
    <3> QED
      BY <2>1, <3>1
  <2>4. Next => \/ Takes("desk") /\ StaysNext
                \/ \E q \in Parts \ {"desk"} : Takes(q)
    BY DEF Next, Parts
  <2> QED
    BY <2>1, <2>2, <2>3, <2>4
<1>3. StaysInv => PagesAgree
  BY StaysAssumption, ScreensAssumption, ScreensAlwaysAgree, RoutesAlwaysAgree, OffersAlwaysTaken,
     GuardsAlwaysAgree DEF PagesAgree
<1> QED
  BY <1>1, <1>2, <1>3, PTL DEF Spec
=============================================================================
