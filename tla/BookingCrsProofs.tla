--------------------------- MODULE BookingCrsProofs ---------------------------
(***************************************************************************)
(* Proofs about BookingCrs, for every value of its constants: any number   *)
(* of requests, clients and drains, any faults, feed pulls and webhooks.   *)
(***************************************************************************)
EXTENDS BookingCrs, BookingRevisionsProofs, FiniteSetTheorems

\* The intents there are, live or rolled back.
Recorded == {c \in ResIds : intents[c] # NoIntent}

Pcs == {"idle", "insert", "client", "post", "posted", "save", "sweep"}
ActorState == [pc : Pcs, cur : Codes, booking : BookingIds, todo : SUBSET ResIds,
               did : BOOLEAN, row : Row \cup {NoIntent}]
\* What an actor works on has an intent; a booking is known between POST and save.
Fits(a) ==
    /\ a \in ActorState
    /\ a.pc \in {"insert", "client", "post", "posted", "save"} => a.cur \in Recorded
    /\ a.pc \in {"insert", "save"} => a.row \in Row
    /\ a.booking # 0 => a.pc \in {"posted", "save"}
    /\ a.todo \subseteq Recorded

CrsTypeOK ==
    /\ TypeOK
    /\ intents \in [ResIds -> Intent \cup {NoIntent}]
    /\ rows \in [ResIds -> Row \cup {NoIntent}]
    /\ replies \in [Requests -> Codes]
    /\ \A q \in Requests : replies[q] # 0 => replies[q] \in Recorded
    /\ at \in [Actors -> ActorState] /\ \A s \in Actors : Fits(at[s])
    /\ crsFaults \in [CrsFaultKinds -> Nat]

Bounded ==
    /\ faults["crash"] <= MaxFaults["crash"] /\ crsFaults["lost"] <= MaxCrsFaults["lost"]
    /\ nextRes > 0 /\ \A i \in Held : i < nextRes

\* Bookings are numbered as they come, and one has one code in all its revisions.
RevsOK ==
    /\ \E n \in 0..Len(revs) : Booked = 1..n
    /\ \A r, q \in DOMAIN revs : revs[r].booking = revs[q].booking => revs[r].code = revs[q].code

\* Booking b, unless it is none, was sent to Channex with code c.
Tells(b, c) == b = 0 \/ \E r \in DOMAIN revs : revs[r].booking = b /\ revs[r].code = c

\* Before any restart: ids and codes are not given out twice, bookings are noted where
\* their code says, and an intent is reconciled only when its reservation, if it is
\* still there, shows a revision.  A stranger carries the code of another one.
IntentKept(c) ==
    /\ c < nextRes /\ Tells(intents[c].booking, c)
    /\ res[c] # NoRes => /\ res[c].code = c
                         /\ intents[c].status = "reconciled" => res[c].src # 0
ReservationKept(i) ==
    /\ res[i].code # 0 => res[i].code \in Recorded
    /\ Tells(res[i].booking, res[i].code)
    /\ res[i].src = 0 => res[i].code = i /\ res[i].status = "pending_sync"
    /\ res[i].code \notin {0, i} => /\ res[i].code < i
                                    /\ res[res[i].code] # NoRes => res[res[i].code].src # 0
Kept ==
    /\ \A c \in Recorded : IntentKept(c)
    /\ \A i \in Held : ReservationKept(i)
    /\ \A s \in Actors : Tells(at[s].booking, at[s].cur)
    /\ \A r \in DOMAIN revs : revs[r].code # 0 => revs[r].code \in Recorded

\* Before any answer is lost: who is about to send a code is the only one, and nothing
\* was sent with it before; a booking has one reservation.
Sent(c) == \E r \in DOMAIN revs : revs[r].code = c
AtPost(s) == at[s].pc \in {"post", "posted"}
Senders ==
    /\ \A c \in Recorded : intents[c].status # "retry"
    /\ \A c \in Recorded : intents[c].status = "queued" =>
            ~Sent(c) /\ \A s \in Actors : AtPost(s) => at[s].cur # c
    /\ \A s \in Actors : at[s].pc = "post" => ~Sent(at[s].cur)
    /\ \A s, t \in Actors : AtPost(s) /\ AtPost(t) /\ s # t => at[s].cur # at[t].cur
SentOnce ==
    \A r, q \in DOMAIN revs : revs[r].code = revs[q].code /\ revs[r].code # 0 =>
        /\ revs[r].booking = revs[q].booking
        /\ revs[r].status = "new" /\ revs[q].status = "new" => r = q
OneEachBooking ==
    /\ \A i \in Held : res[i].src # 0 => res[i].booking # 0
    /\ \A i \in Held : res[i].code \notin {0, i} => res[res[i].code] = NoRes
    /\ OneReservationPerBooking

CrsInv ==
    /\ CrsTypeOK /\ Bounded /\ RevsOK /\ LiveIsDurable
    /\ NeverRestarted => Kept
    /\ NothingLost => Senders /\ SentOnce /\ OneEachBooking

-----------------------------------------------------------------------------
(* What most steps have in common.                                         *)

\* A booking that reservation i may be shown with.
MayBe(b, i) ==
    \/ b = res[i].booking
    \/ i \in Recorded /\ b = intents[i].booking
    \/ \E s \in Actors : at[s].cur = i /\ b = at[s].booking
Shows(i) ==
    \/ res'[i] = res[i]
    \/ res'[i] = NoRes
    \/ /\ res[i] # NoRes
       /\ \E b \in BookingIds, st \in {"pending_sync", "confirmed"} :
            /\ res'[i] = [res[i] EXCEPT !.booking = b, !.status = st]
            /\ MayBe(b, i) /\ (b = 0 => res[i].booking = 0)
            /\ st = "confirmed" => i \in Recorded /\ intents[i].status = "reconciled"
Moves(c) ==
    \/ intents'[c] = intents[c]
    \/ /\ c \in Recorded /\ intents'[c] \in Intent
       /\ intents'[c].live => intents[c].live
       /\ intents'[c].status \in {"queued", "reconciled"} =>
              intents'[c].status = intents[c].status
       /\ intents'[c].status = "retry" =>
              intents[c].status = "retry" \/ crsFaults'["lost"] < crsFaults["lost"]
       /\ \/ intents'[c].booking = intents[c].booking
          \/ \E s \in Actors : at[s].cur = c /\ intents'[c].booking = at[s].booking
Goes(s) ==
    \/ at'[s] = at[s]
    \/ /\ Fits(at'[s])
       /\ at'[s].booking = 0 \/ (at'[s].booking = at[s].booking /\ at'[s].cur = at[s].cur)
       /\ at'[s].pc # "insert"
       /\ at[s].pc = "insert" => \/ rows'[at[s].cur] # NoIntent
                                 \/ ~intents'[at[s].cur].live
Typed ==
    /\ TypeOK'
    /\ intents' \in [ResIds -> Intent \cup {NoIntent}]
    /\ rows' \in [ResIds -> Row \cup {NoIntent}]
    /\ at' \in [Actors -> ActorState]
    /\ crsFaults' \in [CrsFaultKinds -> Nat] /\ crsFaults'["lost"] <= crsFaults["lost"]
    /\ \A c \in ResIds : rows[c] # NoIntent => rows'[c] # NoIntent
Steadily ==
    /\ Typed
    /\ UNCHANGED <<nextRes, revs, faults, replies>>
    /\ \A i \in ResIds : Shows(i) /\ Moves(i)
    /\ \A s \in Actors : Goes(s)
SendsNothing == \A s \in Actors : at'[s].pc \in {"post", "posted"} => at'[s] = at[s]
Quietly == Steadily /\ SendsNothing

\* ... keeps the types and what has a row,
LEMMA SteadyTypes ==
    ASSUME CrsTypeOK, LiveIsDurable, Steadily
    PROVE  CrsTypeOK' /\ LiveIsDurable'
<1> USE NoIntentAssumption DEF Steadily, Typed, CrsTypeOK
<1>1. \A c \in ResIds : Moves(c)
  OBVIOUS
<1>2. Recorded' = Recorded
  BY <1>1 DEF Recorded, Moves
<1>3. ASSUME NEW s \in Actors
      PROVE  Fits(at[s])'
  <2>1. Goes(s) /\ Fits(at[s])
    OBVIOUS
  <2> QED
    BY <1>2, <2>1 DEF Goes, Fits
<1>4. \A q \in Requests : replies'[q] # 0 => replies'[q] \in Recorded'
  BY <1>2
<1>5. CrsTypeOK'
  BY <1>3, <1>4
<1>6. ASSUME NEW c \in Live', \A s \in Actors : at'[s].pc = "insert" => at'[s].cur # c
      PROVE  rows'[c] # NoIntent
  <2>1. c \in ResIds /\ intents'[c] # NoIntent /\ intents'[c].live
    BY <1>6 DEF Live
  <2>2. c \in Live
    BY <1>1, <2>1 DEF Moves, Live, Recorded
  <2>3. CASE \E s \in Actors : at[s].pc = "insert" /\ at[s].cur = c
    <3>1. PICK s \in Actors : at[s].pc = "insert" /\ at[s].cur = c
      BY <2>3
    <3>2. Goes(s) /\ at'[s] # at[s]
      BY <1>6, <3>1
    <3> QED
      BY <2>1, <3>1, <3>2 DEF Goes
  <2>4. CASE \A s \in Actors : at[s].pc = "insert" => at[s].cur # c
    <3>1. rows[c] # NoIntent
      BY <2>2, <2>4 DEF LiveIsDurable
    <3> QED
      BY <2>1, <3>1
  <2> QED
    BY <2>3, <2>4
<1>7. LiveIsDurable'
  BY <1>6 DEF LiveIsDurable
<1> QED
  BY <1>5, <1>7

\* What a reservation is shown with agrees with its code; its code and the revision
\* it shows stay.
LEMMA ShownFields ==
    ASSUME CrsTypeOK, NEW i \in ResIds, Shows(i), res'[i] # NoRes
    PROVE  /\ res[i] # NoRes /\ res'[i].code = res[i].code /\ res'[i].src = res[i].src
           /\ MayBe(res'[i].booking, i) /\ (res'[i].booking = 0 => res[i].booking = 0)
           /\ \/ res'[i].status = res[i].status \/ res'[i].status = "pending_sync"
              \/ i \in Recorded /\ intents[i].status = "reconciled"
<1>1. CASE res'[i] = res[i]
  BY <1>1 DEF MayBe
<1>2. CASE res'[i] # res[i]
  <2>1. res[i] # NoRes
    BY <1>2 DEF Shows
  <2>2. PICK b \in BookingIds, st \in {"pending_sync", "confirmed"} :
            /\ res'[i] = [res[i] EXCEPT !.booking = b, !.status = st]
            /\ MayBe(b, i) /\ (b = 0 => res[i].booking = 0)
            /\ st = "confirmed" => i \in Recorded /\ intents[i].status = "reconciled"
    BY <1>2 DEF Shows
  <2>3. res[i] \in Reservation
    BY <2>1 DEF CrsTypeOK, TypeOK
  <2>4. /\ res'[i].code = res[i].code /\ res'[i].src = res[i].src
        /\ res'[i].booking = b /\ res'[i].status = st
    BY <2>2, <2>3 DEF Reservation
  <2> QED
    BY <2>1, <2>2, <2>4
<1> QED
  BY <1>1, <1>2

LEMMA MayBeTells ==
    ASSUME CrsTypeOK, Kept, NEW i \in Held, NEW b, MayBe(b, i)
    PROVE  Tells(b, res[i].code)
<1>1. CASE b = res[i].booking
  BY <1>1 DEF Kept, ReservationKept
<1>2. CASE i \in Recorded /\ b = intents[i].booking
  BY <1>2 DEF Kept, IntentKept, Held
<1>3. ASSUME NEW s \in Actors, at[s].cur = i, b = at[s].booking, b # 0
      PROVE  Tells(b, res[i].code)
  <2>1. at[s].pc \in {"posted", "save"}
    BY <1>3 DEF CrsTypeOK, Fits
  <2>2. i \in Recorded
    BY <1>3, <2>1 DEF CrsTypeOK, Fits
  <2>3. res[i].code = i
    BY <2>2 DEF Kept, IntentKept, Held
  <2> QED
    BY <1>3, <2>3 DEF Kept
<1> QED
  BY <1>1, <1>2, <1>3 DEF MayBe, Tells

\* ... keeps what ids, codes and bookings say of each other,
LEMMA SteadyKept ==
    ASSUME CrsTypeOK, Kept, Steadily
    PROVE  Kept'
<1>1. /\ nextRes' = nextRes /\ revs' = revs
      /\ \A i \in ResIds : Shows(i) /\ Moves(i)
      /\ \A s \in Actors : Goes(s)
  BY DEF Steadily
<1>2. Recorded' = Recorded
  BY <1>1, NoIntentAssumption DEF Recorded, Moves
<1>3. \A b, c : Tells(b, c) => Tells(b, c)'
  BY <1>1 DEF Tells
<1>4. ASSUME NEW i \in ResIds, res'[i] # NoRes
      PROVE  /\ i \in Held /\ res'[i].code = res[i].code /\ res'[i].src = res[i].src
             /\ Tells(res'[i].booking, res[i].code)
             /\ res'[i].src = 0 => res'[i].status = "pending_sync"
  <2>1. /\ res[i] # NoRes /\ res'[i].code = res[i].code /\ res'[i].src = res[i].src
        /\ MayBe(res'[i].booking, i)
        /\ \/ res'[i].status = res[i].status \/ res'[i].status = "pending_sync"
           \/ i \in Recorded /\ intents[i].status = "reconciled"
    BY <1>1, <1>4, ShownFields
  <2>2. i \in Held
    BY <2>1 DEF Held
  <2>3. Tells(res'[i].booking, res[i].code)
    BY <2>1, <2>2, MayBeTells DEF Kept, ReservationKept
  <2>4. res'[i].src = 0 => res'[i].status = "pending_sync"
    BY <2>1, <2>2 DEF Kept, ReservationKept, IntentKept
  <2> QED
    BY <2>1, <2>2, <2>3, <2>4
<1>5. ASSUME NEW c \in Recorded
      PROVE  IntentKept(c)'
  <2>1. IntentKept(c) /\ Moves(c) /\ c \in ResIds
    BY <1>1 DEF Kept, Recorded
  <2>2. Tells(intents'[c].booking, c)
    BY <2>1 DEF Kept, IntentKept, Moves
  <2>3. intents'[c].status = "reconciled" => intents[c].status = "reconciled"
    BY <2>1 DEF Moves
  <2> QED
    BY <1>1, <1>3, <1>4, <2>1, <2>2, <2>3 DEF IntentKept, Held
<1>6. ASSUME NEW i \in Held'
      PROVE  ReservationKept(i)'
  <2>1. i \in ResIds /\ res'[i] # NoRes
    BY DEF Held
  <2>2. /\ i \in Held /\ res'[i].code = res[i].code /\ res'[i].src = res[i].src
        /\ Tells(res'[i].booking, res[i].code)
        /\ res'[i].src = 0 => res'[i].status = "pending_sync"
    BY <1>4, <2>1
  <2>3. ReservationKept(i)
    BY <2>2 DEF Kept
  <2>4. res[i].code \in Recorded => res[i].code \in ResIds
    BY DEF Recorded
  <2> DEFINE j == res[i].code
  <2>5. j # 0 => j \in Recorded'
    BY <1>2, <2>3 DEF ReservationKept
  <2>6. Tells(res[i].booking, res[i].code)'
    BY <1>1, <2>2 DEF Tells
  <2>7. res'[i].src = 0 => j = i /\ res'[i].status = "pending_sync"
    BY <2>2, <2>3 DEF ReservationKept
  <2>8. ASSUME j \notin {0, i}, res'[j] # NoRes
        PROVE  res'[j].src # 0
    <3>1. j \in ResIds
      BY <2>3, <2>4, <2>8 DEF ReservationKept
    <3>2. res[j] # NoRes /\ res'[j].src = res[j].src
      BY <1>4, <2>8, <3>1 DEF Held
    <3> QED
      BY <2>3, <2>8, <3>2 DEF ReservationKept
  <2>9. j \notin {0, i} => j < i
    BY <2>3 DEF ReservationKept
  <2>10. res'[i].code = j
    BY <2>2
  <2> HIDE DEF j
  <2> QED
    BY <2>5, <2>6, <2>7, <2>8, <2>9, <2>10 DEF ReservationKept
<1>7. ASSUME NEW s \in Actors
      PROVE  Tells(at[s].booking, at[s].cur)'
  <2>1. Goes(s) /\ Tells(at[s].booking, at[s].cur)
    BY <1>1 DEF Kept
  <2> QED
    BY <1>1, <2>1 DEF Goes, Tells
<1>8. \A r \in DOMAIN revs' : revs'[r].code # 0 => revs'[r].code \in Recorded'
  BY <1>1, <1>2 DEF Kept
<1> QED
  BY <1>2, <1>5, <1>6, <1>7, <1>8 DEF Kept

\* A booking is shown on a reservation only when that one's code is of it; so no other
\* reservation there is has it.
LEMMA SteadyOneEach ==
    ASSUME CrsTypeOK, RevsOK, Kept, OneEachBooking, \A i \in ResIds : Shows(i)
    PROVE  OneEachBooking'
<1>1. ASSUME NEW i \in ResIds, res'[i] # NoRes
      PROVE  /\ i \in Held /\ res'[i].code = res[i].code /\ res'[i].src = res[i].src
             /\ MayBe(res'[i].booking, i) /\ (res'[i].booking = 0 => res[i].booking = 0)
             /\ Tells(res'[i].booking, res[i].code)
  <2>1. /\ res[i] # NoRes /\ res'[i].code = res[i].code /\ res'[i].src = res[i].src
        /\ MayBe(res'[i].booking, i) /\ (res'[i].booking = 0 => res[i].booking = 0)
    BY <1>1, ShownFields
  <2>2. i \in Held
    BY <2>1 DEF Held
  <2> QED
    BY <2>1, <2>2, MayBeTells
<1>2. \A i \in Held' : res'[i].src # 0 => res'[i].booking # 0
  BY <1>1 DEF Held, OneEachBooking
<1>3. ASSUME NEW i \in Held', res'[i].code \notin {0, i}
      PROVE  res'[res'[i].code] = NoRes
  <2>1. i \in Held /\ res'[i].code = res[i].code
    BY <1>1 DEF Held
  <2>2. res[i].code \in ResIds
    BY <1>3, <2>1 DEF Kept, ReservationKept, Recorded
  <2>3. res[res[i].code] = NoRes
    BY <1>3, <2>1 DEF OneEachBooking
  <2> QED
    BY <1>1, <2>1, <2>2, <2>3 DEF Held
\* Who gets a booking at this step waited for it under its code.
<1>4. ASSUME NEW i \in Held', res'[i].booking # res[i].booking
      PROVE  res[i].code = i
  <2>1. i \in Held /\ MayBe(res'[i].booking, i) /\ res'[i].booking # 0
    BY <1>1, <1>4 DEF Held
  <2>2. i \in Recorded
    BY <1>4, <2>1 DEF MayBe, CrsTypeOK, Fits
  <2> QED
    BY <2>1, <2>2 DEF Kept, IntentKept, Held
<1>5. ASSUME NEW i \in Held', NEW j \in Held', res'[i].booking = res'[j].booking,
             res'[i].booking # 0, i # j
      PROVE  FALSE
  <2>1. /\ i \in Held /\ Tells(res'[i].booking, res[i].code)
        /\ j \in Held /\ Tells(res'[i].booking, res[j].code)
    BY <1>1, <1>5 DEF Held
  <2>2. res[i].code = res[j].code
    BY <1>5, <2>1 DEF Tells, RevsOK
  <2>3. CASE res'[i].booking # res[i].booking
    BY <1>4, <1>5, <2>1, <2>2, <2>3 DEF OneEachBooking, Held, ResIds
  <2>4. CASE res'[j].booking # res[j].booking
    BY <1>4, <1>5, <2>1, <2>2, <2>4 DEF OneEachBooking, Held, ResIds
  <2>5. CASE res'[i].booking = res[i].booking /\ res'[j].booking = res[j].booking
    BY <1>5, <2>1, <2>5 DEF OneEachBooking, OneReservationPerBooking
  <2> QED
    BY <2>3, <2>4, <2>5
<1>6. OneReservationPerBooking'
  BY <1>5 DEF OneReservationPerBooking
<1> QED
  BY <1>2, <1>3, <1>6 DEF OneEachBooking

\* ... sends nothing,
LEMMA QuietSenders ==
    ASSUME CrsTypeOK, Senders, Quietly, ~(crsFaults'["lost"] < crsFaults["lost"])
    PROVE  Senders'
<1>1. /\ revs' = revs
      /\ \A c \in ResIds : Moves(c)
      /\ \A s \in Actors : Goes(s)
  BY DEF Quietly, Steadily
<1>2. Recorded' = Recorded
  BY <1>1, NoIntentAssumption DEF Recorded, Moves
<1>3. \A c : Sent(c)' <=> Sent(c)
  BY <1>1 DEF Sent
<1>4. \A s \in Actors : AtPost(s)' => at'[s] = at[s] /\ AtPost(s)
  BY DEF AtPost, Quietly, SendsNothing
<1>5. \A s \in Actors : at'[s].pc = "post" => at'[s] = at[s]
  BY DEF Quietly, SendsNothing
<1>6. \A c \in Recorded : /\ c \in ResIds
                          /\ intents'[c].status = "retry" => intents[c].status = "retry"
                          /\ intents'[c].status = "queued" => intents[c].status = "queued"
  BY <1>1 DEF Moves, Recorded
<1>7. \A c \in Recorded' : intents'[c].status # "retry"
  BY <1>2, <1>6 DEF Senders
<1>8. ASSUME NEW c \in Recorded', intents'[c].status = "queued"
      PROVE  Sent(c)' = FALSE /\ \A s \in Actors : AtPost(s)' => at'[s].cur # c
  <2>1. ~Sent(c) /\ \A s \in Actors : AtPost(s) => at[s].cur # c
    BY <1>2, <1>6, <1>8 DEF Senders
  <2> QED
    BY <1>3, <1>4, <2>1
<1>9. \A s \in Actors : at'[s].pc = "post" => ~Sent(at'[s].cur)
  BY <1>3, <1>5 DEF Senders
<1>10. \A s \in Actors : at'[s].pc = "post" => ~Sent(at[s].cur)'
  BY <1>1, <1>9 DEF Sent
<1>11. \A s, t \in Actors : AtPost(s)' /\ AtPost(t)' /\ s # t => at'[s].cur # at'[t].cur
  BY <1>4 DEF Senders
<1> QED
  BY <1>7, <1>8, <1>10, <1>11 DEF Senders

\* A steady step keeps the invariant when it keeps what is said of senders,
LEMMA SteadyInv ==
    ASSUME CrsInv, Steadily,
           Senders /\ NothingLost' /\ ~(crsFaults'["lost"] < crsFaults["lost"]) => Senders'
    PROVE  CrsInv'
<1> USE DEF CrsInv
<1>1. /\ UNCHANGED <<nextRes, revs, faults>>
      /\ crsFaults'["lost"] <= crsFaults["lost"]
      /\ crsFaults \in [CrsFaultKinds -> Nat] /\ crsFaults' \in [CrsFaultKinds -> Nat]
      /\ \A i \in ResIds : Shows(i)
  BY DEF Steadily, Typed, CrsTypeOK
<1>2. CrsTypeOK' /\ LiveIsDurable'
  BY SteadyTypes
<1>3. crsFaults["lost"] \in Nat /\ crsFaults'["lost"] \in Nat /\ MaxCrsFaults["lost"] \in Nat
  BY <1>1, CrsConstantsAssumption DEF CrsFaultKinds
<1>4. Bounded'
  <2>1. crsFaults'["lost"] <= MaxCrsFaults["lost"]
    BY <1>1, <1>3 DEF Bounded
  <2>2. \A i \in Held' : i \in Held
    BY <1>1, ShownFields DEF Held
  <2> QED
    BY <1>1, <2>1, <2>2 DEF Bounded
<1>5. RevsOK'
  BY <1>1 DEF RevsOK, Booked
<1>6. NeverRestarted' => Kept'
  BY <1>1, SteadyKept DEF NeverRestarted
<1>7. NothingLost' => Senders' /\ SentOnce' /\ OneEachBooking'
  <2> SUFFICES ASSUME NothingLost'
               PROVE  Senders' /\ SentOnce' /\ OneEachBooking'
    OBVIOUS
  <2>1. NothingLost /\ ~(crsFaults'["lost"] < crsFaults["lost"])
    BY <1>1, <1>3 DEF NothingLost, NeverRestarted, Bounded
  <2>2. Kept
    BY <2>1 DEF NothingLost
  <2>3. Senders'
    BY <2>1
  <2>4. OneEachBooking'
    BY <1>1, <2>1, <2>2, SteadyOneEach
  <2>5. SentOnce'
    BY <1>1, <2>1 DEF SentOnce
  <2> QED
    BY <2>3, <2>4, <2>5
<1> QED
  BY <1>2, <1>4, <1>5, <1>6, <1>7

\* which a quiet one does.
LEMMA QuietInv ==
    ASSUME CrsInv, Quietly
    PROVE  CrsInv'
BY QuietSenders, SteadyInv DEF CrsInv, Quietly

-----------------------------------------------------------------------------
(* The parts of a quiet step.                                              *)

ResFits == res' \in [ResIds -> Reservation \cup {NoRes}] /\ \A i \in ResIds : Shows(i)
IntentsFit == intents' \in [ResIds -> Intent \cup {NoIntent}] /\ \A c \in ResIds : Moves(c)
RowsFit ==
    /\ rows' \in [ResIds -> Row \cup {NoIntent}]
    /\ \A c \in ResIds : rows[c] # NoIntent => rows'[c] # NoIntent
ActorsFit ==
    at' \in [Actors -> ActorState] /\ SendsNothing /\ \A s \in Actors : Goes(s)
FaultsFit == crsFaults' \in [CrsFaultKinds -> Nat] /\ crsFaults'["lost"] <= crsFaults["lost"]

LEMMA QuietlyOf ==
    ASSUME CrsTypeOK, ResFits, IntentsFit, RowsFit, ActorsFit, FaultsFit,
           NoNewRes, UNCHANGED <<revs, replies>>
    PROVE  Quietly
<1>1. TypeOK'
  BY DEF ResFits, NoNewRes, Quiet, CrsTypeOK, TypeOK, jobs
<1> QED
  BY <1>1 DEF ResFits, IntentsFit, RowsFit, ActorsFit, FaultsFit, NoNewRes, Quiet,
              Quietly, Steadily, Typed

LEMMA Unmoved ==
    ASSUME CrsTypeOK
    PROVE  /\ res' = res => ResFits
           /\ intents' = intents => IntentsFit
           /\ rows' = rows => RowsFit
           /\ at' = at => ActorsFit
           /\ crsFaults' = crsFaults => FaultsFit
<1>1. crsFaults["lost"] \in Nat
  BY DEF CrsTypeOK, CrsFaultKinds
<1>2. res' = res => ResFits
  BY DEF CrsTypeOK, TypeOK, ResFits, Shows
<1>3. intents' = intents => IntentsFit
  BY DEF CrsTypeOK, IntentsFit, Moves
<1>4. rows' = rows => RowsFit
  BY DEF CrsTypeOK, RowsFit
<1>5. at' = at => ActorsFit
  BY DEF CrsTypeOK, ActorsFit, Goes, SendsNothing
<1>6. crsFaults' = crsFaults => FaultsFit
  BY <1>1 DEF CrsTypeOK, FaultsFit
<1> QED
  BY <1>2, <1>3, <1>4, <1>5, <1>6

LEMMA FaultFits ==
    ASSUME CrsTypeOK, NEW k \in CrsFaultKinds, CanCrsFault(k), CrsFault(k)
    PROVE  FaultsFit /\ (k = "lost" => crsFaults'["lost"] < crsFaults["lost"])
BY DEF CrsTypeOK, CanCrsFault, CrsFault, CrsFaultKinds, FaultsFit

LEMMA Recordeds ==
    ASSUME CrsTypeOK, NEW c \in Recorded
    PROVE  c \in ResIds /\ c \in Codes /\ c # 0 /\ intents[c] \in Intent
BY ConstantsAssumption DEF CrsTypeOK, Recorded, ResIds, Codes

\* Who goes, and nobody else.
LEMMA Went ==
    ASSUME CrsTypeOK, NEW s \in Actors, NEW new, Fits(new), Go(s, new),
           new.booking = 0 \/ (new.booking = at[s].booking /\ new.cur = at[s].cur),
           new.pc \notin {"insert", "post", "posted"},
           at[s].pc = "insert" => \/ rows'[at[s].cur] # NoIntent
                                  \/ ~intents'[at[s].cur].live
    PROVE  ActorsFit
BY DEF CrsTypeOK, Go, ActorsFit, Goes, Fits, SendsNothing

LEMMA IdleFits == CrsTypeOK => Fits(Idle)
BY ConstantsAssumption DEF Fits, Idle, ActorState, Pcs, Codes, BookingIds

\* The reservation object as it is shown.
LEMMA ShownFits ==
    ASSUME CrsTypeOK, NEW c \in ResIds, NEW b \in BookingIds,
           NEW st \in {"pending_sync", "confirmed"},
           b = 0 \/ MayBe(b, c),
           st = "confirmed" => c \in Recorded /\ intents[c].status = "reconciled",
           res' = Shown(c, b, st)
    PROVE  ResFits
<1>1. CASE res[c] = NoRes
  BY <1>1, Unmoved DEF Shown
<1>2. CASE res[c] # NoRes
  <2> DEFINE d == IF b = 0 THEN res[c].booking ELSE b
             new == [res[c] EXCEPT !.booking = d, !.status = st]
  <2>1. res[c] \in Reservation /\ res \in [ResIds -> Reservation \cup {NoRes}]
    BY <1>2 DEF CrsTypeOK, TypeOK
  <2>2. d \in BookingIds /\ MayBe(d, c) /\ (d = 0 => res[c].booking = 0)
    BY <2>1 DEF Reservation, MayBe
  <2>3. res' = [res EXCEPT ![c] = new]
    BY <1>2, <2>1 DEF Shown
  <2> HIDE DEF d
  <2>4. new \in Reservation
    BY <2>1, <2>2 DEF Reservation, Statuses
  <2>5. Shows(c)
    BY <1>2, <2>1, <2>2, <2>3 DEF Shows
  <2> HIDE DEF new
  <2>6. \A i \in ResIds : i # c => res'[i] = res[i]
    BY <2>1, <2>3
  <2>7. res' \in [ResIds -> Reservation \cup {NoRes}]
    BY <2>1, <2>3, <2>4
  <2> QED
    BY <2>5, <2>6, <2>7 DEF ResFits, Shows
<1> QED
  BY <1>1, <1>2

\* The reservation's and the intent's booking.
LEMMA Bookings ==
    ASSUME CrsTypeOK, NEW c \in Recorded
    PROVE  /\ intents[c].booking \in BookingIds /\ ResBooking(c) \in BookingIds
           /\ MayBe(intents[c].booking, c)
           /\ ResBooking(c) # 0 => MayBe(ResBooking(c), c)
           /\ AcceptedStatus(c) \in {"pending_sync", "confirmed"}
           /\ AcceptedStatus(c) = "confirmed" => intents[c].status = "reconciled"
<1>1. c \in ResIds /\ intents[c] \in Intent /\ (res[c] # NoRes => res[c] \in Reservation)
  BY Recordeds DEF CrsTypeOK, TypeOK
<1> QED
  BY <1>1, ConstantsAssumption DEF ResBooking, MayBe, AcceptedStatus, Intent, Reservation, BookingIds

\* One intent moves.
LEMMA IntentFits ==
    ASSUME CrsTypeOK, NEW c \in Recorded, NEW new \in Intent,
           intents' = [intents EXCEPT ![c] = new],
           new.live => intents[c].live,
           new.status \in {"queued", "reconciled"} => new.status = intents[c].status,
           new.status = "retry" => crsFaults'["lost"] < crsFaults["lost"],
           \/ new.booking = intents[c].booking
           \/ \E s \in Actors : at[s].cur = c /\ new.booking = at[s].booking
    PROVE  IntentsFit
<1>1. c \in ResIds /\ intents \in [ResIds -> Intent \cup {NoIntent}]
  BY Recordeds DEF CrsTypeOK
<1>2. intents'[c] = new /\ \A i \in ResIds : i # c => intents'[i] = intents[i]
  BY <1>1
<1>3. Moves(c)
  BY <1>2 DEF Moves
<1> QED
  BY <1>1, <1>2, <1>3 DEF IntentsFit, Moves

-----------------------------------------------------------------------------
(* The quiet steps.                                                        *)

\* The write-back shows what Channex has accepted, or goes on to the client.
LEMMA WriteBackFits ==
    ASSUME CrsTypeOK, NEW s \in Actors, NEW c \in Recorded, WriteBack(s, c),
           at[s].pc = "insert" => \/ rows'[at[s].cur] # NoIntent
                                  \/ ~intents'[at[s].cur].live
    PROVE  ResFits /\ ActorsFit
<1>1. c \in ResIds /\ c \in Codes /\ c # 0
  BY Recordeds
<1>2. CASE intents[c].status \in SKIP_POST
  <2> DEFINE b == First(ResBooking(c), intents[c].booking)
             st == IF b = 0 THEN "pending_sync" ELSE AcceptedStatus(c)
  <2>1. res' = Shown(c, b, st) /\ Go(s, Idle)
    BY <1>2 DEF WriteBack
  <2>2. b \in BookingIds /\ MayBe(b, c)
    BY Bookings DEF First
  <2>3. st \in {"pending_sync", "confirmed"} /\ (st = "confirmed" => intents[c].status = "reconciled")
    BY Bookings
  <2> HIDE DEF b, st
  <2>4. ResFits
    BY <1>1, <2>1, <2>2, <2>3, ShownFits
  <2>5. ActorsFit
    BY <2>1, IdleFits, Went DEF Idle
  <2> QED
    BY <2>4, <2>5
<1>3. CASE intents[c].status \notin SKIP_POST
  <2> DEFINE new == [Idle EXCEPT !.pc = "client", !.cur = c]
  <2>1. res' = res /\ Go(s, new)
    BY <1>3 DEF WriteBack
  <2>2. new.pc = "client" /\ new.cur = c /\ new.booking = 0 /\ new.todo = {}
    BY DEF Idle
  <2>3. new \in ActorState
    BY <1>1, IdleFits DEF Fits, ActorState, Pcs
  <2> HIDE DEF new
  <2>4. Fits(new) /\ new.booking = 0 /\ new.pc = "client"
    BY <1>1, <2>2, <2>3 DEF Fits
  <2> QED
    BY <2>1, <2>4, Went, Unmoved
<1> QED
  BY <1>2, <1>3

LEMMA BookAgainQuiet ==
    ASSUME CrsTypeOK, NEW s \in Clients, NEW q \in Requests, BookAgain(s, q)
    PROVE  Quietly
<1> DEFINE c == replies[q]
<1>1. /\ at[s].pc = "idle" /\ c # 0 /\ WriteBack(s, c)
      /\ UNCHANGED <<intents, rows, replies, revs, crsFaults>> /\ NoNewRes
  BY DEF BookAgain
<1>2. c \in Recorded /\ s \in Actors
  BY <1>1 DEF CrsTypeOK, Actors
<1> HIDE DEF c
<1>3. ResFits /\ ActorsFit
  BY <1>1, <1>2, WriteBackFits
<1> QED
  BY <1>1, <1>3, Unmoved, QuietlyOf

LEMMA InsertedFits ==
    ASSUME CrsTypeOK, NEW s \in Actors, at[s].pc = "insert",
           rows' = Inserted(at[s].cur, at[s].row)
    PROVE  RowsFit /\ rows'[at[s].cur] # NoIntent
<1>1. at[s].cur \in ResIds /\ at[s].row \in Row
  BY Recordeds DEF CrsTypeOK, Fits
<1>2. rows \in [ResIds -> Row \cup {NoIntent}] /\ NoIntent \notin Row
  BY NoIntentAssumption DEF CrsTypeOK
<1> QED
  BY <1>1, <1>2 DEF Inserted, RowsFit

LEMMA UpdatedFits ==
    ASSUME CrsTypeOK, NEW s \in Actors, at[s].pc = "save", rows' = Updated(s)
    PROVE  RowsFit
<1>1. at[s].cur \in ResIds /\ at[s].row \in Row
  BY Recordeds DEF CrsTypeOK, Fits
<1>2. rows \in [ResIds -> Row \cup {NoIntent}] /\ NoIntent \notin Row
  BY NoIntentAssumption DEF CrsTypeOK
<1> QED
  BY <1>1, <1>2 DEF Updated, RowsFit

LEMMA InsertOkQuiet ==
    ASSUME CrsTypeOK, NEW s \in Clients, InsertOk(s)
    PROVE  Quietly
<1> DEFINE c == at[s].cur
<1>1. /\ at[s].pc = "insert" /\ WriteBack(s, c) /\ rows' = Inserted(c, at[s].row)
      /\ UNCHANGED <<intents, replies, revs, crsFaults>> /\ NoNewRes
  BY DEF InsertOk, Inserting
<1>2. s \in Actors
  BY DEF Actors
<1>3. c \in Recorded
  BY <1>1, <1>2 DEF CrsTypeOK, Fits
<1>4. RowsFit /\ rows'[c] # NoIntent
  BY <1>1, <1>2, InsertedFits
<1>5. ResFits /\ ActorsFit
  BY <1>1, <1>2, <1>3, <1>4, WriteBackFits
<1> QED
  BY <1>1, <1>4, <1>5, Unmoved, QuietlyOf

\* The rollback: the row may be there, the intent is not.
LEMMA InsertFailsQuiet ==
    ASSUME CrsTypeOK, NEW s \in Clients, InsertFails(s)
    PROVE  Quietly
<1> DEFINE c == at[s].cur
           new == [intents[c] EXCEPT !.live = FALSE]
<1>1. /\ at[s].pc = "insert" /\ CanCrsFault("db") /\ CrsFault("db")
      /\ rows' = rows \/ rows' = Inserted(c, at[s].row)
      /\ intents' = [intents EXCEPT ![c].live = FALSE]
      /\ res' = [res EXCEPT ![c] = NoRes]
      /\ Go(s, Idle)
      /\ UNCHANGED <<replies, revs>> /\ NoNewRes
  BY DEF InsertFails, Inserting
<1>2. s \in Actors /\ "db" \in CrsFaultKinds
  BY DEF Actors, CrsFaultKinds
<1>3. c \in Recorded
  BY <1>1, <1>2 DEF CrsTypeOK, Fits
<1>4. c \in ResIds /\ intents[c] \in Intent
  BY <1>3, Recordeds
<1>5. /\ new \in Intent /\ ~new.live /\ new.status = intents[c].status
      /\ new.booking = intents[c].booking
  BY <1>4 DEF Intent
<1>6. intents' = [intents EXCEPT ![c] = new]
  BY <1>1
<1>8. res' \in [ResIds -> Reservation \cup {NoRes}] /\ \A i \in ResIds : res'[i] \in {res[i], NoRes}
  BY <1>1, <1>4 DEF CrsTypeOK, TypeOK
<1>9. ResFits
  BY <1>8 DEF ResFits, Shows
<1>10. /\ intents \in [ResIds -> Intent \cup {NoIntent}]
       /\ intents'[c] = new /\ \A i \in ResIds : i # c => intents'[i] = intents[i]
  BY <1>4, <1>6 DEF CrsTypeOK
<1>11. IntentsFit
  <2>1. Moves(c)
    BY <1>3, <1>5, <1>10 DEF Moves
  <2>2. intents' \in [ResIds -> Intent \cup {NoIntent}]
    BY <1>5, <1>6, <1>10
  <2> QED
    BY <1>10, <2>1, <2>2, ZenonT(40) DEF IntentsFit, Moves
<1>12. RowsFit
  BY <1>1, <1>2, InsertedFits, Unmoved
<1>13. ActorsFit
  BY <1>1, <1>2, <1>5, <1>10, IdleFits, Went DEF Idle
<1>14. FaultsFit
  BY <1>1, <1>2, FaultFits
<1> QED
  BY <1>1, <1>9, <1>11, <1>12, <1>13, <1>14, QuietlyOf

\* The client finds nothing to send.
LEMMA ClientAnswersQuiet ==
    ASSUME CrsTypeOK, NEW s \in Clients, ClientReady(s), ~Sendable(at[s].cur)
    PROVE  Quietly
<1> DEFINE c == at[s].cur
           booking == First(intents[c].booking, ResBooking(c))
           b == IF intents[c].status \in SKIP_POST THEN booking ELSE 0
           st == IF intents[c].status \in SKIP_POST /\ booking # 0
                 THEN AcceptedStatus(c) ELSE "pending_sync"
<1>1. /\ at[s].pc = "client" /\ res' = Shown(c, b, st) /\ Go(s, Idle)
      /\ UNCHANGED <<intents, rows, replies, revs, crsFaults>> /\ NoNewRes
  BY DEF ClientReady
<1>2. s \in Actors
  BY DEF Actors
<1>3. c \in Recorded
  BY <1>1, <1>2 DEF CrsTypeOK, Fits
<1>4. c \in ResIds
  BY <1>3, Recordeds
<1>5. booking \in BookingIds /\ (booking = 0 \/ MayBe(booking, c))
  BY <1>3, Bookings DEF First
<1>6. 0 \in BookingIds
  BY ConstantsAssumption DEF BookingIds
<1>7. b \in BookingIds /\ (b = 0 \/ MayBe(b, c))
  BY <1>5, <1>6
<1>8. st \in {"pending_sync", "confirmed"} /\ (st = "confirmed" => intents[c].status = "reconciled")
  BY <1>3, Bookings
<1> HIDE DEF b, st, c
<1>9. ResFits
  BY <1>1, <1>3, <1>4, <1>7, <1>8, ShownFits
<1>10. ActorsFit
  BY <1>1, <1>2, IdleFits, Went DEF Idle
<1> QED
  BY <1>1, <1>9, <1>10, Unmoved, QuietlyOf

\* The reservation is shown as it was asked for.
LEMMA PendingFits ==
    ASSUME CrsTypeOK, NEW c \in ResIds, res' = Shown(c, 0, "pending_sync")
    PROVE  ResFits
BY ShownFits, ConstantsAssumption DEF BookingIds

LEMMA ClientFailsQuiet ==
    ASSUME CrsTypeOK, NEW s \in Clients, ClientFails(s)
    PROVE  Quietly
<1>1. /\ at[s].pc = "client" /\ CanCrsFault("scope") /\ CrsFault("scope")
      /\ res' = Shown(at[s].cur, 0, "pending_sync") /\ Go(s, Idle)
      /\ UNCHANGED <<intents, rows, replies, revs>> /\ NoNewRes
  BY DEF ClientFails
<1>2. s \in Actors /\ "scope" \in CrsFaultKinds
  BY DEF Actors, CrsFaultKinds
<1>3. at[s].cur \in ResIds
  BY <1>1, <1>2, Recordeds DEF CrsTypeOK, Fits
<1>4. ResFits
  BY <1>1, <1>3, PendingFits
<1>5. ActorsFit
  BY <1>1, <1>2, IdleFits, Went DEF Idle
<1>6. FaultsFit
  BY <1>1, <1>2, FaultFits
<1> QED
  BY <1>1, <1>4, <1>5, <1>6, Unmoved, QuietlyOf

LEMMA RowOfType ==
    ASSUME NEW i \in Intent
    PROVE  RowOf(i) \in Row
BY DEF RowOf, Row, Intent

\* Who is at a POST works on an intent there is.
LEMMA AtWork ==
    ASSUME CrsTypeOK, NEW s \in Actors,
           at[s].pc \in {"insert", "client", "post", "posted", "save"}
    PROVE  /\ at[s].cur \in Recorded /\ at[s].cur \in ResIds /\ intents[at[s].cur] \in Intent
           /\ at[s] \in ActorState /\ at[s].booking \in BookingIds
           /\ MayBe(at[s].booking, at[s].cur)
<1>1. at[s].cur \in Recorded /\ at[s] \in ActorState
  BY DEF CrsTypeOK, Fits
<1> QED
  BY <1>1, Recordeds DEF ActorState, MayBe

\* A drain goes on with its list.
LEMMA SweepFits ==
    ASSUME CrsTypeOK, NEW s \in Actors, at[s].pc \in {"post", "posted"},
           Go(s, [at[s] EXCEPT !.pc = "sweep", !.booking = 0])
    PROVE  ActorsFit
<1> DEFINE new == [at[s] EXCEPT !.pc = "sweep", !.booking = 0]
<1>1. at[s] \in ActorState /\ Fits(at[s]) /\ 0 \in BookingIds
  BY ConstantsAssumption DEF CrsTypeOK, BookingIds
<1>2. new \in ActorState /\ new.pc = "sweep" /\ new.booking = 0 /\ new.todo = at[s].todo
  BY <1>1 DEF ActorState, Pcs
<1> HIDE DEF new
<1>3. Fits(new)
  BY <1>1, <1>2 DEF Fits
<1>4. Go(s, new)
  BY DEF new
<1> QED
  BY <1>2, <1>3, <1>4, Went

LEMMA PostOkQuiet ==
    ASSUME CrsTypeOK, NEW s \in Actors, PostOk(s)
    PROVE  Quietly
<1> DEFINE c == at[s].cur
           accepted == [intents[c] EXCEPT !.status = "accepted", !.booking = at[s].booking]
           saving == [at[s] EXCEPT !.pc = "save", !.row = RowOf(accepted)]
<1>1. /\ at[s].pc = "posted"
      /\ intents' = [intents EXCEPT ![c] = accepted]
      /\ res' = Shown(c, at[s].booking, "pending_sync")
      /\ Go(s, IF s \in Drains THEN [at[s] EXCEPT !.pc = "sweep", !.booking = 0] ELSE saving)
      /\ UNCHANGED <<rows, replies, revs, crsFaults>> /\ NoNewRes
  BY DEF PostOk
<1>2. /\ c \in Recorded /\ c \in ResIds /\ intents[c] \in Intent /\ at[s] \in ActorState
      /\ at[s].booking \in BookingIds /\ MayBe(at[s].booking, c)
  BY <1>1, AtWork
<1>3. /\ accepted \in Intent /\ accepted.status = "accepted"
      /\ accepted.booking = at[s].booking /\ accepted.live = intents[c].live
  BY <1>2 DEF Intent, IntentStatuses
<1> HIDE DEF accepted
<1>4. RowOf(accepted) \in Row
  BY <1>3, RowOfType
<1>5. ResFits
  BY <1>1, <1>2, ShownFits
<1>6. IntentsFit
  BY <1>1, <1>2, <1>3, IntentFits
<1>7. /\ saving \in ActorState /\ saving.pc = "save" /\ saving.booking = at[s].booking
      /\ saving.cur = c /\ saving.row \in Row /\ saving.todo = at[s].todo
  BY <1>2, <1>4 DEF ActorState, Pcs
<1>8. Fits(saving)
  BY <1>2, <1>7 DEF Fits, CrsTypeOK
<1> HIDE DEF saving
<1>9. ActorsFit
  <2>1. CASE s \in Drains
    BY <1>1, <2>1, SweepFits
  <2>2. CASE s \notin Drains
    BY <1>1, <1>7, <1>8, <2>2, Went
  <2> QED
    BY <2>1, <2>2
<1> QED
  BY <1>1, <1>5, <1>6, <1>9, Unmoved, QuietlyOf

LEMMA NotSentFits ==
    ASSUME CrsTypeOK, NEW s \in Actors, at[s].pc \in {"post", "posted"}, NotSent(s)
    PROVE  ResFits /\ ActorsFit
<1>1. CASE s \in Drains
  <2>1. res' = res /\ Go(s, [at[s] EXCEPT !.pc = "sweep", !.booking = 0])
    BY <1>1 DEF NotSent
  <2> QED
    BY <2>1, SweepFits, Unmoved
<1>2. CASE s \notin Drains
  <2>1. res' = Shown(at[s].cur, 0, "pending_sync") /\ Go(s, Idle)
    BY <1>2 DEF NotSent
  <2>2. at[s].cur \in ResIds
    BY AtWork
  <2>3. ResFits
    BY <2>1, <2>2, PendingFits
  <2>4. ActorsFit
    BY <2>1, IdleFits, Went DEF Idle
  <2> QED
    BY <2>3, <2>4
<1> QED
  BY <1>1, <1>2

LEMMA PostUnknownQuiet ==
    ASSUME CrsTypeOK, NEW s \in Actors, PostUnknown(s)
    PROVE  Quietly
<1> DEFINE c == at[s].cur
           new == ToRetry(intents[c])
<1>1. /\ at[s].pc \in {"post", "posted"} /\ CanCrsFault("lost") /\ CrsFault("lost")
      /\ intents' = [intents EXCEPT ![c] = new]
      /\ NotSent(s)
  BY DEF PostUnknown
<1>2. UNCHANGED <<rows, replies, revs>> /\ NoNewRes
  BY <1>1 DEF NotSent
<1>3. c \in Recorded /\ intents[c] \in Intent /\ "lost" \in CrsFaultKinds
  BY <1>1, AtWork DEF CrsFaultKinds
<1>4. FaultsFit /\ crsFaults'["lost"] < crsFaults["lost"]
  BY <1>1, <1>3, FaultFits
<1>5. /\ new \in Intent /\ new.status = "retry"
      /\ new.booking = intents[c].booking /\ new.live = intents[c].live
  BY <1>3 DEF ToRetry, Intent, IntentStatuses
<1> HIDE DEF new
<1>6. IntentsFit
  BY <1>1, <1>3, <1>4, <1>5, IntentFits
<1>7. ResFits /\ ActorsFit
  BY <1>1, NotSentFits
<1> QED
  BY <1>2, <1>4, <1>6, <1>7, Unmoved, QuietlyOf

LEMMA PostRefusedQuiet ==
    ASSUME CrsTypeOK, NEW s \in Actors, PostRefused(s)
    PROVE  Quietly
<1> DEFINE c == at[s].cur
           new == [intents[c] EXCEPT !.status = "failed"]
<1>1. /\ at[s].pc = "post" /\ NotSent(s) /\ UNCHANGED crsFaults
      /\ intents' = [intents EXCEPT ![c] = new]
  BY DEF PostRefused
<1>2. UNCHANGED <<rows, replies, revs>> /\ NoNewRes
  BY <1>1 DEF NotSent
<1>3. c \in Recorded /\ intents[c] \in Intent
  BY <1>1, AtWork
<1>4. /\ new \in Intent /\ new.status = "failed"
      /\ new.booking = intents[c].booking /\ new.live = intents[c].live
  BY <1>3 DEF Intent, IntentStatuses
<1> HIDE DEF new
<1>5. IntentsFit
  BY <1>1, <1>3, <1>4, IntentFits
<1>6. ResFits /\ ActorsFit
  BY <1>1, NotSentFits
<1> QED
  BY <1>1, <1>2, <1>5, <1>6, Unmoved, QuietlyOf

LEMMA ClientSavedQuiet ==
    ASSUME CrsTypeOK, NEW s \in Clients, ClientSaved(s)
    PROVE  Quietly
<1>1. /\ at[s].pc = "save"
      /\ res' = Shown(at[s].cur, at[s].booking, "pending_sync")
      /\ Go(s, Idle)
      /\ UNCHANGED <<intents, replies, revs>> /\ NoNewRes
      /\ rows' = rows \/ rows' = Updated(s)
      /\ crsFaults' = crsFaults \/ (CanCrsFault("db") /\ CrsFault("db"))
  BY DEF ClientSaved
<1>2. s \in Actors /\ "db" \in CrsFaultKinds
  BY DEF Actors, CrsFaultKinds
<1>3. /\ at[s].cur \in ResIds /\ at[s].booking \in BookingIds
      /\ MayBe(at[s].booking, at[s].cur)
  BY <1>1, <1>2, AtWork
<1>4. ResFits
  BY <1>1, <1>3, ShownFits
<1>5. ActorsFit
  BY <1>1, <1>2, IdleFits, Went DEF Idle
<1>6. RowsFit
  BY <1>1, <1>2, UpdatedFits, Unmoved
<1>7. FaultsFit
  BY <1>1, <1>2, FaultFits, Unmoved
<1> QED
  BY <1>1, <1>4, <1>5, <1>6, <1>7, Unmoved, QuietlyOf

LEMMA BackoffQuiet ==
    ASSUME CrsTypeOK, NEW c \in ResIds, BackoffExpires(c)
    PROVE  Quietly
<1> DEFINE new == [intents[c] EXCEPT !.backoff = FALSE]
<1>1. /\ intents[c] # NoIntent /\ intents' = [intents EXCEPT ![c] = new]
      /\ UNCHANGED <<vars, rows, replies, at, crsFaults>>
  BY DEF BackoffExpires
<1>2. c \in Recorded /\ intents[c] \in Intent
  BY <1>1 DEF Recorded, CrsTypeOK
<1>3. /\ new \in Intent /\ new.status = intents[c].status
      /\ new.booking = intents[c].booking /\ new.live = intents[c].live
  BY <1>2 DEF Intent
<1> HIDE DEF new
<1>4. /\ intents \in [ResIds -> Intent \cup {NoIntent}]
      /\ intents'[c] = new /\ \A i \in ResIds : i # c => intents'[i] = intents[i]
  BY <1>1 DEF CrsTypeOK
<1>5. Moves(c)
  BY <1>2, <1>3, <1>4 DEF Moves
<1>6. intents' \in [ResIds -> Intent \cup {NoIntent}]
  BY <1>1, <1>3, <1>4
<1>7. IntentsFit
  BY <1>4, <1>5, <1>6 DEF IntentsFit, Moves
<1>8. NoNewRes /\ UNCHANGED <<res, rows, revs, replies, at, crsFaults>>
  BY <1>1 DEF vars, local, jobs, NoNewRes, Quiet
<1> QED
  BY <1>7, <1>8, Unmoved, QuietlyOf

LEMMA LiveRecorded == Live \subseteq Recorded
BY DEF Live, Recorded

LEMMA DrainStartQuiet ==
    ASSUME CrsTypeOK, NEW d \in Drains, DrainStart(d)
    PROVE  Quietly
<1> DEFINE new == [Idle EXCEPT !.pc = "sweep", !.todo = Live]
<1>1. /\ at[d].pc = "idle" /\ Go(d, new)
      /\ UNCHANGED <<res, intents, rows, replies, revs, crsFaults>> /\ NoNewRes
  BY DEF DrainStart
<1>2. d \in Actors
  BY DEF Actors
<1>3. Live \subseteq Recorded /\ Live \in SUBSET ResIds
  BY DEF Live, Recorded
<1>4. new.pc = "sweep" /\ new.booking = 0 /\ new.todo = Live
  BY DEF Idle
<1>5. new \in ActorState
  BY <1>3, IdleFits DEF Fits, ActorState, Pcs
<1> HIDE DEF new
<1>6. Fits(new)
  BY <1>3, <1>4, <1>5 DEF Fits
<1>7. ActorsFit
  BY <1>1, <1>2, <1>4, <1>6, Went
<1> QED
  BY <1>1, <1>7, Unmoved, QuietlyOf

\* What Channex has accepted among the intents passed is shown.
LEMMA ResumedFits ==
    ASSUME CrsTypeOK, NEW S, S \subseteq Recorded, res' = Resumed(S)
    PROVE  ResFits
<1> DEFINE b(c) == First(intents[c].booking, res[c].booking)
           new(c) == [res[c] EXCEPT !.booking = b(c), !.status = AcceptedStatus(c)]
           shown(c) == /\ c \in S /\ res[c] # NoRes /\ intents[c].status \in SKIP_POST
                       /\ First(intents[c].booking, ResBooking(c)) # 0
<1>1. res' = [c \in ResIds |-> IF shown(c) THEN new(c) ELSE res[c]]
  BY DEF Resumed
<1>2. ASSUME NEW c \in ResIds, shown(c)
      PROVE  /\ new(c) \in Reservation
             /\ b(c) \in BookingIds /\ MayBe(b(c), c) /\ b(c) # 0
             /\ AcceptedStatus(c) \in {"pending_sync", "confirmed"}
             /\ AcceptedStatus(c) = "confirmed" =>
                    c \in Recorded /\ intents[c].status = "reconciled"
  <2>1. c \in Recorded /\ res[c] # NoRes /\ First(intents[c].booking, ResBooking(c)) # 0
    BY <1>2
  <2>2. res[c] \in Reservation
    BY <2>1 DEF CrsTypeOK, TypeOK
  <2>3. ResBooking(c) = res[c].booking
    BY <2>1 DEF ResBooking
  <2>4. b(c) \in BookingIds /\ MayBe(b(c), c) /\ b(c) # 0
    BY <2>1, <2>3, Bookings DEF First
  <2>5. /\ AcceptedStatus(c) \in {"pending_sync", "confirmed"}
        /\ AcceptedStatus(c) = "confirmed" => intents[c].status = "reconciled"
    BY <2>1, Bookings
  <2> HIDE DEF b
  <2>6. new(c) \in Reservation
    BY <2>2, <2>4, <2>5 DEF Reservation, Statuses
  <2> QED
    BY <2>1, <2>4, <2>5, <2>6
<1>3. ASSUME NEW c \in ResIds
      PROVE  Shows(c)
  <2>1. CASE shown(c)
    <3>1. res'[c] = new(c) /\ res[c] # NoRes
      BY <1>1, <2>1
    <3> QED
      BY <1>2, <2>1, <3>1 DEF Shows
  <2>2. CASE ~shown(c)
    <3>1. res'[c] = res[c]
      BY <1>1, <2>2
    <3> QED
      BY <3>1 DEF Shows
  <2> QED
    BY <2>1, <2>2
<1> HIDE DEF new, shown
<1>4. res' \in [ResIds -> Reservation \cup {NoRes}]
  BY <1>1, <1>2 DEF CrsTypeOK, TypeOK
<1> QED
  BY <1>3, <1>4 DEF ResFits

\* The next row to write, of the intents there are.
LEMMA SaveNextFits ==
    ASSUME CrsTypeOK, NEW todo, todo \subseteq Recorded,
           NEW record, \A c \in todo : record[c] \in Intent
    PROVE  /\ Fits(SaveNext(todo, record)) /\ SaveNext(todo, record).booking = 0
           /\ SaveNext(todo, record).pc \in {"idle", "save"}
<1>1. CASE todo = {}
  BY <1>1, IdleFits DEF SaveNext, Idle
<1>2. CASE todo # {}
  <2> DEFINE c == SetMin(todo)
             rest == todo \ {c}
             row == RowOf(record[c])
             new == [Idle EXCEPT !.pc = "save", !.cur = c, !.todo = rest, !.row = row]
  <2>1. todo \subseteq Nat
    BY ConstantsAssumption DEF Recorded, ResIds
  <2>2. c \in todo
    BY <1>2, <2>1, SetMinIn
  <2>3. c \in Recorded /\ c \in Codes /\ row \in Row
    BY <2>2, Recordeds, RowOfType
  <2>4. rest \subseteq Recorded /\ rest \in SUBSET ResIds
    BY DEF Recorded
  <2>5. SaveNext(todo, record) = new
    BY <1>2 DEF SaveNext
  <2> HIDE DEF c, rest, row
  <2>6. /\ new.pc = "save" /\ new.cur = c /\ new.booking = 0 /\ new.todo = rest
        /\ new.row = row
    BY DEF Idle
  <2>7. new \in ActorState
    BY <2>3, <2>4, IdleFits DEF Fits, ActorState, Pcs
  <2> HIDE DEF new
  <2>8. Fits(new)
    BY <2>3, <2>4, <2>6, <2>7 DEF Fits
  <2> QED
    BY <2>5, <2>6, <2>8
<1> QED
  BY <1>1, <1>2

LEMMA SweepEndsQuiet ==
    ASSUME CrsTypeOK, NEW d \in Drains, SweepEnds(d)
    PROVE  Quietly
<1> DEFINE failing == {c \in at[d].todo : Sendable(c)}
           new(c) == [intents[c] EXCEPT !.status = "failed"]
<1>1. /\ at[d].pc = "sweep"
      /\ res' = Resumed(at[d].todo)
      /\ intents' = [c \in ResIds |-> IF c \in failing THEN new(c) ELSE intents[c]]
      /\ Go(d, SaveNext(Live, intents')) \/ Go(d, Idle)
      /\ UNCHANGED <<rows, replies, revs, crsFaults>> /\ NoNewRes
  BY DEF SweepEnds
<1>2. d \in Actors
  BY DEF Actors
<1>3. at[d].todo \subseteq Recorded
  BY <1>2 DEF CrsTypeOK, Fits
<1>4. ResFits
  BY <1>1, <1>3, ResumedFits
<1>5. ASSUME NEW c \in ResIds
      PROVE  Moves(c) /\ (intents'[c] \in Intent \/ intents'[c] = intents[c])
  <2>1. CASE c \in failing
    <3>1. c \in Recorded /\ intents'[c] = new(c) /\ intents[c] \in Intent
      BY <1>1, <1>3, <2>1, Recordeds
    <3>2. /\ new(c) \in Intent /\ new(c).status = "failed"
          /\ new(c).booking = intents[c].booking /\ new(c).live = intents[c].live
      BY <3>1 DEF Intent, IntentStatuses
    <3> HIDE DEF new
    <3> QED
      BY <3>1, <3>2 DEF Moves
  <2>2. CASE c \notin failing
    BY <1>1, <2>2 DEF Moves
  <2> QED
    BY <2>1, <2>2
<1>6. \A c \in Live : intents'[c] \in Intent
  <2>1. \A c \in Live : c \in ResIds /\ intents[c] \in Intent
    BY LiveRecorded, Recordeds
  <2> QED
    BY <1>5, <2>1
<1>7. IntentsFit
  <2>1. intents' = [c \in ResIds |-> intents'[c]]
    BY <1>1
  <2>2. \A c \in ResIds : intents'[c] \in Intent \cup {NoIntent}
    BY <1>5 DEF CrsTypeOK
  <2> HIDE DEF failing, new
  <2> QED
    BY <1>5, <2>1, <2>2 DEF IntentsFit
<1> HIDE DEF failing, new
<1>8. ActorsFit
  <2>1. CASE Go(d, SaveNext(Live, intents'))
    <3> DEFINE record == intents'
    <3>1. \A c \in Live : record[c] \in Intent
      BY <1>6
    <3> HIDE DEF record
    <3>2. /\ Fits(SaveNext(Live, record)) /\ SaveNext(Live, record).booking = 0
          /\ SaveNext(Live, record).pc \in {"idle", "save"}
      BY <3>1, LiveRecorded, SaveNextFits
    <3>3. Go(d, SaveNext(Live, record))
      BY <2>1 DEF record
    <3> QED
      BY <1>1, <1>2, <3>2, <3>3, Went
  <2>2. CASE Go(d, Idle)
    BY <1>1, <1>2, <2>2, IdleFits, Went DEF Idle
  <2> QED
    BY <1>1, <2>1, <2>2
<1> QED
  BY <1>1, <1>4, <1>7, <1>8, Unmoved, QuietlyOf

LEMMA DrainSavedQuiet ==
    ASSUME CrsTypeOK, NEW d \in Drains, DrainSaved(d)
    PROVE  Quietly
<1>1. /\ at[d].pc = "save" /\ rows' = Updated(d)
      /\ Go(d, SaveNext(at[d].todo, intents))
      /\ UNCHANGED <<res, intents, replies, revs, crsFaults>> /\ NoNewRes
  BY DEF DrainSaved
<1>2. d \in Actors
  BY DEF Actors
<1>3. at[d].todo \subseteq Recorded
  BY <1>2 DEF CrsTypeOK, Fits
<1>4. \A c \in at[d].todo : intents[c] \in Intent
  BY <1>3, Recordeds
<1>5. ActorsFit
  BY <1>1, <1>2, <1>3, <1>4, SaveNextFits, Went
<1> QED
  BY <1>1, <1>2, <1>5, UpdatedFits, Unmoved, QuietlyOf

LEMMA DrainSaveFailsQuiet ==
    ASSUME CrsTypeOK, NEW d \in Drains, DrainSaveFails(d)
    PROVE  Quietly
<1>1. /\ at[d].pc = "save" /\ CanCrsFault("db") /\ CrsFault("db")
      /\ rows' = rows \/ rows' = Updated(d)
      /\ Go(d, Idle)
      /\ UNCHANGED <<res, intents, replies, revs>> /\ NoNewRes
  BY DEF DrainSaveFails
<1>2. d \in Actors /\ "db" \in CrsFaultKinds
  BY DEF Actors, CrsFaultKinds
<1>3. ActorsFit
  BY <1>1, <1>2, IdleFits, Went DEF Idle
<1>4. RowsFit /\ FaultsFit
  BY <1>1, <1>2, UpdatedFits, FaultFits, Unmoved
<1> QED
  BY <1>1, <1>3, <1>4, Unmoved, QuietlyOf

-----------------------------------------------------------------------------
(* What starts to be sent, and what Channex says.                          *)

\* A sender starts with an intent that is queued: nobody else is sending it.
LEMMA StartsInv ==
    ASSUME CrsInv, NEW s \in Actors, NEW c \in Recorded, NEW new,
           Sendable(c), at[s].pc \in {"client", "sweep"},
           intents' = [intents EXCEPT ![c].status = "sending"],
           Go(s, new), Fits(new), new.pc = "post", new.cur = c, new.booking = 0,
           ResFits, UNCHANGED <<rows, replies, revs, crsFaults>>, NoNewRes
    PROVE  CrsInv'
<1> DEFINE intent == [intents[c] EXCEPT !.status = "sending"]
<1>1. /\ CrsTypeOK
      /\ at \in [Actors -> ActorState] /\ intents \in [ResIds -> Intent \cup {NoIntent}]
  BY DEF CrsInv, CrsTypeOK
<1>2. c \in ResIds /\ intents[c] \in Intent
  BY <1>1, Recordeds
<1>3. /\ intent \in Intent /\ intent.status = "sending"
      /\ intent.booking = intents[c].booking /\ intent.live = intents[c].live
  BY <1>2 DEF Intent, IntentStatuses
<1>4. intents' = [intents EXCEPT ![c] = intent]
  OBVIOUS
<1> HIDE DEF intent
<1>5. IntentsFit
  <2>1. intents'[c] = intent /\ \A i \in ResIds : i # c => intents'[i] = intents[i]
    BY <1>1, <1>2, <1>4
  <2>2. Moves(c)
    BY <1>3, <2>1 DEF Moves
  <2>3. intents' \in [ResIds -> Intent \cup {NoIntent}]
    BY <1>1, <1>3, <1>4
  <2> QED
    BY <2>1, <2>2, <2>3 DEF IntentsFit, Moves
<1>6. RowsFit /\ FaultsFit
  BY <1>1, Unmoved
<1>7. /\ at' \in [Actors -> ActorState] /\ at'[s] = new
      /\ \A t \in Actors : t # s => at'[t] = at[t]
  BY <1>1 DEF Go, Fits
<1>8. \A t \in Actors : Goes(t)
  BY <1>7 DEF Goes
<1>9. Steadily
  <2>1. TypeOK'
    BY <1>1 DEF ResFits, NoNewRes, Quiet, CrsTypeOK, TypeOK, jobs
  <2> QED
    BY <1>5, <1>6, <1>7, <1>8, <2>1
       DEF ResFits, IntentsFit, RowsFit, FaultsFit, NoNewRes, Quiet, Steadily, Typed
<1>10. ASSUME Senders
       PROVE  Senders'
  <2>1. /\ intents'[c] = intent /\ \A i \in ResIds : i # c => intents'[i] = intents[i]
        /\ Recorded' = Recorded
    BY <1>1, <1>2, <1>3, <1>4, NoIntentAssumption DEF Recorded
  <2>2. intents[c].status = "queued"
    BY <1>10 DEF Senders, Sendable, SENDABLE
  <2>3. ~Sent(c) /\ \A t \in Actors : AtPost(t) => at[t].cur # c
    BY <1>10, <2>2 DEF Senders
  <2>4. \A b : Sent(b)' <=> Sent(b)
    BY DEF Sent
  <2>5. \A i \in Recorded : i \in ResIds
    BY DEF Recorded
  <2>6. \A i \in Recorded' : intents'[i].status # "retry"
    BY <1>3, <1>10, <2>1, <2>5 DEF Senders
  <2>7. \A t \in Actors : t # s => (AtPost(t)' <=> AtPost(t))
    BY <1>7 DEF AtPost
  <2>8. ASSUME NEW i \in Recorded', intents'[i].status = "queued"
        PROVE  /\ i \in Recorded /\ i # c /\ intents[i].status = "queued"
               /\ ~Sent(i) /\ \A t \in Actors : AtPost(t)' => at'[t].cur # i
    <3>1. i \in Recorded /\ i # c /\ intents[i].status = "queued"
      BY <1>3, <2>1, <2>5, <2>8
    <3>2. ~Sent(i) /\ \A t \in Actors : AtPost(t) => at[t].cur # i
      BY <1>10, <3>1 DEF Senders
    <3> QED
      BY <1>7, <2>7, <3>1, <3>2
  <2>9. \A t \in Actors : at'[t].pc = "post" => ~Sent(at'[t].cur)
    BY <1>7, <1>10, <2>3 DEF Senders
  <2>10. \A t \in Actors : at'[t].pc = "post" => ~Sent(at[t].cur)'
    BY <2>9 DEF Sent
  <2>11. ASSUME NEW t \in Actors, NEW u \in Actors, AtPost(t)', AtPost(u)', t # u
         PROVE  at'[t].cur # at'[u].cur
    <3>1. CASE t = s
      BY <1>7, <2>3, <2>7, <2>11, <3>1
    <3>2. CASE u = s
      BY <1>7, <2>3, <2>7, <2>11, <3>2
    <3>3. CASE t # s /\ u # s
      BY <1>7, <1>10, <2>7, <2>11, <3>3 DEF Senders
    <3> QED
      BY <3>1, <3>2, <3>3
  <2>12. \A i \in Recorded' : intents'[i].status = "queued" =>
            ~Sent(i)' /\ \A t \in Actors : AtPost(t)' => at'[t].cur # i
    BY <2>4, <2>8
  <2> QED
    BY <2>6, <2>10, <2>11, <2>12 DEF Senders
<1> QED
  BY <1>9, <1>10, SteadyInv

LEMMA ClientSendsInv ==
    ASSUME CrsInv, NEW s \in Clients, ClientReady(s), Sendable(at[s].cur)
    PROVE  CrsInv'
<1> DEFINE c == at[s].cur
           new == [at[s] EXCEPT !.pc = "post"]
<1>1. /\ at[s].pc = "client" /\ Go(s, new)
      /\ intents' = [intents EXCEPT ![c].status = "sending"]
      /\ UNCHANGED <<res, rows, replies, revs, crsFaults>> /\ NoNewRes
  BY DEF ClientReady
<1>2. CrsTypeOK /\ s \in Actors
  BY DEF CrsInv, Actors
<1>3. c \in Recorded /\ at[s] \in ActorState /\ at[s].booking = 0 /\ at[s].todo \subseteq Recorded
  BY <1>1, <1>2 DEF CrsTypeOK, Fits
<1>4. /\ new \in ActorState /\ new.pc = "post" /\ new.cur = c /\ new.booking = 0
      /\ new.todo \subseteq Recorded
  BY <1>3 DEF ActorState, Pcs
<1> HIDE DEF new
<1>5. Fits(new)
  BY <1>3, <1>4 DEF Fits
<1>6. ResFits
  BY <1>1, <1>2, Unmoved
<1> QED
  BY <1>1, <1>2, <1>3, <1>4, <1>5, <1>6, StartsInv

LEMMA SweepSendsInv ==
    ASSUME CrsInv, NEW d \in Drains, NEW c \in at[d].todo, SweepSends(d, c)
    PROVE  CrsInv'
<1> DEFINE before == {k \in at[d].todo : k < c}
           rest == at[d].todo \ (before \cup {c})
           new == [at[d] EXCEPT !.pc = "post", !.cur = c, !.did = TRUE, !.todo = rest]
<1>1. /\ at[d].pc = "sweep" /\ Sendable(c) /\ res' = Resumed(before)
      /\ intents' = [intents EXCEPT ![c].status = "sending"]
      /\ Go(d, new)
      /\ UNCHANGED <<rows, replies, revs, crsFaults>> /\ NoNewRes
  BY DEF SweepSends
<1>2. CrsTypeOK /\ d \in Actors
  BY DEF CrsInv, Actors
<1>3. at[d] \in ActorState /\ at[d].booking = 0 /\ at[d].todo \subseteq Recorded
  BY <1>1, <1>2 DEF CrsTypeOK, Fits
<1>4. c \in Recorded /\ c \in Codes /\ before \subseteq Recorded /\ rest \subseteq Recorded
  BY <1>2, <1>3, Recordeds
<1>5. rest \in SUBSET ResIds
  BY <1>4 DEF Recorded
<1> HIDE DEF before, rest
<1>6. /\ new \in ActorState /\ new.pc = "post" /\ new.cur = c /\ new.booking = 0
      /\ new.todo = rest
  BY <1>3, <1>4, <1>5 DEF ActorState, Pcs
<1> HIDE DEF new
<1>7. Fits(new)
  BY <1>4, <1>6 DEF Fits
<1>8. ResFits
  BY <1>1, <1>2, <1>4, ResumedFits
<1> QED
  BY <1>1, <1>2, <1>4, <1>6, <1>7, <1>8, StartsInv

LEMMA Appended ==
    ASSUME NEW T, NEW s \in Seq(T), NEW e
    PROVE  /\ Len(s) \in Nat /\ DOMAIN s = 1..Len(s)
           /\ Len(Append(s, e)) = Len(s) + 1 /\ DOMAIN Append(s, e) = 1..Len(s) + 1
           /\ Append(s, e)[Len(s) + 1] = e
           /\ \A k \in 1..Len(s) : Append(s, e)[k] = s[k]
OBVIOUS

\* A revision that comes next: of a booking nobody has, or of one with its code.
Fresh(rev) == rev.booking = Cardinality(Booked) + 1
Follows(rev) == \E r \in DOMAIN revs : revs[r].booking = rev.booking /\ revs[r].code = rev.code

LEMMA OneMore ==
    ASSUME TypeOK, RevsOK, NEW rev, revs' = Append(revs, rev), Fresh(rev) \/ Follows(rev)
    PROVE  /\ RevsOK'
           /\ \A b, c : Tells(b, c) => Tells(b, c)'
           /\ Tells(rev.booking, rev.code)'
           /\ \A r \in DOMAIN revs' : \/ r \in DOMAIN revs /\ revs'[r] = revs[r]
                                      \/ r \notin DOMAIN revs /\ revs'[r] = rev
           /\ \A r \in DOMAIN revs : r \in DOMAIN revs' /\ revs'[r] = revs[r]
<1> DEFINE n == Len(revs)
<1>1. revs \in Seq(Revision)
  BY DEF TypeOK
<1>2. /\ n \in Nat /\ DOMAIN revs = 1..n /\ Len(revs') = n + 1 /\ DOMAIN revs' = 1..n + 1
      /\ revs'[n + 1] = rev /\ \A k \in 1..n : revs'[k] = revs[k]
  BY <1>1, Appended
<1> HIDE DEF n
<1>3. \A r \in DOMAIN revs : r \in DOMAIN revs' /\ revs'[r] = revs[r]
  BY <1>2
<1>4. \A r \in DOMAIN revs' : \/ r \in DOMAIN revs /\ revs'[r] = revs[r]
                              \/ r = n + 1 /\ r \notin DOMAIN revs /\ revs'[r] = rev
  BY <1>2
<1>5. \A b, c : Tells(b, c) => Tells(b, c)'
  BY <1>3 DEF Tells
<1>6. Tells(rev.booking, rev.code)'
  BY <1>2 DEF Tells
<1>7. PICK m \in 0..n : Booked = 1..m
  BY DEF RevsOK, n
<1>8. Cardinality(Booked) = m /\ m \in Nat
  <2>1. Cardinality(1..m) = IF 1 > m THEN 0 ELSE m - 1 + 1
    BY <1>2, <1>7, FS_Interval
  <2> QED
    BY <1>2, <1>7, <2>1
<1>9. n + 1 \in DOMAIN revs'
  BY <1>2
<1>10. Booked' = Booked \cup {rev.booking}
  BY <1>2, <1>3, <1>4, <1>9 DEF Booked
<1>11. \E k \in 0..Len(revs') : Booked' = 1..k
  <2>1. CASE Fresh(rev)
    <3>1. rev.booking = m + 1
      BY <1>8, <2>1 DEF Fresh
    <3>2. Booked' = 1..m + 1
      BY <1>7, <1>8, <1>10, <3>1
    <3>3. m + 1 \in 0..Len(revs')
      BY <1>2, <1>7
    <3> QED
      BY <3>2, <3>3
  <2>2. CASE Follows(rev)
    <3>1. Booked' = 1..m
      BY <1>7, <1>10, <2>2 DEF Follows, Booked
    <3>2. m \in 0..Len(revs')
      BY <1>2, <1>7
    <3> QED
      BY <3>1, <3>2
  <2> QED
    BY <2>1, <2>2
\* No revision so far has the booking and another code.
<1>12. \A r \in DOMAIN revs : revs[r].booking = rev.booking => revs[r].code = rev.code
  <2>1. CASE Fresh(rev)
    <3>1. rev.booking \notin Booked
      BY <1>7, <1>8, <2>1 DEF Fresh
    <3> QED
      BY <3>1 DEF Booked
  <2>2. CASE Follows(rev)
    BY <2>2 DEF Follows, RevsOK
  <2> QED
    BY <2>1, <2>2
<1>13. \A r, q \in DOMAIN revs' :
          revs'[r].booking = revs'[q].booking => revs'[r].code = revs'[q].code
  BY <1>4, <1>12 DEF RevsOK
<1> QED
  BY <1>3, <1>4, <1>5, <1>6, <1>11, <1>13 DEF RevsOK

\* A booking has a last revision.
LEMMA LastIn ==
    ASSUME TypeOK, NEW b \in Booked
    PROVE  \E r \in DOMAIN revs : Last(b) = revs[r] /\ revs[r].booking = b
<1> DEFINE n == Len(revs)
           S == {r \in DOMAIN revs : revs[r].booking = b}
           T == {n - r : r \in S}
<1>1. n \in Nat /\ DOMAIN revs = 1..n
  BY DEF TypeOK
<1>2. S # {} /\ S \subseteq 1..n
  BY <1>1 DEF Booked
<1> HIDE DEF S, n
<1>3. T \subseteq Nat /\ T # {}
  BY <1>1, <1>2
<1>4. SetMin(T) \in T /\ \A y \in T : SetMin(T) <= y
  BY <1>3, SetMinIn
<1> DEFINE m == SetMin(T)
<1>5. PICK r \in S : m = n - r
  BY <1>4
<1>6. ASSUME NEW q \in S
      PROVE  q <= r
  <2>1. n - q \in T
    OBVIOUS
  <2>2. m <= n - q
    BY <1>4, <2>1
  <2> HIDE DEF m, T
  <2> QED
    BY <1>1, <1>2, <1>5, <2>2
<1>7. /\ r \in DOMAIN revs /\ revs[r].booking = b
      /\ \A q \in DOMAIN revs : revs[q].booking = b => q <= r
  BY <1>6 DEF S
<1> QED
  BY <1>7 DEF Last

LEMMA ChannexSays ==
    ASSUME TypeOK, Channex
    PROVE  \E rev : /\ revs' = Append(revs, rev)
                    /\ \/ rev.code = 0 /\ Fresh(rev)
                       \/ rev.status # "new" /\ Follows(rev)
<1>1. ASSUME NEW stay \in Stays, NEW t \in RoomTypes, NewBooking(stay, t)
      PROVE  \E rev : revs' = Append(revs, rev) /\ rev.code = 0 /\ Fresh(rev)
  <2> DEFINE rev == [booking |-> Cardinality(Booked) + 1, code |-> NoCode, status |-> "new",
                     type |-> t, stay |-> stay]
  <2>1. revs' = Append(revs, rev)
    BY <1>1 DEF NewBooking, Says
  <2>2. rev.code = 0 /\ Fresh(rev)
    BY ConstantsAssumption DEF Fresh
  <2> QED
    BY <2>1, <2>2
<1>2. ASSUME NEW b \in Booked, NEW stay \in Stays, Modified(b, stay)
      PROVE  \E rev : revs' = Append(revs, rev) /\ rev.status # "new" /\ Follows(rev)
  <2> DEFINE rev == [Last(b) EXCEPT !.status = "modified", !.stay = stay]
  <2>1. revs' = Append(revs, rev)
    BY <1>2 DEF Modified, Says
  <2>2. PICK r \in DOMAIN revs : Last(b) = revs[r] /\ revs[r].booking = b
    BY LastIn
  <2>3. revs[r] \in Revision
    BY DEF TypeOK
  <2>4. rev.status # "new" /\ rev.booking = revs[r].booking /\ rev.code = revs[r].code
    BY <2>2, <2>3 DEF Revision
  <2> QED
    BY <2>1, <2>4 DEF Follows
<1>3. ASSUME NEW b \in Booked, NEW t \in Types, Cancelled(b, t)
      PROVE  \E rev : revs' = Append(revs, rev) /\ rev.status # "new" /\ Follows(rev)
  <2> DEFINE rev == [Last(b) EXCEPT !.status = "cancelled", !.type = t]
  <2>1. revs' = Append(revs, rev)
    BY <1>3 DEF Cancelled, Says
  <2>2. PICK r \in DOMAIN revs : Last(b) = revs[r] /\ revs[r].booking = b
    BY LastIn
  <2>3. revs[r] \in Revision
    BY DEF TypeOK
  <2>4. rev.status # "new" /\ rev.booking = revs[r].booking /\ rev.code = revs[r].code
    BY <2>2, <2>3 DEF Revision
  <2> QED
    BY <2>1, <2>4 DEF Follows
<1> QED
  BY <1>1, <1>2, <1>3 DEF Channex

\* A revision said keeps the invariant when its code is known and it is no second one
\* to create a booking.
LEMMA SaidInv ==
    ASSUME CrsInv, NEW rev, revs' = Append(revs, rev), Fresh(rev) \/ Follows(rev),
           CrsTypeOK', UNCHANGED <<res, nextRes, intents, rows, faults, crsFaults>>,
           \A s \in Actors : at[s].pc = "insert" => at'[s] = at[s],
           \A s \in Actors : \/ at'[s].cur = at[s].cur /\ at'[s].booking = at[s].booking
                             \/ at'[s].booking = rev.booking /\ at'[s].cur = rev.code,
           Kept => rev.code = 0 \/ rev.code \in Recorded,
           Senders => Senders',
           Senders /\ SentOnce => SentOnce'
    PROVE  CrsInv'
<1>1. TypeOK /\ RevsOK
  BY DEF CrsInv, CrsTypeOK
<1>2. /\ RevsOK'
      /\ \A b, c : Tells(b, c) => Tells(b, c)'
      /\ Tells(rev.booking, rev.code)'
      /\ \A r \in DOMAIN revs' : \/ r \in DOMAIN revs /\ revs'[r] = revs[r]
                                 \/ r \notin DOMAIN revs /\ revs'[r] = rev
  BY <1>1, OneMore
<1>3. /\ Held' = Held /\ Recorded' = Recorded /\ Live' = Live
      /\ NeverRestarted' = NeverRestarted /\ NothingLost' = NothingLost
  BY DEF Held, Recorded, Live, NeverRestarted, NothingLost
<1>4. Bounded'
  BY <1>3 DEF CrsInv, Bounded
<1>5. LiveIsDurable'
  BY <1>3 DEF CrsInv, LiveIsDurable
<1>6. ASSUME Kept
      PROVE  Kept'
  <2>1. ASSUME NEW c \in Recorded
        PROVE  IntentKept(c)'
    <3>1. IntentKept(c) /\ (Tells(intents[c].booking, c) => Tells(intents[c].booking, c)')
      BY <1>2, <1>6 DEF Kept, Tells
    <3> QED
      BY <3>1 DEF IntentKept
  <2>2. ASSUME NEW i \in Held
        PROVE  ReservationKept(i)'
    <3>1. /\ ReservationKept(i)
          /\ Tells(res[i].booking, res[i].code) => Tells(res[i].booking, res[i].code)'
      BY <1>2, <1>6 DEF Kept, Tells
    <3> QED
      BY <1>3, <3>1 DEF ReservationKept
  <2>3. ASSUME NEW s \in Actors
        PROVE  Tells(at[s].booking, at[s].cur)'
    <3>1. Tells(at[s].booking, at[s].cur)
      BY <1>6 DEF Kept
    <3>2. CASE at'[s].cur = at[s].cur /\ at'[s].booking = at[s].booking
      BY <1>2, <3>1, <3>2 DEF Tells
    <3>3. CASE at'[s].booking = rev.booking /\ at'[s].cur = rev.code
      BY <1>2, <3>3 DEF Tells
    <3> QED
      BY <3>2, <3>3
  <2>4. \A r \in DOMAIN revs' : revs'[r].code # 0 => revs'[r].code \in Recorded
    BY <1>2, <1>6 DEF Kept
  <2> QED
    BY <1>3, <2>1, <2>2, <2>3, <2>4 DEF Kept
<1>7. OneEachBooking => OneEachBooking'
  BY <1>3 DEF OneEachBooking, OneReservationPerBooking
<1> QED
  BY <1>2, <1>3, <1>4, <1>5, <1>6, <1>7 DEF CrsInv

LEMMA PostArrivesInv ==
    ASSUME CrsInv, NEW s \in Actors, PostArrives(s)
    PROVE  CrsInv'
<1> DEFINE c == at[s].cur
           booking == Cardinality(Booked) + 1
           rev == [booking |-> booking, code |-> c, status |-> "new",
                   type |-> intents[c].type, stay |-> intents[c].stay]
           new == [at[s] EXCEPT !.pc = "posted", !.booking = booking]
<1>1. /\ at[s].pc = "post" /\ Len(revs) < MaxRevisions /\ revs' = Append(revs, rev)
      /\ Go(s, new)
      /\ UNCHANGED <<res, intents, rows, replies, crsFaults>> /\ NoNewRes
  BY DEF PostArrives
<1>2. CrsTypeOK /\ RevsOK
  BY DEF CrsInv
<1>3. /\ c \in Recorded /\ c \in Codes /\ c # 0 /\ intents[c] \in Intent
      /\ at[s] \in ActorState /\ Fits(at[s])
  BY <1>1, <1>2, AtWork, Recordeds DEF CrsTypeOK
<1>4. booking \in BookingIds
  <2>1. PICK m \in 0..Len(revs) : Booked = 1..m
    BY <1>2 DEF RevsOK
  <2>2. m \in Nat /\ m < MaxRevisions /\ Len(revs) \in Nat
    BY <1>1, <1>2, ConstantsAssumption DEF CrsTypeOK, TypeOK
  <2>3. Cardinality(Booked) = m
    <3>1. Cardinality(1..m) = IF 1 > m THEN 0 ELSE m - 1 + 1
      BY <2>2, FS_Interval
    <3> QED
      BY <2>1, <2>2, <3>1
  <2> QED
    BY <2>2, <2>3, ConstantsAssumption DEF BookingIds
<1>5. Fresh(rev) /\ rev.code = c /\ rev.booking = booking
  BY DEF Fresh
<1> HIDE DEF booking
<1>6. rev \in Revision
  BY <1>3, <1>4 DEF Revision, Intent
<1>7. /\ new \in ActorState /\ new.pc = "posted" /\ new.cur = c /\ new.booking = booking
      /\ new.todo = at[s].todo
  BY <1>3, <1>4 DEF ActorState, Pcs
<1> HIDE DEF rev, new
<1>8. Fits(new)
  BY <1>3, <1>7 DEF Fits
<1>9. TypeOK'
  BY <1>1, <1>2, <1>6, RevisionsGrow DEF NoNewRes, Quiet, local, jobs, CrsTypeOK
<1>10. /\ at' \in [Actors -> ActorState] /\ at'[s] = new
       /\ \A t \in Actors : t # s => at'[t] = at[t]
  BY <1>1, <1>2, <1>7 DEF Go, CrsTypeOK
<1>11. Recorded' = Recorded
  BY <1>1 DEF Recorded
<1>12. CrsTypeOK'
  <2>1. \A t \in Actors : Fits(at'[t])
    BY <1>2, <1>8, <1>10 DEF CrsTypeOK
  <2>2. \A t \in Actors : Fits(at[t])'
    BY <1>11, <2>1 DEF Fits
  <2> QED
    BY <1>1, <1>2, <1>9, <1>10, <1>11, <2>2 DEF CrsTypeOK
<1>13. /\ \A r \in DOMAIN revs' : \/ r \in DOMAIN revs /\ revs'[r] = revs[r]
                                  \/ r \notin DOMAIN revs /\ revs'[r] = rev
       /\ \A r \in DOMAIN revs : r \in DOMAIN revs' /\ revs'[r] = revs[r]
  BY <1>1, <1>2, <1>5, OneMore DEF CrsTypeOK
<1>14. \A b : Sent(b)' => Sent(b) \/ b = c
  BY <1>5, <1>13 DEF Sent
\* Its sender was the only one, and nothing had been sent.
<1>15. ASSUME Senders
       PROVE  Senders'
  <2>1. \A t \in Actors : AtPost(t)' => AtPost(t) /\ at'[t].cur = at[t].cur
    BY <1>1, <1>7, <1>10 DEF AtPost
  <2>2. AtPost(s) /\ ~Sent(c)
    BY <1>1, <1>15 DEF AtPost, Senders
  <2>3. \A b \in Recorded' : /\ b \in Recorded
                             /\ intents'[b].status = intents[b].status
    BY <1>1, <1>11
  <2>4. ASSUME NEW b \in Recorded', intents'[b].status = "queued"
        PROVE  ~Sent(b)' /\ \A t \in Actors : AtPost(t)' => at'[t].cur # b
    <3>1. ~Sent(b) /\ \A t \in Actors : AtPost(t) => at[t].cur # b
      BY <1>15, <2>3, <2>4 DEF Senders
    <3> QED
      BY <1>14, <2>1, <2>2, <3>1
  <2>5. ASSUME NEW t \in Actors, at'[t].pc = "post"
        PROVE  ~Sent(at[t].cur)'
    <3>1. t # s /\ at'[t] = at[t] /\ at[t].pc = "post" /\ AtPost(t)
      BY <1>7, <1>10, <2>5 DEF AtPost
    <3>2. ~Sent(at[t].cur) /\ at[t].cur # c
      BY <1>15, <2>2, <3>1 DEF Senders
    <3>3. Sent(at[t].cur)' => Sent(at[t].cur)
      BY <1>5, <1>13, <3>1, <3>2 DEF Sent
    <3> QED
      BY <3>2, <3>3
  <2>6. \A t, u \in Actors : AtPost(t)' /\ AtPost(u)' /\ t # u => at'[t].cur # at'[u].cur
    BY <1>15, <2>1 DEF Senders
  <2>7. \A b \in Recorded' : intents'[b].status # "retry"
    BY <1>15, <2>3 DEF Senders
  <2> QED
    BY <2>4, <2>5, <2>6, <2>7 DEF Senders
<1>16. ASSUME Senders, SentOnce
       PROVE  SentOnce'
  <2>1. ~Sent(c)
    BY <1>1, <1>16 DEF Senders
  <2>2. \A r \in DOMAIN revs : revs[r].code # c
    BY <2>1 DEF Sent
  <2>3. \A r, q \in DOMAIN revs' : r \notin DOMAIN revs /\ q \notin DOMAIN revs => r = q
    BY <1>1, <1>2, Appended DEF CrsTypeOK, TypeOK
  <2> QED
    BY <1>5, <1>13, <1>16, <2>2, <2>3 DEF SentOnce
<1>17. UNCHANGED <<nextRes, faults>>
  BY <1>1 DEF NoNewRes, Quiet
<1> QED
  BY <1>1, <1>3, <1>5, <1>7, <1>10, <1>12, <1>15, <1>16, <1>17, SaidInv

LEMMA ChannexInv ==
    ASSUME CrsInv, Channex, CrsTypeOK',
           UNCHANGED <<res, nextRes, intents, rows, at, faults, crsFaults>>
    PROVE  CrsInv'
<1>1. TypeOK /\ RevsOK /\ CrsTypeOK
  BY DEF CrsInv, CrsTypeOK
<1>2. PICK rev : /\ revs' = Append(revs, rev)
                 /\ \/ rev.code = 0 /\ Fresh(rev)
                    \/ rev.status # "new" /\ Follows(rev)
  BY <1>1, ChannexSays
<1>3. /\ \A r \in DOMAIN revs' : \/ r \in DOMAIN revs /\ revs'[r] = revs[r]
                                 \/ r \notin DOMAIN revs /\ revs'[r] = rev
      /\ \A r \in DOMAIN revs : r \in DOMAIN revs' /\ revs'[r] = revs[r]
  BY <1>1, <1>2, OneMore
<1>4. Kept => rev.code = 0 \/ rev.code \in Recorded
  BY <1>2 DEF Kept, Follows
<1>5. \A b : Sent(b)' => Sent(b) \/ b = 0
  BY <1>2, <1>3 DEF Sent, Follows
<1>6. Recorded' = Recorded /\ \A c \in Recorded : c # 0
  BY <1>1, Recordeds DEF Recorded
<1>7. ASSUME Senders
      PROVE  Senders'
  <2>1. \A s \in Actors : (AtPost(s)' <=> AtPost(s)) /\ at'[s] = at[s]
    BY DEF AtPost
  <2>2. \A s \in Actors : at[s].pc = "post" => at[s].cur \in Recorded
    BY <1>1 DEF CrsTypeOK, Fits
  <2>3. ASSUME NEW s \in Actors, at'[s].pc = "post"
        PROVE  ~Sent(at[s].cur)'
    <3>1. ~Sent(at[s].cur) /\ at[s].cur # 0
      BY <1>6, <1>7, <2>1, <2>2, <2>3 DEF Senders
    <3>2. Sent(at[s].cur)' => Sent(at[s].cur)
      BY <1>2, <1>3, <2>1, <3>1 DEF Sent, Follows
    <3> QED
      BY <3>1, <3>2
  <2>4. \A c \in Recorded' : intents'[c].status = "queued" =>
           ~Sent(c)' /\ \A s \in Actors : AtPost(s)' => at'[s].cur # c
    BY <1>5, <1>6, <1>7, <2>1 DEF Senders
  <2>5. \A c \in Recorded' : intents'[c].status # "retry"
    BY <1>6, <1>7 DEF Senders
  <2>6. \A s, t \in Actors : AtPost(s)' /\ AtPost(t)' /\ s # t => at'[s].cur # at'[t].cur
    BY <1>7, <2>1 DEF Senders
  <2> QED
    BY <2>3, <2>4, <2>5, <2>6 DEF Senders
<1>8. SentOnce => SentOnce'
  <2>1. ASSUME SentOnce, NEW r \in DOMAIN revs, revs[r].code = rev.code, rev.code # 0
        PROVE  revs[r].booking = rev.booking /\ rev.status # "new"
    BY <1>2, <2>1 DEF SentOnce, Follows
  <2> QED
    BY <1>2, <1>3, <2>1 DEF SentOnce
<1> QED
  BY <1>2, <1>4, <1>7, <1>8, SaidInv

-----------------------------------------------------------------------------
(* Revisions committed.                                                    *)

\* What a commit writes of bookings and codes.
LEMMA CommitFields ==
    ASSUME TypeOK, NEW r \in DOMAIN revs, Commit(r), NEW i, i = Matched(revs[r])
    PROVE  /\ i \in ResIds /\ r # 0 /\ res'[i].src = r /\ res'[i].booking = revs[r].booking
           /\ res'[i].code = IF revs[r].code # 0 THEN revs[r].code
                             ELSE IF res[i] # NoRes THEN res[i].code ELSE 0
           /\ \A k \in ResIds : k # i => res'[k] = res[k]
           /\ nextRes' = IF i = nextRes THEN nextRes + 1 ELSE nextRes
<1> DEFINE new == Projected(i, r)
           rev == revs[r]
<1>1. /\ i \in ResIds
      /\ res'[i] = [new EXCEPT !.room = AssignedRoom(i, new)]
      /\ res'[i].booking = rev.booking
      /\ \A k \in ResIds \ {i} : res'[k] = res[k]
  BY CommitWrites
<1>2. rev \in Revision /\ r # 0
  BY DEF TypeOK
<1>3. new \in Reservation
  BY <1>1, ProjectedType
<1> DEFINE old == IF res[i] # NoRes THEN res[i]
               ELSE [booking |-> rev.booking, code |-> rev.code, status |-> "confirmed",
                     type |-> rev.type, stay |-> rev.stay, room |-> NoRoom, src |-> r]
<1>4. old \in Reservation
  <2>1. r \in 1..MaxRevisions
    BY ConstantsAssumption DEF TypeOK
  <2> QED
    BY <1>1, <1>2, <2>1 DEF TypeOK, Revision, Reservation, Statuses
<1>5. new = [old EXCEPT !.booking = rev.booking, !.stay = rev.stay, !.type = rev.type,
                    !.code = IF rev.code # NoCode THEN rev.code ELSE @,
                    !.status = StatusAfter(old, rev), !.src = r]
  BY DEF Projected
<1>6. old.code = IF res[i] # NoRes THEN res[i].code ELSE rev.code
  OBVIOUS
<1> HIDE DEF new, old, rev
<1>7. /\ new.src = r
      /\ new.code = IF rev.code # 0 THEN rev.code ELSE old.code
  BY <1>4, <1>5, ConstantsAssumption DEF Reservation
<1>8. res'[i].src = new.src /\ res'[i].code = new.code
  BY <1>1, <1>3 DEF Reservation
<1>9. nextRes' = IF i = nextRes THEN nextRes + 1 ELSE nextRes
  BY DEF Commit
<1> QED
  BY <1>1, <1>2, <1>6, <1>7, <1>8, <1>9 DEF rev

\* Which reservation a revision is of.
LEMMA MatchedCases ==
    ASSUME TypeOK, NEW rev, NEW i, i = Matched(rev)
    PROVE  \/ i \in Held /\ res[i].booking = rev.booking
           \/ ByBooking(rev) = {} /\ i \in Held /\ rev.code # 0 /\ res[i].code = rev.code
           \/ ByBooking(rev) = {} /\ ByCode(rev) = {} /\ i = nextRes
<1>1. ByBooking(rev) \subseteq Nat /\ ByCode(rev) \subseteq Nat
  BY ConstantsAssumption DEF ByBooking, ByCode, Held, ResIds
<1>2. ByBooking(rev) # {} => i \in ByBooking(rev)
  BY <1>1, SetMinIn DEF Matched
<1>3. ByBooking(rev) = {} /\ ByCode(rev) # {} => i \in ByCode(rev)
  BY <1>1, SetMinIn DEF Matched
<1>4. ByBooking(rev) = {} /\ ByCode(rev) = {} => i = nextRes
  BY DEF Matched
<1> QED
  BY <1>2, <1>3, <1>4, ConstantsAssumption DEF ByBooking, ByCode

\* The reservation a revision is committed to has its code, before and after.
LEMMA CommitCode ==
    ASSUME TypeOK, Bounded, RevsOK, Kept, NEW r \in DOMAIN revs, Commit(r),
           NEW i, i = Matched(revs[r])
    PROVE  /\ res'[i].code = revs[r].code /\ revs[r].booking # 0
           /\ \/ i \in Held /\ res[i].code = revs[r].code
              \/ ByBooking(revs[r]) = {} /\ ByCode(revs[r]) = {} /\ i = nextRes
<1> DEFINE rev == revs[r]
<1>1. res'[i].code = IF rev.code # 0 THEN rev.code
                     ELSE IF res[i] # NoRes THEN res[i].code ELSE 0
  BY CommitFields
<1>2. rev.booking # 0
  <2>1. rev.booking \in Booked
    BY DEF Booked
  <2>2. PICK n \in 0..Len(revs) : Booked = 1..n
    BY DEF RevsOK
  <2> QED
    BY <2>1, <2>2
<1>3. CASE i \in Held /\ res[i].booking = rev.booking
  <2>1. Tells(res[i].booking, res[i].code)
    BY <1>3 DEF Kept, ReservationKept
  <2>2. res[i].code = rev.code
    BY <1>2, <1>3, <2>1 DEF Tells, RevsOK
  <2> QED
    BY <1>1, <1>2, <1>3, <2>2 DEF Held
<1>4. CASE i \in Held /\ rev.code # 0 /\ res[i].code = rev.code
  BY <1>1, <1>2, <1>4
<1>5. CASE ByBooking(rev) = {} /\ ByCode(rev) = {} /\ i = nextRes
  <2>1. i \in ResIds /\ i \in Nat
    BY CommitFields DEF ResIds
  <2>2. i \notin Held
    BY <1>5, <2>1 DEF Bounded
  <2> QED
    BY <1>1, <1>2, <1>5, <2>1, <2>2 DEF Held
<1> QED
  BY <1>3, <1>4, <1>5, MatchedCases

\* The commit also settles the intent of the reservation's code.
SettlesIntent(d) ==
    intents' = IF d \in Live THEN [intents EXCEPT ![d].status = "reconciled"] ELSE intents
Settled(c, d) ==
    /\ intents'[c].booking = intents[c].booking /\ intents'[c].live = intents[c].live
    /\ \/ intents'[c].status = intents[c].status
       \/ c = d /\ intents'[c].status = "reconciled"

LEMMA SettledIntents ==
    ASSUME CrsTypeOK, NEW d, SettlesIntent(d)
    PROVE  /\ intents' \in [ResIds -> Intent \cup {NoIntent}] /\ Recorded' = Recorded
           /\ \A c \in Recorded : Settled(c, d)
<1>1. CASE d \notin Live
  BY <1>1 DEF SettlesIntent, Settled, CrsTypeOK, Recorded
<1>2. CASE d \in Live
  <2> DEFINE new == [intents[d] EXCEPT !.status = "reconciled"]
  <2>1. d \in Recorded /\ d \in ResIds /\ intents[d] \in Intent
    BY <1>2, LiveRecorded, Recordeds
  <2>2. /\ new \in Intent /\ new.status = "reconciled"
        /\ new.booking = intents[d].booking /\ new.live = intents[d].live
    BY <2>1 DEF Intent, IntentStatuses
  <2>3. intents' = [intents EXCEPT ![d] = new]
    BY <1>2 DEF SettlesIntent
  <2> HIDE DEF new
  <2>4. intents \in [ResIds -> Intent \cup {NoIntent}]
    BY DEF CrsTypeOK
  <2>5. intents'[d] = new /\ \A c \in ResIds : c # d => intents'[c] = intents[c]
    BY <2>1, <2>3, <2>4
  <2>6. intents' \in [ResIds -> Intent \cup {NoIntent}]
    BY <2>2, <2>3, <2>4
  <2>7. Recorded' = Recorded
    BY <2>1, <2>2, <2>5, NoIntentAssumption DEF Recorded
  <2>8. \A c \in Recorded : Settled(c, d)
    BY <2>2, <2>5 DEF Settled, Recorded
  <2> QED
    BY <2>6, <2>7, <2>8
<1> QED
  BY <1>1, <1>2

\* A reservation reached by its code waits for the revision; one that is made for a
\* revision is made after the one whose code it carries, which shows a revision.
LEMMA CommitKept ==
    ASSUME CrsTypeOK, Bounded, RevsOK, Kept, NEW r \in DOMAIN revs, Commit(r),
           NEW i, i = Matched(revs[r]), NEW d, d = revs[r].code,
           SettlesIntent(res'[i].code), UNCHANGED <<revs, at>>
    PROVE  Kept'
<1>1. TypeOK
  BY DEF CrsTypeOK
<1>2. /\ i \in ResIds /\ r # 0 /\ res'[i].src = r /\ res'[i].booking = revs[r].booking
      /\ \A k \in ResIds : k # i => res'[k] = res[k]
      /\ nextRes' = IF i = nextRes THEN nextRes + 1 ELSE nextRes
  BY <1>1, CommitFields
<1>3. /\ res'[i].code = d
      /\ \/ i \in Held /\ res[i].code = d
         \/ ByBooking(revs[r]) = {} /\ ByCode(revs[r]) = {} /\ i = nextRes
  BY <1>1, CommitCode
<1>4. Recorded' = Recorded /\ \A c \in Recorded : Settled(c, d)
  BY <1>3, SettledIntents
<1>5. d # 0 => d \in Recorded
  BY DEF Kept
<1>6. Tells(res'[i].booking, d)
  BY <1>2 DEF Tells
<1>7. nextRes \in Nat /\ nextRes' \in Nat /\ nextRes <= nextRes'
  BY <1>1, <1>2 DEF TypeOK
<1>8. ASSUME d # 0, d # i
      PROVE  d < i /\ (res[d] # NoRes => res[d].src # 0)
  <2>1. d \in Recorded /\ d \in ResIds
    BY <1>5, <1>8 DEF Recorded
  <2>2. CASE i \in Held /\ res[i].code = d
    BY <1>8, <2>2 DEF Kept, ReservationKept
  <2>3. CASE ByCode(revs[r]) = {} /\ i = nextRes
    <3>1. d < nextRes
      BY <2>1 DEF Kept, IntentKept
    <3>2. ASSUME res[d] # NoRes
          PROVE  res[d].src # 0
      <4>1. d \in Held /\ res[d].code = d
        BY <2>1, <3>2 DEF Held, Kept, IntentKept
      <4>2. res[d].status # "pending_sync"
        BY <1>8, <2>3, <4>1, ConstantsAssumption DEF ByCode
      <4> QED
        BY <4>1, <4>2 DEF Kept, ReservationKept
    <3> QED
      BY <2>3, <3>1, <3>2
  <2> QED
    BY <1>3, <2>2, <2>3
<1>9. ReservationKept(i)'
  <2>1. d \in Recorded => d \in ResIds
    BY DEF Recorded
  <2>2. d \notin {0, i} => (res'[d] # NoRes => res'[d].src # 0)
    BY <1>2, <1>5, <1>8, <2>1
  <2>3. res'[i].code # 0 => res'[i].code \in Recorded'
    BY <1>3, <1>4, <1>5
  <2>4. Tells(res[i].booking, res[i].code)'
    BY <1>3, <1>6 DEF Tells
  <2>5. res'[i].src # 0
    BY <1>2
  <2> QED
    BY <1>3, <1>8, <2>2, <2>3, <2>4, <2>5 DEF ReservationKept
<1>10. ASSUME NEW j \in Held', j # i
       PROVE  ReservationKept(j)'
  <2>1. j \in Held /\ res'[j] = res[j]
    BY <1>2, <1>10 DEF Held
  <2>2. ReservationKept(j)
    BY <2>1 DEF Kept
  <2>3. res[j].code \in Recorded => res[j].code \in ResIds
    BY DEF Recorded
  <2>4. Tells(res[j].booking, res[j].code)'
    BY <2>1, <2>2 DEF ReservationKept, Tells
  <2>5. ASSUME res[j].code \notin {0, j}, res'[res[j].code] # NoRes
        PROVE  res'[res[j].code].src # 0
    BY <1>2, <2>2, <2>3, <2>5 DEF ReservationKept
  <2>6. /\ res'[j].code # 0 => res'[j].code \in Recorded'
        /\ res'[j].src = 0 => res'[j].code = j /\ res'[j].status = "pending_sync"
        /\ res'[j].code \notin {0, j} => res'[j].code < j
    BY <1>4, <2>1, <2>2 DEF ReservationKept
  <2>7. res'[j].code \notin {0, j} =>
            (res'[res'[j].code] # NoRes => res'[res'[j].code].src # 0)
    BY <2>1, <2>5
  <2> QED
    BY <2>4, <2>6, <2>7 DEF ReservationKept
<1>11. ASSUME NEW c \in Recorded
       PROVE  IntentKept(c)'
  <2>1. IntentKept(c) /\ Settled(c, d) /\ c \in ResIds
    BY <1>4 DEF Kept, Recorded
  <2>2. Tells(intents[c].booking, c)'
    BY <2>1 DEF IntentKept, Settled, Tells
  <2>3. c < nextRes'
    BY <1>7, <2>1 DEF IntentKept, ResIds
  <2>4. CASE c = i
    <3>1. c \in Held /\ res[c].code = d
      BY <1>3, <1>7, <2>1, <2>4 DEF IntentKept, ResIds
    <3>2. res'[c].code = c /\ res'[c].src # 0
      BY <1>2, <1>3, <2>1, <2>4, <3>1 DEF IntentKept, Held
    <3> QED
      BY <2>2, <2>3, <3>2 DEF IntentKept
  <2>5. CASE c # i
    <3>1. res'[c] = res[c]
      BY <1>2, <2>1, <2>5
    <3>2. ASSUME res[c] # NoRes, intents'[c].status = "reconciled"
          PROVE  res[c].src # 0
      <4>1. CASE intents[c].status = "reconciled"
        BY <2>1, <3>2, <4>1 DEF IntentKept
      <4>2. CASE c = d
        <5>1. c # 0
          BY <2>1 DEF ResIds
        <5> QED
          BY <1>8, <2>5, <3>2, <4>2, <5>1
      <4> QED
        BY <2>1, <3>2, <4>1, <4>2 DEF Settled
    <3> QED
      BY <2>1, <2>2, <2>3, <3>1, <3>2 DEF IntentKept
  <2> QED
    BY <2>4, <2>5
<1>12. \A s \in Actors : Tells(at[s].booking, at[s].cur)'
  BY DEF Kept, Tells
<1>13. \A q \in DOMAIN revs' : revs'[q].code # 0 => revs'[q].code \in Recorded'
  BY <1>4 DEF Kept
<1> QED
  BY <1>4, <1>9, <1>10, <1>11, <1>12, <1>13 DEF Kept

\* With one booking for each code, a reservation made for a revision with a code finds
\* no other reservation of that code.
LEMMA CommitOneEach ==
    ASSUME CrsTypeOK, Bounded, RevsOK, Kept, SentOnce, OneEachBooking,
           NEW r \in DOMAIN revs, Commit(r), NEW i, i = Matched(revs[r]),
           NEW d, d = revs[r].code
    PROVE  OneEachBooking'
<1>1. TypeOK
  BY DEF CrsTypeOK
<1>2. /\ i \in ResIds /\ r # 0 /\ res'[i].src = r /\ res'[i].booking = revs[r].booking
      /\ \A k \in ResIds : k # i => res'[k] = res[k]
  BY <1>1, CommitFields
<1>3. /\ res'[i].code = d /\ revs[r].booking # 0
      /\ \/ i \in Held /\ res[i].code = d
         \/ ByBooking(revs[r]) = {} /\ ByCode(revs[r]) = {} /\ i = nextRes
  BY <1>1, CommitCode
<1>4. \A j \in Held' : j # i => j \in Held /\ res'[j] = res[j]
  BY <1>2 DEF Held
<1>5. \A j \in Held' : res'[j].src # 0 => res'[j].booking # 0
  BY <1>2, <1>3, <1>4 DEF OneEachBooking
<1>6. d # 0 => d \in Recorded
  BY DEF Kept
<1>7. ASSUME d \notin {0, i}
      PROVE  res'[d] = NoRes
  <2>1. d \in Recorded /\ d \in ResIds
    BY <1>6, <1>7 DEF Recorded
  <2>2. CASE i \in Held /\ res[i].code = d
    BY <1>2, <1>7, <2>1, <2>2 DEF OneEachBooking
  <2>3. CASE ByBooking(revs[r]) = {} /\ ByCode(revs[r]) = {}
    <3>1. ASSUME res[d] # NoRes
          PROVE  FALSE
      <4>1. d \in Held /\ res[d].code = d
        BY <2>1, <3>1 DEF Held, Kept, IntentKept
      <4>2. res[d].status # "pending_sync"
        BY <1>7, <2>3, <4>1, ConstantsAssumption DEF ByCode
      <4>3. res[d].booking # 0 /\ Tells(res[d].booking, d)
        BY <4>1, <4>2 DEF Kept, ReservationKept, OneEachBooking
      <4>4. PICK q \in DOMAIN revs : revs[q].booking = res[d].booking /\ revs[q].code = d
        BY <4>3 DEF Tells
      <4>5. revs[q].booking = revs[r].booking
        BY <1>7, <4>4 DEF SentOnce
      <4> QED
        BY <2>3, <4>1, <4>4, <4>5 DEF ByBooking
    <3> QED
      BY <1>2, <1>7, <2>1, <3>1
  <2> QED
    BY <1>3, <2>2, <2>3
<1>8. ASSUME NEW j \in Held', res'[j].code \notin {0, j}
      PROVE  res'[res'[j].code] = NoRes
  <2>1. CASE j = i
    BY <1>3, <1>7, <1>8, <2>1
  <2>2. CASE j # i
    <3>1. j \in Held /\ res'[j] = res[j]
      BY <1>4, <2>2
    <3>2. res[j].code \in Recorded /\ res[res[j].code] = NoRes
      BY <1>8, <3>1 DEF Kept, ReservationKept, OneEachBooking
    <3>3. res[j].code < nextRes /\ res[j].code \in ResIds /\ nextRes \in Nat
      BY <1>1, <3>2 DEF Kept, IntentKept, Recorded, TypeOK
    <3>4. res[j].code # i
      BY <1>3, <3>2, <3>3 DEF Held, ResIds
    <3> QED
      BY <1>2, <3>1, <3>2, <3>3, <3>4
  <2> QED
    BY <2>1, <2>2
<1>9. OneReservationPerBooking'
  BY <1>1, CommitKeepsOne DEF OneEachBooking
<1> QED
  BY <1>5, <1>8, <1>9 DEF OneEachBooking

LEMMA CommitInv ==
    ASSUME CrsInv, NEW r \in DOMAIN revs, Commit(r), TypeOK',
           SettlesIntent(res'[Matched(revs[r])].code),
           UNCHANGED <<revs, rows, replies, at, crsFaults>>,
           faults'["crash"] = faults["crash"]
    PROVE  CrsInv'
<1>1. PICK i : i = Matched(revs[r])
  OBVIOUS
<1>2. PICK d : d = revs[r].code
  OBVIOUS
<1>3. /\ CrsTypeOK /\ TypeOK /\ Bounded /\ RevsOK
      /\ SettlesIntent(res'[i].code)
  BY <1>1 DEF CrsInv, CrsTypeOK
<1> DEFINE e == res'[i].code
<1>4. /\ intents' \in [ResIds -> Intent \cup {NoIntent}] /\ Recorded' = Recorded
      /\ \A c \in Recorded : Settled(c, e)
  <2> HIDE DEF e
  <2>1. SettlesIntent(e)
    BY <1>3 DEF e
  <2> QED
    BY <1>3, <2>1, SettledIntents
<1>5. CrsTypeOK'
  <2>1. \A s \in Actors : Fits(at[s])'
    BY <1>3, <1>4 DEF CrsTypeOK, Fits
  <2> QED
    BY <1>3, <1>4, <2>1 DEF CrsTypeOK
<1>6. /\ i \in ResIds
      /\ \A k \in ResIds : k # i => res'[k] = res[k]
      /\ nextRes' = IF i = nextRes THEN nextRes + 1 ELSE nextRes
  BY <1>1, <1>3, CommitFields
<1>7. Bounded'
  <2>1. i < nextRes'
    <3>1. i \in Held \/ i = nextRes
      BY <1>1, <1>3, MatchedCases
    <3> QED
      BY <1>3, <1>6, <3>1 DEF Bounded, TypeOK
  <2>2. \A k \in Held' : k # i => k \in Held
    BY <1>6 DEF Held
  <2>3. nextRes \in Nat /\ nextRes <= nextRes' /\ nextRes' \in Nat /\ \A k \in ResIds : k \in Nat
    BY <1>3, <1>6 DEF TypeOK, ResIds
  <2>4. \A k \in Held' : k \in ResIds
    BY DEF Held
  <2>5. \A k \in Held' : k < nextRes'
    BY <1>3, <2>1, <2>2, <2>3, <2>4 DEF Bounded
  <2> QED
    BY <1>3, <2>3, <2>5 DEF Bounded
<1>8. RevsOK'
  BY <1>3 DEF RevsOK, Booked
<1>9. LiveIsDurable'
  <2>1. \A c \in Live' : c \in Live
    BY <1>4 DEF Live, Settled, Recorded
  <2> QED
    BY <2>1 DEF CrsInv, LiveIsDurable
<1>10. /\ NeverRestarted' = NeverRestarted
       /\ NothingLost' = NothingLost
  BY DEF NeverRestarted, NothingLost
<1>11. NeverRestarted' => Kept'
  BY <1>1, <1>2, <1>3, <1>10, CommitKept DEF CrsInv
<1>12. Senders => Senders'
  <2>1. \A c \in Recorded : intents'[c].status \in {intents[c].status, "reconciled"}
    BY <1>4 DEF Settled
  <2>2. /\ \A c : Sent(c)' <=> Sent(c)
        /\ \A s \in Actors : AtPost(s)' <=> AtPost(s)
    BY DEF Sent, AtPost
  <2>3. \A s \in Actors : Sent(at[s].cur)' <=> Sent(at[s].cur)
    BY DEF Sent
  <2> QED
    BY <1>4, <2>1, <2>2, <2>3 DEF Senders
<1>13. SentOnce => SentOnce'
  BY DEF SentOnce
<1>14. NothingLost /\ SentOnce /\ OneEachBooking => OneEachBooking'
  <2>1. NothingLost => Kept
    BY DEF CrsInv, NothingLost
  <2> QED
    BY <1>1, <1>2, <1>3, <2>1, CommitOneEach
<1> QED
  BY <1>5, <1>7, <1>8, <1>9, <1>10, <1>11, <1>12, <1>13, <1>14 DEF CrsInv

\* Feed, webhooks, acknowledgements, retries, and what happens at Channex.
LEMMA RevisionsInv ==
    ASSUME CrsInv, Revisions
    PROVE  CrsInv'
<1>1. Running /\ Reconciles /\ UNCHANGED <<rows, replies, at, crsFaults>>
  BY DEF Revisions
<1>2. CrsTypeOK /\ TypeOK
  BY DEF CrsInv, CrsTypeOK
<1>3. TypeOK'
  BY <1>1, <1>2, NextType DEF Next
<1>4. /\ \/ \E r \in DOMAIN revs : Commit(r) /\ UNCHANGED revs
         \/ UNCHANGED <<res, nextRes, applied, revs>>
         \/ Channex /\ UNCHANGED <<res, nextRes, applied>>
      /\ faults'["crash"] = faults["crash"]
  BY <1>1, <1>2, RunningSteps
<1>5. CASE \E r \in DOMAIN revs : Commit(r) /\ UNCHANGED revs
  <2>1. PICK r \in DOMAIN revs : Commit(r) /\ UNCHANGED revs
    BY <1>5
  <2>2. applied \in Seq(DOMAIN revs) /\ applied' = Append(applied, r)
    BY <1>2, <2>1 DEF TypeOK, Commit
  <2>3. applied' # applied /\ applied'[Len(applied')] = r
    <3> DEFINE D == DOMAIN revs
    <3>1. applied \in Seq(D)
      BY <2>2
    <3> HIDE DEF D
    <3>2. Len(applied') = Len(applied) + 1 /\ Len(applied) \in Nat
          /\ applied'[Len(applied) + 1] = r
      BY <2>2, <3>1, Appended
    <3> QED
      BY <3>2
  <2>4. SettlesIntent(res'[Matched(revs[r])].code)
    BY <1>1, <2>3 DEF Reconciles, SettlesIntent
  <2> QED
    BY <1>1, <1>3, <1>4, <2>1, <2>4, CommitInv
<1>6. CASE UNCHANGED <<res, nextRes, applied>>
  <2>1. UNCHANGED intents
    BY <1>1, <1>6 DEF Reconciles
  <2>2. CrsTypeOK'
    <3>1. Recorded' = Recorded
      BY <2>1 DEF Recorded
    <3>2. \A s \in Actors : Fits(at[s])'
      BY <1>1, <1>2, <3>1 DEF CrsTypeOK, Fits
    <3> QED
      BY <1>1, <1>2, <1>3, <2>1, <3>1, <3>2 DEF CrsTypeOK
  <2>3. CASE UNCHANGED revs
    <3>1. Recorded' = Recorded /\ Held' = Held /\ Live' = Live
      BY <1>6, <2>1 DEF Recorded, Held, Live
    <3>2. Bounded' /\ RevsOK' /\ LiveIsDurable'
      BY <1>1, <1>4, <1>6, <2>1, <2>3, <3>1
         DEF CrsInv, Bounded, RevsOK, Booked, LiveIsDurable
    <3>3. NeverRestarted' = NeverRestarted /\ NothingLost' = NothingLost
      BY <1>1, <1>4 DEF NeverRestarted, NothingLost
    <3>4. Kept => Kept'
      BY <1>1, <1>6, <2>1, <2>3, <3>1 DEF Kept, IntentKept, ReservationKept, Tells
    <3>5. Senders => Senders'
      BY <1>1, <2>1, <2>3, <3>1 DEF Senders, Sent, AtPost
    <3>6. SentOnce => SentOnce'
      BY <2>3 DEF SentOnce
    <3>7. OneEachBooking => OneEachBooking'
      BY <1>6, <3>1 DEF OneEachBooking, OneReservationPerBooking
    <3> QED
      BY <2>2, <3>2, <3>3, <3>4, <3>5, <3>6, <3>7 DEF CrsInv
  <2>4. CASE Channex
    BY <1>1, <1>6, <2>1, <2>2, <2>4, ChannexInv DEF Channex, NewBooking, Modified, Cancelled, Says
  <2> QED
    BY <1>2, <1>4, <1>6, <2>3, <2>4 DEF Commit
<1> QED
  BY <1>4, <1>5, <1>6

-----------------------------------------------------------------------------
(* A new booking, and a restart.                                           *)

\* The id is new, and before any restart so is the code made of it.
LEMMA BookInv ==
    ASSUME CrsInv, NEW s \in Clients, NEW q \in Requests, Book(s, q)
    PROVE  CrsInv'
<1> DEFINE c == nextRes
           intent == IF intents[c] # NoIntent THEN intents[c] ELSE Queued(q)
           new == [booking |-> 0, code |-> c, status |-> "pending_sync", type |-> q.type,
                   stay |-> q.stay, room |-> NoRoom, src |-> 0]
           actor == [Idle EXCEPT !.pc = "insert", !.cur = c, !.row = RowOf(intent)]
<1>1. /\ at[s].pc = "idle" /\ c \in ResIds
      /\ res' = [res EXCEPT ![c] = new] /\ nextRes' = c + 1
      /\ intents' = [intents EXCEPT ![c] = intent] /\ replies' = [replies EXCEPT ![q] = c]
      /\ Go(s, actor) /\ UNCHANGED <<rows, revs, crsFaults>> /\ Quiet
  BY DEF Book
<1>2. /\ CrsTypeOK /\ TypeOK /\ s \in Actors /\ RevsOK /\ Bounded /\ LiveIsDurable
      /\ intents \in [ResIds -> Intent \cup {NoIntent}] /\ at \in [Actors -> ActorState]
      /\ replies \in [Requests -> Codes] /\ res \in [ResIds -> Reservation \cup {NoRes}]
      /\ c \in Codes /\ c # 0 /\ c \in Nat
  <2>1. CrsTypeOK /\ TypeOK /\ RevsOK /\ Bounded /\ LiveIsDurable
    BY DEF CrsInv, CrsTypeOK
  <2>2. /\ intents \in [ResIds -> Intent \cup {NoIntent}] /\ at \in [Actors -> ActorState]
        /\ replies \in [Requests -> Codes]
    BY <2>1 DEF CrsTypeOK
  <2>3. res \in [ResIds -> Reservation \cup {NoRes}]
    BY <2>1 DEF TypeOK
  <2>4. s \in Actors
    BY DEF Actors
  <2>5. c \in Codes /\ c # 0 /\ c \in Nat
    BY <1>1, ConstantsAssumption DEF ResIds, Codes
  <2> QED
    BY <2>1, <2>2, <2>3, <2>4, <2>5
<1>3. Queued(q) \in Intent /\ Queued(q).status = "queued" /\ Queued(q).booking = 0
  BY ConstantsAssumption, CrsConstantsAssumption
     DEF Queued, Intent, IntentStatuses, BookingIds, Types
<1>4. intent \in Intent
  BY <1>1, <1>2, <1>3
<1>5. /\ new \in Reservation
      /\ new.booking = 0 /\ new.code = c /\ new.src = 0 /\ new.status = "pending_sync"
  BY <1>1, <1>2, ConstantsAssumption, CrsConstantsAssumption
     DEF Reservation, BookingIds, Statuses, Types
<1>6. /\ actor \in ActorState /\ actor.pc = "insert" /\ actor.cur = c
      /\ actor.row \in Row /\ actor.booking = 0 /\ actor.todo = {}
  <2>1. RowOf(intent) \in Row /\ Idle \in ActorState
    BY <1>2, <1>4, RowOfType, IdleFits DEF Fits
  <2> HIDE DEF intent
  <2> QED
    BY <1>2, <2>1 DEF Idle, ActorState, Pcs
<1>7. intents[c] = NoIntent => intent.status = "queued" /\ intent.booking = 0
  BY <1>3
<1>8. intents[c] # NoIntent => intent = intents[c]
  OBVIOUS
<1> HIDE DEF new, actor, intent
<1>9. /\ res' \in [ResIds -> Reservation \cup {NoRes}] /\ res'[c] = new
      /\ \A i \in ResIds : i # c => res'[i] = res[i]
      /\ intents' \in [ResIds -> Intent \cup {NoIntent}] /\ intents'[c] = intent
      /\ \A i \in ResIds : i # c => intents'[i] = intents[i]
      /\ at' \in [Actors -> ActorState] /\ at'[s] = actor
      /\ \A t \in Actors : t # s => at'[t] = at[t]
      /\ replies' \in [Requests -> Codes] /\ replies'[q] = c
      /\ \A p \in Requests : p # q => replies'[p] = replies[p]
  BY <1>1, <1>2, <1>4, <1>5, <1>6 DEF Go
<1>10. Recorded' = Recorded \cup {c} /\ Held' \subseteq Held \cup {c}
  <2>1. intent # NoIntent
    BY <1>4, NoIntentAssumption
  <2> QED
    BY <1>1, <1>5, <1>9, <2>1 DEF Recorded, Held
<1>11. CrsTypeOK'
  <2>1. TypeOK'
    BY <1>1, <1>2, <1>9 DEF TypeOK, Quiet, jobs
  <2>2. ASSUME NEW t \in Actors
        PROVE  Fits(at[t])'
    <3>1. CASE t = s
      BY <1>6, <1>9, <1>10, <3>1 DEF Fits
    <3>2. CASE t # s
      <4>1. Fits(at[t])
        BY <1>2 DEF CrsTypeOK
      <4> QED
        BY <1>9, <1>10, <3>2, <4>1 DEF Fits
    <3> QED
      BY <3>1, <3>2
  <2>3. \A p \in Requests : replies'[p] # 0 => replies'[p] \in Recorded'
    BY <1>2, <1>9, <1>10 DEF CrsTypeOK
  <2> QED
    BY <1>1, <1>2, <1>9, <2>1, <2>2, <2>3 DEF CrsTypeOK
<1>12. Bounded' /\ RevsOK'
  BY <1>1, <1>2, <1>10 DEF Bounded, RevsOK, Booked, Quiet, Held, ResIds
<1>13. LiveIsDurable'
  <2>1. ASSUME NEW k \in Live', \A t \in Actors : at'[t].pc = "insert" => at'[t].cur # k
        PROVE  rows'[k] # NoIntent
    <3>1. k # c
      BY <1>2, <1>6, <1>9, <2>1
    <3>2. k \in Live
      BY <1>9, <3>1 DEF Live
    <3>3. \A t \in Actors : at[t].pc = "insert" => at[t].cur # k
      BY <1>1, <1>9, <2>1
    <3> QED
      BY <1>1, <1>2, <3>2, <3>3 DEF LiveIsDurable
  <2> QED
    BY <2>1 DEF LiveIsDurable
<1>14. NeverRestarted' = NeverRestarted /\ NothingLost' = NothingLost
  BY <1>1 DEF NeverRestarted, NothingLost, Quiet
<1>15. \A b, k : Tells(b, k)' <=> Tells(b, k)
  BY <1>1 DEF Tells
<1>16. \A i \in Held : i \in ResIds /\ i < c
  BY <1>2 DEF Bounded, Held
<1>17. ASSUME Kept
       PROVE  c \notin Recorded
  BY <1>2, <1>17 DEF Kept, IntentKept
<1>18. ASSUME Kept
       PROVE  Kept'
  <2>1. ASSUME NEW k \in Recorded'
        PROVE  IntentKept(k)'
    <3>1. CASE k = c
      <4>1. /\ k < nextRes' /\ Tells(intents'[k].booking, k)
            /\ res'[k].code = k /\ intents'[k].status # "reconciled"
        BY <1>1, <1>2, <1>5, <1>7, <1>9, <1>17, <1>18, <3>1 DEF Recorded, Tells
      <4> QED
        BY <1>15, <4>1 DEF IntentKept
    <3>2. CASE k # c
      <4>1. k \in Recorded /\ k \in ResIds /\ IntentKept(k)
        BY <1>10, <1>18, <3>2 DEF Kept, Recorded
      <4>2. k < nextRes'
        BY <1>1, <4>1 DEF IntentKept, ResIds
      <4> QED
        BY <1>9, <1>15, <3>2, <4>1, <4>2 DEF IntentKept
    <3> QED
      BY <3>1, <3>2
  <2>2. ASSUME NEW i \in Held'
        PROVE  ReservationKept(i)'
    <3>1. CASE i = c
      <4>1. /\ res'[i].code = i /\ res'[i].booking = 0 /\ i \in Recorded'
            /\ res'[i].status = "pending_sync"
        BY <1>5, <1>9, <1>10, <3>1
      <4> QED
        BY <4>1 DEF ReservationKept, Tells
    <3>2. CASE i # c
      <4>1. i \in Held /\ i \in ResIds /\ res'[i] = res[i] /\ ReservationKept(i)
        BY <1>9, <1>10, <1>18, <3>2 DEF Kept, Held
      <4>2. res[i].code # 0 => res[i].code # c /\ res[i].code \in ResIds
        BY <1>17, <1>18, <4>1 DEF ReservationKept, Recorded
      <4>3. res[i].code # 0 => res'[res[i].code] = res[res[i].code]
        BY <1>9, <4>2
      <4> QED
        BY <1>10, <1>15, <4>1, <4>3 DEF ReservationKept
    <3> QED
      BY <3>1, <3>2
  <2>3. \A t \in Actors : Tells(at'[t].booking, at'[t].cur)
    <3>1. \A t \in Actors : Tells(at[t].booking, at[t].cur)
      BY <1>18 DEF Kept
    <3> QED
      BY <1>6, <1>9, <3>1 DEF Tells
  <2>4. \A t \in Actors : Tells(at[t].booking, at[t].cur)'
    BY <1>1, <2>3 DEF Tells
  <2>5. \A r \in DOMAIN revs' : revs'[r].code # 0 => revs'[r].code \in Recorded'
    BY <1>1, <1>10, <1>18 DEF Kept
  <2> QED
    BY <2>1, <2>2, <2>4, <2>5 DEF Kept
<1>19. ASSUME Kept, Senders
       PROVE  Senders'
  <2>1. /\ ~Sent(c) /\ \A t \in Actors : AtPost(t) => at[t].cur # c
    <3>1. ~Sent(c)
      BY <1>2, <1>17, <1>19 DEF Kept, Sent
    <3>2. \A t \in Actors : AtPost(t) => at[t].cur \in Recorded
      BY <1>2 DEF CrsTypeOK, Fits, AtPost
    <3> QED
      BY <1>17, <1>19, <3>1, <3>2
  <2>2. \A t \in Actors : AtPost(t)' => t # s /\ AtPost(t) /\ at'[t] = at[t]
    BY <1>6, <1>9 DEF AtPost
  <2>3. \A k : Sent(k)' <=> Sent(k)
    BY <1>1 DEF Sent
  <2>4. ASSUME NEW k \in Recorded'
        PROVE  /\ intents'[k].status # "retry"
               /\ intents'[k].status = "queued" =>
                    ~Sent(k)' /\ \A t \in Actors : AtPost(t)' => at'[t].cur # k
    <3>1. CASE k = c
      <4>1. intents'[k].status = "queued"
        BY <1>1, <1>7, <1>9, <1>17, <1>19, <3>1 DEF Recorded
      <4> QED
        BY <2>1, <2>2, <2>3, <3>1, <4>1
    <3>2. CASE k # c
      <4>1. k \in Recorded /\ intents'[k] = intents[k]
        BY <1>9, <1>10, <3>2 DEF Recorded
      <4> QED
        BY <1>19, <2>2, <2>3, <4>1 DEF Senders
    <3> QED
      BY <3>1, <3>2
  <2>5. ASSUME NEW t \in Actors, at'[t].pc = "post"
        PROVE  ~Sent(at[t].cur)'
    <3>1. at'[t] = at[t] /\ ~Sent(at[t].cur)
      BY <1>19, <2>2, <2>5 DEF AtPost, Senders
    <3> QED
      BY <1>1, <3>1 DEF Sent
  <2>6. \A t, u \in Actors : AtPost(t)' /\ AtPost(u)' /\ t # u => at'[t].cur # at'[u].cur
    BY <1>19, <2>2 DEF Senders
  <2> QED
    BY <2>4, <2>5, <2>6 DEF Senders
<1>20. SentOnce => SentOnce'
  BY <1>1 DEF SentOnce
<1>21. ASSUME Kept, OneEachBooking
       PROVE  OneEachBooking'
  <2>1. \A i \in Held' : res'[i].src # 0 => res'[i].booking # 0
    BY <1>5, <1>9, <1>10, <1>16, <1>21 DEF OneEachBooking
  <2>2. ASSUME NEW i \in Held', res'[i].code \notin {0, i}
        PROVE  res'[res'[i].code] = NoRes
    <3>1. i # c /\ i \in Held /\ res'[i] = res[i]
      BY <1>5, <1>9, <1>10, <1>16, <2>2
    <3>2. res[i].code \in Recorded /\ res[res[i].code] = NoRes
      BY <1>21, <2>2, <3>1 DEF Kept, ReservationKept, OneEachBooking
    <3>3. res[i].code # c /\ res[i].code \in ResIds
      BY <1>17, <1>21, <3>2 DEF Recorded
    <3> QED
      BY <1>9, <3>1, <3>2, <3>3
  <2>3. OneReservationPerBooking'
    BY <1>5, <1>9, <1>10, <1>16, <1>21 DEF OneEachBooking, OneReservationPerBooking
  <2> QED
    BY <2>1, <2>2, <2>3 DEF OneEachBooking
<1>22. NothingLost => NeverRestarted
  BY DEF NothingLost
<1> QED
  BY <1>11, <1>12, <1>13, <1>14, <1>18, <1>19, <1>20, <1>21, <1>22 DEF CrsInv

\* What a restart reads back has its row; that it has happened stays known.
LEMMA RestartInv ==
    ASSUME CrsInv, Restart
    PROVE  CrsInv'
<1>1. /\ Crash /\ CanCrsFault("restart") /\ CrsFault("restart")
      /\ intents' = [c \in ResIds |->
                        IF rows'[c] = NoIntent THEN NoIntent ELSE Hydrated(rows'[c])]
      /\ replies' = [q \in Requests |-> 0] /\ at' = [s \in Actors |-> Idle]
  BY DEF Restart
<1>2. CrsTypeOK /\ TypeOK /\ RevsOK /\ Bounded
  BY DEF CrsInv, CrsTypeOK
<1>3. rows' \in [ResIds -> Row \cup {NoIntent}]
  <2>1. CASE rows' = rows
    BY <1>2, <2>1 DEF CrsTypeOK
  <2>2. CASE \E s \in Actors : at[s].pc = "insert" /\ rows' = Inserted(at[s].cur, at[s].row)
    BY <1>2, <2>2, InsertedFits DEF RowsFit
  <2>3. CASE \E s \in Actors : at[s].pc = "save" /\ rows' = Updated(s)
    BY <1>2, <2>3, UpdatedFits DEF RowsFit
  <2> QED
    BY <2>1, <2>2, <2>3 DEF Restart
<1>4. \A r \in Row : Hydrated(r) \in Intent
  BY DEF Hydrated, Row, Intent
<1>5. intents' \in [ResIds -> Intent \cup {NoIntent}]
  BY <1>1, <1>3, <1>4
<1>6. TypeOK' /\ revs' = revs /\ res' = NoReservations /\ nextRes' = 1
      /\ faults'["crash"] < faults["crash"]
  <2>1. TypeOK' /\ revs' = revs /\ res' = NoReservations /\ nextRes' = 1
    BY <1>1, <1>2, CrashType DEF Crash
  <2>2. faults["crash"] \in Nat /\ faults'["crash"] = faults["crash"] - 1
    BY <1>1, <1>2 DEF Crash, Fault, FaultKinds, TypeOK
  <2> QED
    BY <2>1, <2>2
<1>7. FaultsFit /\ crsFaults["lost"] \in Nat /\ crsFaults'["lost"] \in Nat
  BY <1>1, <1>2, FaultFits DEF CrsFaultKinds, FaultsFit, CrsTypeOK
<1>8. \A s \in Actors : Fits(at[s])'
  BY <1>1, ConstantsAssumption DEF Fits, Idle, ActorState, Pcs, Codes, BookingIds
<1>9. CrsTypeOK'
  <2>1. 0 \in Codes
    BY ConstantsAssumption DEF Codes
  <2>2. at' \in [Actors -> ActorState]
    BY <1>1, <1>2, IdleFits DEF Fits
  <2> QED
    BY <1>1, <1>3, <1>5, <1>6, <1>7, <1>8, <2>1, <2>2 DEF CrsTypeOK, FaultsFit
<1>10. Held' = {}
  BY <1>6 DEF Held, NoReservations
<1>11. /\ faults["crash"] \in Nat /\ faults'["crash"] \in Nat
       /\ MaxFaults["crash"] \in Nat /\ MaxCrsFaults["lost"] \in Nat
  BY <1>2, <1>6, ConstantsAssumption, CrsConstantsAssumption
     DEF TypeOK, FaultKinds, CrsFaultKinds
<1>12. Bounded'
  BY <1>2, <1>6, <1>7, <1>10, <1>11 DEF Bounded, FaultsFit
<1>13. RevsOK'
  BY <1>2, <1>6 DEF RevsOK, Booked
<1>14. LiveIsDurable'
  BY <1>1 DEF LiveIsDurable, Live
<1>15. ~NeverRestarted' /\ ~NothingLost'
  BY <1>2, <1>6, <1>11 DEF NeverRestarted, NothingLost, Bounded
<1> QED
  BY <1>9, <1>12, <1>13, <1>14, <1>15 DEF CrsInv

-----------------------------------------------------------------------------
(* Every step, and what follows.                                           *)

LEMMA InitInv == CrsInit => CrsInv
<1> SUFFICES ASSUME CrsInit PROVE CrsInv
  OBVIOUS
<1>1. TypeOK
  BY InitType DEF CrsInit
<1>2. /\ Recorded = {} /\ Held = {} /\ Live = {} /\ DOMAIN revs = {} /\ Len(revs) = 0
      /\ nextRes = 1 /\ \A s \in Actors : at[s] = Idle
  BY DEF CrsInit, Init, Recorded, Held, Live, NoReservations
<1>3. CrsTypeOK
  <2>1. 0 \in Codes /\ 0 \in BookingIds
    BY ConstantsAssumption DEF Codes, BookingIds
  <2>2. Idle \in ActorState /\ Fits(Idle)
    BY <2>1 DEF Idle, ActorState, Pcs, Fits
  <2> HIDE DEF Idle
  <2>3. /\ intents \in [ResIds -> Intent \cup {NoIntent}]
        /\ rows \in [ResIds -> Row \cup {NoIntent}]
        /\ replies = [q \in Requests |-> 0] /\ at = [s \in Actors |-> Idle]
        /\ crsFaults \in [CrsFaultKinds -> Nat]
    BY CrsConstantsAssumption DEF CrsInit
  <2> QED
    BY <1>1, <1>2, <2>1, <2>2, <2>3 DEF CrsTypeOK
<1>4. Bounded /\ LiveIsDurable
  <2>1. /\ faults["crash"] = MaxFaults["crash"] /\ MaxFaults["crash"] \in Nat
        /\ crsFaults["lost"] = MaxCrsFaults["lost"] /\ MaxCrsFaults["lost"] \in Nat
    BY ConstantsAssumption, CrsConstantsAssumption
       DEF CrsInit, Init, FaultKinds, CrsFaultKinds
  <2> QED
    BY <1>2, <2>1 DEF Bounded, LiveIsDurable
<1>5. RevsOK
  <2>1. Booked = {} /\ 1..0 = {}
    BY <1>2 DEF Booked
  <2>2. 0 \in 0..Len(revs) /\ Booked = 1..0
    BY <1>2, <2>1
  <2> QED
    BY <1>2, <2>2 DEF RevsOK
<1>6. Kept
  BY <1>2 DEF Kept, Tells, Idle
<1>7. Senders /\ SentOnce /\ OneEachBooking
  BY <1>2 DEF Senders, SentOnce, OneEachBooking, OneReservationPerBooking, AtPost, Idle
<1> QED
  BY <1>3, <1>4, <1>5, <1>6, <1>7 DEF CrsInv

LEMMA PostingInv ==
    ASSUME CrsInv, NEW s \in Actors, Posting(s)
    PROVE  CrsInv'
<1>1. CrsTypeOK
  BY DEF CrsInv
<1>2. CASE PostArrives(s)
  BY <1>2, PostArrivesInv
<1>3. CASE PostOk(s)
  BY <1>1, <1>3, PostOkQuiet, QuietInv
<1>4. CASE PostUnknown(s)
  BY <1>1, <1>4, PostUnknownQuiet, QuietInv
<1>5. CASE PostRefused(s)
  BY <1>1, <1>5, PostRefusedQuiet, QuietInv
<1> QED
  BY <1>2, <1>3, <1>4, <1>5 DEF Posting

LEMMA ClientInv ==
    ASSUME CrsInv, NEW s \in Clients, Request(s) \/ Answering(s)
    PROVE  CrsInv'
<1>1. CrsTypeOK /\ s \in Actors
  BY DEF CrsInv, Actors
<1>2. CASE Request(s)
  BY <1>1, <1>2, BookInv, BookAgainQuiet, QuietInv DEF Request
<1>3. CASE InsertOk(s)
  BY <1>1, <1>3, InsertOkQuiet, QuietInv
<1>4. CASE InsertFails(s)
  BY <1>1, <1>4, InsertFailsQuiet, QuietInv
<1>5. CASE ClientReady(s) /\ Sendable(at[s].cur)
  BY <1>5, ClientSendsInv
<1>6. CASE ClientReady(s) /\ ~Sendable(at[s].cur)
  BY <1>1, <1>6, ClientAnswersQuiet, QuietInv
<1>7. CASE ClientFails(s)
  BY <1>1, <1>7, ClientFailsQuiet, QuietInv
<1>8. CASE Posting(s)
  BY <1>1, <1>8, PostingInv
<1>9. CASE ClientSaved(s)
  BY <1>1, <1>9, ClientSavedQuiet, QuietInv
<1> QED
  BY <1>2, <1>3, <1>4, <1>5, <1>6, <1>7, <1>8, <1>9 DEF Answering

LEMMA DrainInv ==
    ASSUME CrsInv, NEW d \in Drains, Drain(d)
    PROVE  CrsInv'
<1>1. CrsTypeOK /\ d \in Actors
  BY DEF CrsInv, Actors
<1>2. CASE DrainStart(d)
  BY <1>1, <1>2, DrainStartQuiet, QuietInv
<1>3. CASE \E c \in at[d].todo : SweepSends(d, c)
  BY <1>3, SweepSendsInv
<1>4. CASE Posting(d)
  BY <1>1, <1>4, PostingInv
<1>5. CASE SweepEnds(d)
  BY <1>1, <1>5, SweepEndsQuiet, QuietInv
<1>6. CASE DrainSaved(d)
  BY <1>1, <1>6, DrainSavedQuiet, QuietInv
<1>7. CASE DrainSaveFails(d)
  BY <1>1, <1>7, DrainSaveFailsQuiet, QuietInv
<1> QED
  BY <1>2, <1>3, <1>4, <1>5, <1>6, <1>7 DEF Drain

LEMMA StutterInv ==
    ASSUME CrsInv, UNCHANGED all
    PROVE  CrsInv'
<1>1. CrsTypeOK
  BY DEF CrsInv
<1>2. NoNewRes /\ UNCHANGED <<res, intents, rows, replies, at, revs, crsFaults>>
  BY DEF all, vars, crs, local, jobs, NoNewRes, Quiet
<1> QED
  BY <1>1, <1>2, Unmoved, QuietlyOf, QuietInv

LEMMA StepInv == CrsInv /\ [CrsNext]_all => CrsInv'
<1> SUFFICES ASSUME CrsInv, [CrsNext]_all PROVE CrsInv'
  OBVIOUS
<1>1. CrsTypeOK
  BY DEF CrsInv
<1>2. CASE \E c \in ResIds : BackoffExpires(c)
  BY <1>1, <1>2, BackoffQuiet, QuietInv
<1>3. CASE \E s \in Clients : Request(s) \/ Answering(s)
  BY <1>3, ClientInv
<1>4. CASE \E d \in Drains : Drain(d)
  BY <1>4, DrainInv
<1>5. CASE Revisions
  BY <1>5, RevisionsInv
<1>6. CASE Restart
  BY <1>6, RestartInv
<1>7. CASE UNCHANGED all
  BY <1>7, StutterInv
<1> QED
  BY <1>2, <1>3, <1>4, <1>5, <1>6, <1>7 DEF CrsNext

\* What requests, drains, revisions and restarts keep, in three layers: always, while
\* there was no restart, and while no answer of Channex was lost either.
THEOREM CrsInvariant == CrsSpec => []CrsInv
BY InitInv, StepInv, PTL DEF CrsSpec

\* R15: no intent in memory is without its row, unless its insert is awaited; whatever
\* rolls back, drains or restarts.
THEOREM IntentsAreDurable == CrsSpec => []LiveIsDurable
<1>1. CrsInv => LiveIsDurable
  BY DEF CrsInv
<1> QED
  BY <1>1, CrsInvariant, PTL

\* AE3: until the first restart a reservation is confirmed by a committed revision only,
\* by none of the paths on which an accepted POST is shown.
THEOREM ConfirmedOnlyByRevision == CrsSpec => []ConfirmedByRevision
<1>1. CrsInv => ConfirmedByRevision
  <2> SUFFICES ASSUME CrsInv, NeverRestarted PROVE LocalOnly = {}
    BY DEF ConfirmedByRevision
  <2>1. \A i \in Held : res[i].src = 0 => res[i].status = "pending_sync"
    BY DEF CrsInv, Kept, ReservationKept
  <2> QED
    BY <2>1 DEF LocalOnly
<1> QED
  BY <1>1, CrsInvariant, PTL

\* As long as no answer is lost, one booking is made at Channex for an Offline code,
\* by however many requests and drains.
THEOREM CreatedOnce == CrsSpec => []OneCreatePerCode
<1>1. CrsInv => OneCreatePerCode
  <2> SUFFICES ASSUME CrsInv, NothingLost, NEW c \in ResIds
               PROVE  Cardinality(Creates(c)) <= 1
    BY DEF OneCreatePerCode
  <2>1. \A r, q \in Creates(c) : r = q
    BY DEF CrsInv, SentOnce, Creates, ResIds
  <2>2. CASE Creates(c) = {}
    BY <2>2, FS_EmptySet
  <2>3. CASE Creates(c) # {}
    <3>1. PICK r \in Creates(c) : TRUE
      BY <2>3
    <3>2. Creates(c) = {r}
      BY <2>1, <3>1
    <3>3. Cardinality(Creates(c)) = 1
      BY <3>2, FS_Singleton, Zenon
    <3> QED
      BY <3>3
  <2> QED
    BY <2>2, <2>3
<1> QED
  BY <1>1, CrsInvariant, PTL

\* ... and the booking is one reservation here, whether its revision is committed before
\* the answer to the POST or after it.
THEOREM DirectBookingsStayOne == CrsSpec => []OneReservationPerDirectBooking
<1>1. CrsInv => OneReservationPerDirectBooking
  BY DEF CrsInv, OneEachBooking, OneReservationPerDirectBooking
<1> QED
  BY <1>1, CrsInvariant, PTL
=============================================================================
