-------------------------- MODULE AriProjectionProofs --------------------------
(***************************************************************************)
(* Proofs about AriProjection, for any catalog, any number of pullers and  *)
(* faults: it implements LaggingCopy, its version never falls, and a form  *)
(* that is still fresh shows what the projection has.                      *)
(***************************************************************************)
EXTENDS AriProjection, TLAPS, FiniteSetTheorems

-----------------------------------------------------------------------------
(* The inductive invariant.                                                *)

AskingPcs == {"avail", "plans", "restr"}
Running(h) == pull[h].pc \in AskingPcs
NoRows == [c \in Cells |-> NoRow]

Tables == [Cells -> Row \cup {NoRow}]
\* What a puller may be holding: values or rows of some cells, or plans.
Gots == {NoAnswer} \cup (SUBSET Plans)
        \cup UNION {[S -> Values \cup Row \cup {NoRow}] : S \in SUBSET Cells}
PullNames == Millis \cup {Nobody}
Locals == [pc : AskingPcs \cup {"idle", "persist"}, name : PullNames, cand : Nat, todo : SUBSET Properties,
           ids : SUBSET Plans, got : Gots, changed : BOOLEAN, save : SUBSET Cells]
Intents == [cell : Cells, val : Values, base : Nat, sent : BOOLEAN,
            got : Values \cup {NoAnswer}]
Forms == [ver : Nat, seen : [Cells -> Values \cup {NoRow}], settled : BOOLEAN]

TypeOK ==
    /\ channex \in [Cells -> Values] /\ held \in [Cells -> SUBSET Values]
    /\ offered \subseteq Plans
    /\ rows \in Tables /\ saved \in Tables
    /\ lease \in PullNames /\ now \in PullNames
    /\ pull \in [Pullers -> Locals]
    /\ hydrated \in BOOLEAN /\ disturbed \in BOOLEAN
    /\ forms \subseteq Forms
    /\ intent \in Intents \cup {NoIntent}

\* Whatever is on its way holds only values Channex has had in that cell.
HeldRow(c, r) == r # NoRow => r.val \in held[c]
TablesHeld == \A c \in Cells : HeldRow(c, rows[c]) /\ HeldRow(c, saved[c])
GotHeld(l) ==
    /\ l.pc \in {"avail", "restr"} /\ l.got # NoAnswer =>
           /\ l.got \in [DOMAIN l.got -> Values] /\ DOMAIN l.got \subseteq Cells
           /\ \A c \in DOMAIN l.got : l.got[c] \in held[c]
    /\ l.pc = "plans" /\ l.got # NoAnswer => l.got \subseteq Plans
    /\ l.pc = "persist" =>
           /\ l.got \in [DOMAIN l.got -> Row \cup {NoRow}] /\ DOMAIN l.got \subseteq Cells
           /\ \A c \in DOMAIN l.got : HeldRow(c, l.got[c])
AllHeld ==
    /\ \A c \in Cells : channex[c] \in held[c]
    /\ TablesHeld
    /\ \A h \in Pullers : GotHeld(pull[h])
    /\ intent # NoIntent /\ intent.got # NoAnswer => intent.got \in held[intent.cell]

\* A process that has not loaded its rows has none and pulls nothing.
NothingLoaded ==
    ~hydrated =>
        /\ rows = NoRows /\ \A h \in Pullers : pull[h].pc = "idle"
        /\ \A f \in forms : ~f.settled

IInv == TypeOK /\ AllHeld /\ NothingLoaded

\* As long as no lease has run out or was shared and no process was restarted, one puller
\* at most is running, under the name that has the lease and with a version above all
\* others, and a command is based on a version there has been.
OnePuller ==
    ~disturbed =>
        /\ hydrated
        /\ \A h \in Pullers : Running(h) => /\ lease = pull[h].name /\ lease # Nobody
                                            /\ VersionOf(rows) <= pull[h].cand
        /\ \A g, h \in Pullers : Running(g) /\ Running(h) => g = h
        /\ intent # NoIntent => intent.base <= VersionOf(rows)

\* A settled form is overtaken by the version, or shows what there is; pulls under
\* way began after it was drawn.
FormsOvertaken ==
    \A f \in forms : f.settled =>
        /\ f.ver < VersionOf(rows) \/ (f.ver = VersionOf(rows) /\ f.seen = Drawn(rows))
        /\ \A h \in Pullers : Running(h) => f.ver < pull[h].cand

-----------------------------------------------------------------------------
(* Lemmas about the operators.                                             *)

\* A non-empty finite set of naturals has a greatest element.
LEMMA FiniteMax ==
    ASSUME NEW S, IsFiniteSet(S), S \subseteq Nat, S # {}
    PROVE  \E x \in S : \A y \in S : y <= x
<1> DEFINE Topped(T) == \E x \in T : \A y \in T : y <= x
           Bad == {T \in FiniteSubsetsOf(S) : T # {} /\ ~Topped(T)}
           R == StrictSubsetOrdering(S)
<1> SUFFICES ASSUME ~Topped(S) PROVE FALSE
  OBVIOUS
<1>1. S \in FiniteSubsetsOf(S)
  BY DEF FiniteSubsetsOf
<1>2. S \in Bad
  BY <1>1
<1>3. PICK T \in Bad : \A U \in Bad : ~(<<U, T>> \in R)
  <2>1. IsWellFoundedOn(R, FiniteSubsetsOf(S))
    BY FS_StrictSubsetOrderingWellFounded
  <2>2. Bad \subseteq FiniteSubsetsOf(S)
    OBVIOUS
  <2> HIDE DEF Bad, R
  <2> QED
    BY <1>2, <2>1, <2>2, WFMin
<1>4. T \subseteq S /\ IsFiniteSet(T) /\ T # {} /\ ~Topped(T)
  BY DEF FiniteSubsetsOf
<1>5. PICK x \in T : TRUE
  BY <1>4
<1> DEFINE U == T \ {x}
<1>6. U # {}
  <2>1. ASSUME U = {} PROVE FALSE
    <3>1. T = {x} /\ x \in Nat
      BY <1>4, <1>5, <2>1
    <3> QED
      BY <1>4, <3>1
  <2> QED
    BY <2>1
<1>7. Topped(U)
  <2>1. IsFiniteSet(U)
    BY <1>4, FS_RemoveElement
  <2>2. U \in FiniteSubsetsOf(S)
    BY <1>4, <2>1 DEF FiniteSubsetsOf
  <2>3. <<U, T>> \in R
    BY <1>4, <1>5 DEF StrictSubsetOrdering
  <2>4. U \notin Bad
    BY <1>3, <2>3
  <2> QED
    BY <1>6, <2>2, <2>4
<1>8. PICK m \in U : \A y \in U : y <= m
  BY <1>7
<1>9. m \in Nat /\ x \in Nat /\ m \in T /\ \A y \in T : y = x \/ y \in U
  BY <1>4, <1>5, <1>8
<1>10. CASE m <= x
  <2>1. \A y \in T : y <= x
    BY <1>4, <1>8, <1>9, <1>10
  <2> QED
    BY <1>4, <1>5, <2>1
<1>11. CASE ~(m <= x)
  <2>1. \A y \in T : y <= m
    BY <1>4, <1>8, <1>9, <1>11
  <2> QED
    BY <1>4, <1>9, <2>1
<1> QED
  BY <1>10, <1>11

\* The version of a table is the highest of its rows, or 0.
LEMMA VersionIsMax ==
    ASSUME NEW t \in Tables
    PROVE  /\ VersionOf(t) \in Nat
           /\ \A c \in Cells : t[c] # NoRow => t[c].ver \in Nat /\ t[c].ver <= VersionOf(t)
           /\ \/ VersionOf(t) = 0
              \/ \E c \in Cells : t[c] # NoRow /\ t[c].ver = VersionOf(t)
<1> DEFINE D == {x \in Cells : t[x] # NoRow}
           vers == {t[c].ver : c \in D}
           S == {0} \cup vers
           f == [c \in D |-> t[c].ver]
<1>1. \A c \in D : t[c] \in Row /\ t[c].ver \in Nat
  BY DEF Tables, Row
<1>2. IsFiniteSet(D)
  BY FS_Subset, ProjectionAssumption
<1>3. f \in Surjection(D, vers)
  BY DEF Surjection
<1>4. IsFiniteSet(vers)
  BY <1>2, <1>3, FS_Surjection
<1>5. IsFiniteSet(S) /\ S \subseteq Nat /\ S # {}
  <2>1. IsFiniteSet({0})
    BY FS_Singleton
  <2>2. vers \subseteq Nat
    BY <1>1
  <2>3. IsFiniteSet(S)
    <3> HIDE DEF vers
    <3> QED
      BY <1>4, <2>1, FS_Union
  <2> QED
    BY <2>2, <2>3
<1>6. VersionOf(t) = CHOOSE x \in S : \A y \in S : y <= x
  BY DEF VersionOf, SetMax
<1> HIDE DEF S
<1>7. VersionOf(t) \in S /\ \A y \in S : y <= VersionOf(t)
  BY <1>5, <1>6, FiniteMax
<1>8. \A c \in D : t[c].ver \in S
  BY DEF S
<1>9. VersionOf(t) = 0 \/ VersionOf(t) \in vers
  BY <1>7 DEF S
<1> QED
  BY <1>1, <1>5, <1>7, <1>8, <1>9

\* What a request or a transaction brings is something a puller may hold.
LEMMA GotType ==
    ASSUME NEW S \in SUBSET Cells, NEW f \in [S -> Values \cup Row \cup {NoRow}]
    PROVE  f \in Gots
BY DEF Gots

LEMMA IdleType == Idle \in Locals
<1>1. NoAnswer \in Gots
  BY DEF Gots
<1> QED
  BY <1>1 DEF Idle, Locals, PullNames

LEMMA LocalsType ==
    ASSUME TypeOK, NEW h \in Pullers
    PROVE  pull[h] \in Locals
BY DEF TypeOK

LEMMA AskingType ==
    ASSUME NEW l \in Locals
    PROVE  Asking(l) \in Locals
BY DEF Asking, Locals, Gots, AskingPcs

\* Rows taken from an answer.
LEMMA UpsertedType ==
    ASSUME TypeOK, NEW h \in Pullers, NEW S, S \subseteq Cells,
           \A c \in S : pull[h].got[c] \in Values
    PROVE  Upserted(h, S) \in Tables
<1>1. pull[h].cand \in Nat
  BY LocalsType DEF Locals
<1> QED
  BY <1>1 DEF TypeOK, Tables, Upserted, Row

\* Drawing the calendar adds a form of the right type to those kept.
LEMMA DrawsType ==
    ASSUME NEW kept, kept \subseteq Forms, Draws(kept), rows' \in Tables
    PROVE  forms' \subseteq Forms
<1> DEFINE new == [ver |-> VersionOf(rows'), seen |-> Drawn(rows'), settled |-> Quiet(pull')]
<1>1. VersionOf(rows') \in Nat
  BY VersionIsMax
<1>2. Drawn(rows') \in [Cells -> Values \cup {NoRow}]
  BY DEF Drawn, Tables, Row
<1>3. Quiet(pull') \in BOOLEAN
  BY DEF Quiet
<1>4. new \in Forms
  BY <1>1, <1>2, <1>3 DEF Forms
<1> HIDE DEF new
<1>5. forms' = kept \/ forms' = kept \cup {new}
  BY DEF Draws, new
<1> QED
  BY <1>4, <1>5

LEMMA UnsettledType ==
    ASSUME forms \subseteq Forms
    PROVE  Unsettled(forms) \subseteq Forms
BY DEF Unsettled, Forms

LEMMA FinishedType ==
    ASSUME TypeOK, NEW h \in Pullers, NEW table, NEW changed \in BOOLEAN,
           Finished(h, table, changed)
    PROVE  pull' \in [Pullers -> Locals] /\ lease' \in PullNames /\ now' \in PullNames
<1> DEFINE rest == pull[h].todo \ {Property(h)}
           asks == [pull[h] EXCEPT !.todo = rest, !.ids = {}, !.changed = changed]
           saves == [Idle EXCEPT !.pc = "persist", !.changed = TRUE,
                                 !.save = ToSave(h, table), !.got = [c \in {} |-> NoRow]]
<1>1. pull[h] \in Locals
  BY LocalsType
<1>2. asks \in Locals
  BY <1>1 DEF Locals
<1>3. saves \in Locals
  <2>1. [c \in {} |-> NoRow] \in Gots
    <3>1. {} \in SUBSET Cells /\ [c \in {} |-> NoRow] \in [{} -> Values \cup Row \cup {NoRow}]
      OBVIOUS
    <3> QED
      BY <3>1, GotType
  <2>2. ToSave(h, table) \subseteq Cells
    BY DEF ToSave
  <2> QED
    BY <2>1, <2>2, IdleType DEF Locals
<1>4. Asking(asks) \in Locals
  BY <1>2, AskingType
<1> HIDE DEF asks, saves
<1>5. \/ pull' = [pull EXCEPT ![h] = Asking(asks)] /\ UNCHANGED <<lease, now>>
      \/ /\ Release(h)
         /\ pull' = [pull EXCEPT ![h] = saves] \/ pull' = [pull EXCEPT ![h] = Idle]
  BY DEF Finished, asks, saves
<1> QED
  BY <1>3, <1>4, <1>5, IdleType DEF TypeOK, Release, PullNames

LEMMA InitTyped == Init => TypeOK
<1> SUFFICES ASSUME Init PROVE TypeOK
  OBVIOUS
<1> QED
  BY IdleType, ProjectionAssumption DEF Init, TypeOK, Tables, PullNames

LEMMA NextKeepsTypes ==
    ASSUME IInv, [Next]_vars
    PROVE  TypeOK'
<1> USE DEF IInv
<1>1. ASSUME NEW h \in Pullers, StartPull(h)
      PROVE  TypeOK'
  <2>1. VersionOf(rows) + 1 \in Nat
    BY VersionIsMax DEF TypeOK
  <2>0. PICK name \in Names :
          /\ lease' = name /\ now' = name
          /\ pull' = [pull EXCEPT ![h] = Asking([Idle EXCEPT !.name = name, !.cand = CandidateVersion,
                                                             !.todo = ScopeOf[h]])]
          /\ disturbed' = (disturbed \/ lease = name)
    BY <1>1 DEF StartPull
  <2>a. name \in PullNames
    BY DEF Names, Unused, PullNames, TypeOK
  <2>2. [Idle EXCEPT !.name = name, !.cand = CandidateVersion, !.todo = ScopeOf[h]] \in Locals
    BY <2>1, <2>a, IdleType, ProjectionAssumption DEF Locals, CandidateVersion
  <2>3. pull' \in [Pullers -> Locals] /\ lease' \in PullNames /\ now' \in PullNames /\ disturbed' \in BOOLEAN
    BY <2>0, <2>a, <2>2, AskingType DEF TypeOK
  <2>4. forms' \subseteq Forms
    BY <1>1, DrawsType DEF StartPull, PullOnly, TypeOK
  <2> QED
    BY <1>1, <2>3, <2>4 DEF StartPull, PullOnly, remoteVars, TypeOK
<1>2. ASSUME NEW h \in Pullers, Serve(h)
      PROVE  TypeOK'
  <2> DEFINE new == CASE At(h, "avail") -> [c \in RoomsOf(Property(h)) |-> channex[c]]
             [] At(h, "plans") -> offered \cap PlansOf(Property(h))
             [] At(h, "restr") -> [c \in offered \cap PlansOf(Property(h)) |-> channex[c]]
  <2>1. new \in Gots
    <3>1. CASE At(h, "avail")
      <4>1. [c \in RoomsOf(Property(h)) |-> channex[c]] \in Gots
        BY GotType DEF RoomsOf, Cells, TypeOK
      <4> QED
        BY <3>1, <4>1 DEF At
    <3>2. CASE At(h, "plans")
      BY <3>2 DEF At, Gots, TypeOK
    <3>3. CASE At(h, "restr")
      <4>1. [c \in offered \cap PlansOf(Property(h)) |-> channex[c]] \in Gots
        BY GotType DEF PlansOf, Cells, TypeOK
      <4> QED
        BY <3>3, <4>1 DEF At
    <3> QED
      BY <1>2, <3>1, <3>2, <3>3 DEF Serve, At
  <2> HIDE DEF new
  <2>2. pull' = [pull EXCEPT ![h].got = new]
    BY <1>2 DEF Serve, new
  <2>3. pull' \in [Pullers -> Locals]
    BY <2>1, <2>2, LocalsType DEF TypeOK, Locals
  <2>4. forms' \subseteq Forms
    BY <1>2, DrawsType DEF Serve, PullOnly, TypeOK
  <2> QED
    BY <1>2, <2>3, <2>4 DEF Serve, PullOnly, remoteVars, TypeOK
<1>3. ASSUME NEW h \in Pullers, AvailAnswered(h)
      PROVE  TypeOK'
  <2>1. /\ DOMAIN pull[h].got \subseteq Cells
        /\ \A c \in DOMAIN pull[h].got : pull[h].got[c] \in Values
    BY <1>3 DEF AvailAnswered, Answered, At, AllHeld, GotHeld
  <2>2. rows' \in Tables
    BY <1>3, <2>1, UpsertedType DEF AvailAnswered
  <2>3. pull' \in [Pullers -> Locals]
    <3> DEFINE ch == pull[h].changed \/ Differs(h, DOMAIN pull[h].got)
    <3>1. NoAnswer \in Gots /\ ch \in BOOLEAN
      BY LocalsType DEF Gots, Differs, Locals
    <3>2. pull' = [pull EXCEPT ![h] = [pull[h] EXCEPT !.pc = "plans", !.got = NoAnswer,
                                                      !.changed = ch]]
      BY <1>3 DEF AvailAnswered, TypeOK
    <3> HIDE DEF ch
    <3> QED
      BY <3>1, <3>2, LocalsType, ZenonT(40) DEF TypeOK, Locals, AskingPcs
  <2>4. forms' \subseteq Forms
    BY <1>3, <2>2, DrawsType DEF AvailAnswered, PullOnly, TypeOK
  <2> QED
    BY <1>3, <2>2, <2>3, <2>4 DEF AvailAnswered, PullOnly, remoteVars, TypeOK
<1>4. ASSUME NEW h \in Pullers, PlansAnswered(h)
      PROVE  TypeOK'
  <2>1. pull[h] \in Locals /\ pull[h].got \subseteq Plans
    BY <1>4, LocalsType DEF PlansAnswered, Answered, At, AllHeld, GotHeld
  <2>2. pull' \in [Pullers -> Locals] /\ lease' \in PullNames /\ now' \in PullNames
    <3>1. CASE pull[h].got = {}
      BY <1>4, <2>1, <3>1, FinishedType DEF PlansAnswered, Locals
    <3>2. CASE pull[h].got # {}
      <4>1. NoAnswer \in Gots
        BY DEF Gots
      <4> QED
        BY <1>4, <2>1, <3>2, <4>1 DEF PlansAnswered, TypeOK, Locals, AskingPcs
    <3> QED
      BY <3>1, <3>2
  <2>3. forms' \subseteq Forms
    BY <1>4, DrawsType DEF PlansAnswered, PullOnly, TypeOK
  <2> QED
    BY <1>4, <2>2, <2>3 DEF PlansAnswered, PullOnly, remoteVars, TypeOK
<1>5. ASSUME NEW h \in Pullers, RestrAnswered(h)
      PROVE  TypeOK'
  <2> DEFINE S == DOMAIN pull[h].got \cap pull[h].ids
  <2>1. S \subseteq Cells /\ \A c \in S : pull[h].got[c] \in Values
    BY <1>5 DEF RestrAnswered, Answered, At, AllHeld, GotHeld
  <2>2. rows' \in Tables
    BY <1>5, <2>1, UpsertedType DEF RestrAnswered
  <2>3. pull[h].changed \/ Differs(h, S) \in BOOLEAN
    BY LocalsType DEF Locals, Differs
  <2>4. pull' \in [Pullers -> Locals] /\ lease' \in PullNames /\ now' \in PullNames
    BY <1>5, <2>3, FinishedType DEF RestrAnswered
  <2>5. forms' \subseteq Forms
    BY <1>5, <2>2, DrawsType DEF RestrAnswered, PullOnly, TypeOK
  <2> QED
    BY <1>5, <2>2, <2>4, <2>5 DEF RestrAnswered, PullOnly, remoteVars, TypeOK
<1>6. ASSUME NEW h \in Pullers, PullFails(h) \/ SaveFails(h)
      PROVE  TypeOK'
  <2>1. forms' \subseteq Forms
    BY <1>6, DrawsType DEF PullFails, SaveFails, PullOnly, TypeOK
  <2> QED
    BY <1>6, <2>1, IdleType DEF PullFails, SaveFails, PullOnly, remoteVars, TypeOK, Release, PullNames
<1>7. ASSUME NEW h \in Pullers, NEW c \in pull[h].save, SaveRow(h, c)
      PROVE  TypeOK'
  <2> DEFINE new == [x \in DOMAIN pull[h].got \cup {c} |->
                        IF x = c THEN rows[c] ELSE pull[h].got[x]]
  <2>1. c \in Cells
    BY LocalsType DEF Locals
  <2>2. new \in Gots
    <3>1. /\ pull[h].got \in [DOMAIN pull[h].got -> Row \cup {NoRow}]
          /\ DOMAIN pull[h].got \subseteq Cells
      BY <1>7 DEF SaveRow, At, AllHeld, GotHeld
    <3> QED
      BY <2>1, <3>1, GotType DEF TypeOK, Tables
  <2> HIDE DEF new
  <2>3. pull' = [pull EXCEPT ![h].save = @ \ {c}, ![h].got = new]
    BY <1>7 DEF SaveRow, new
  <2>4. pull' \in [Pullers -> Locals]
    BY <2>2, <2>3, LocalsType, ZenonT(40) DEF TypeOK, Locals
  <2>5. forms' \subseteq Forms
    BY <1>7, DrawsType DEF SaveRow, PullOnly, TypeOK
  <2> QED
    BY <1>7, <2>4, <2>5 DEF SaveRow, PullOnly, remoteVars, TypeOK
<1>8. ASSUME NEW h \in Pullers, At(h, "persist")
      PROVE  Committed(h) \in Tables
  BY <1>8 DEF Committed, Tables, AllHeld, GotHeld, TypeOK, At
<1>9. ASSUME NEW h \in Pullers, SaveCommits(h)
      PROVE  TypeOK'
  <2>1. forms' \subseteq Forms
    BY <1>9, DrawsType DEF SaveCommits, PullOnly, TypeOK
  <2> QED
    BY <1>8, <1>9, <2>1, IdleType DEF SaveCommits, PullOnly, remoteVars, TypeOK
<1>10. ASSUME LeaseLapses
       PROVE  TypeOK'
  <2>1. forms' \subseteq Forms
    BY <1>10, DrawsType DEF LeaseLapses, TypeOK
  <2> QED
    BY <1>10, <2>1 DEF LeaseLapses, remoteVars, TypeOK, PullNames
<1>11. ASSUME NEW f \in forms, NEW c \in Cells, NEW v \in Values, Submit(f, c, v)
       PROVE  TypeOK'
  <2>1. forms' \subseteq Forms
    BY <1>11, DrawsType DEF Submit, TypeOK, memory
  <2>2. intent' \in Intents
    <3>1. f.ver \in Nat
      BY DEF TypeOK, Forms
    <3> QED
      BY <1>11, <3>1 DEF Submit, Intents
  <2> QED
    BY <1>11, <2>1, <2>2 DEF Submit, remoteVars, memory, TypeOK
<1>12. ASSUME Sent
       PROVE  TypeOK'
  <2>1. forms' \subseteq Forms
    BY <1>12, DrawsType DEF Sent, TypeOK, memory
  <2>2. intent \in Intents
    BY <1>12 DEF Sent, TypeOK
  <2> QED
    BY <1>12, <2>1, <2>2 DEF Sent, Put, remoteVars, memory, TypeOK, Intents
<1>13. ASSUME ReadServed
       PROVE  TypeOK'
  <2>1. forms' \subseteq Forms
    BY <1>13, DrawsType DEF ReadServed, TypeOK, memory
  <2>2. intent \in Intents
    BY <1>13 DEF ReadServed, TypeOK
  <2> QED
    BY <1>13, <2>1, <2>2 DEF ReadServed, remoteVars, memory, TypeOK, Intents
<1>14. ASSUME ReadAnswered
       PROVE  TypeOK'
  <2>1. intent \in Intents
    BY <1>14 DEF ReadAnswered, TypeOK
  <2>2. rows' \in Tables
    BY <1>14, <2>1 DEF ReadAnswered, TypeOK, Tables, ReadBackRow, Row, Intents
  <2>3. forms' \subseteq Forms
    BY <1>14, <2>2, DrawsType, UnsettledType DEF ReadAnswered, TypeOK
  <2> QED
    BY <1>14, <2>2, <2>3 DEF ReadAnswered, remoteVars, TypeOK
<1>15. ASSUME NEW c \in Cells, NEW v \in Values, ChannexEdit(c, v)
       PROVE  TypeOK'
  <2>1. forms' \subseteq Forms
    BY <1>15, DrawsType DEF ChannexEdit, TypeOK, memory
  <2> QED
    BY <1>15, <2>1 DEF ChannexEdit, Put, memory, TypeOK
<1>16. ASSUME NEW c \in Plans, Withdraw(c)
       PROVE  TypeOK'
  <2>1. forms' \subseteq Forms
    BY <1>16, DrawsType DEF Withdraw, TypeOK, memory
  <2> QED
    BY <1>16, <2>1 DEF Withdraw, memory, TypeOK
<1>17. ASSUME Crash
       PROVE  TypeOK'
  <2>1. rows' \in Tables /\ saved' \in Tables
    BY <1>8, <1>17 DEF Crash, Tables, TypeOK
  <2>2. forms' \subseteq Forms
    BY <1>17, <2>1, DrawsType, UnsettledType DEF Crash, TypeOK
  <2>3. intent' \in Intents \cup {NoIntent}
    BY <1>17 DEF Crash, TypeOK, Intents
  <2> QED
    BY <1>17, <2>1, <2>2, <2>3, IdleType DEF Crash, remoteVars, TypeOK, PullNames
<1>18. ASSUME Hydrate
       PROVE  TypeOK'
  <2>1. rows' \in Tables
    BY <1>18 DEF Hydrate, TypeOK
  <2>2. forms' \subseteq Forms
    BY <1>18, <2>1, DrawsType DEF Hydrate, TypeOK
  <2> QED
    BY <1>18, <2>1, <2>2 DEF Hydrate, remoteVars, TypeOK
<1>19. CASE UNCHANGED vars
  BY <1>19 DEF vars, remoteVars, memory, TypeOK
<1> QED
  BY <1>1, <1>2, <1>3, <1>4, <1>5, <1>6, <1>7, <1>9, <1>10, <1>11, <1>12, <1>13, <1>14, <1>15,
     <1>16, <1>17, <1>18, <1>19 DEF Next, Pull, Write

-----------------------------------------------------------------------------
(* The projection holds only what Channex has had.                         *)

\* What was held before is held still.
LEMMA HeldGrows ==
    ASSUME IInv, [Next]_vars
    PROVE  \A c \in Cells : held[c] \subseteq held'[c]
<1>1. ASSUME NEW c \in Cells, NEW v \in Values, Put(c, v)
      PROVE  \A x \in Cells : held[x] \subseteq held'[x]
  BY <1>1 DEF Put, IInv, TypeOK
<1>2. CASE Sent
  <2>1. intent \in Intents
    BY <1>2 DEF Sent, IInv, TypeOK
  <2> QED
    BY <1>1, <1>2, <2>1 DEF Sent, Intents
<1>3. CASE \E c \in Cells, v \in Values : ChannexEdit(c, v)
  BY <1>1, <1>3 DEF ChannexEdit
<1>4. CASE ~Sent /\ ~(\E c \in Cells, v \in Values : ChannexEdit(c, v))
  <2>1. UNCHANGED held
    BY <1>4 DEF Next, Pull, Write, StartPull, Serve, AvailAnswered, PlansAnswered,
         RestrAnswered, SaveRow, SaveCommits, PullFails, SaveFails, PullOnly, LeaseLapses,
         Submit, ReadServed, ReadAnswered, Withdraw, Crash, Hydrate, vars, remoteVars
  <2> QED
    BY <2>1
<1> QED
  BY <1>2, <1>3, <1>4

\* A puller's locals are replaced by some that hold nothing wrong.
LEMMA OthersHold ==
    ASSUME IInv, NEW h \in Pullers, NEW l, pull' = [pull EXCEPT ![h] = l],
           UNCHANGED held, GotHeld(l)
    PROVE  \A k \in Pullers : GotHeld(pull[k])'
BY DEF IInv, TypeOK, AllHeld, GotHeld, HeldRow

\* Locals without an answer hold nothing, nor do those of a transaction that begins.
LEMMA NothingGot ==
    /\ \A l : l.got = NoAnswer /\ l.pc # "persist" => GotHeld(l)
    /\ \A l : l.got = [c \in {} |-> NoRow] /\ l.pc = "persist" => GotHeld(l)
BY DEF GotHeld

LEMMA FinishedHolds ==
    ASSUME IInv, NEW h \in Pullers, NEW table, NEW changed \in BOOLEAN,
           Finished(h, table, changed), UNCHANGED held
    PROVE  \A k \in Pullers : GotHeld(pull[k])'
<1> DEFINE rest == pull[h].todo \ {Property(h)}
           asks == [pull[h] EXCEPT !.todo = rest, !.ids = {}, !.changed = changed]
           saves == [Idle EXCEPT !.pc = "persist", !.changed = TRUE,
                                 !.save = ToSave(h, table), !.got = [c \in {} |-> NoRow]]
<1>1. GotHeld(Asking(asks))
  <2>1. asks \in Locals
    BY LocalsType DEF IInv, Locals
  <2> HIDE DEF asks
  <2>2. Asking(asks).got = NoAnswer /\ Asking(asks).pc # "persist"
    BY <2>1 DEF Asking, Locals
  <2> QED
    BY <2>2, NothingGot
<1>2. GotHeld(saves)
  <2>1. saves.got = [c \in {} |-> NoRow] /\ saves.pc = "persist"
    BY DEF Idle
  <2> QED
    BY <2>1, NothingGot
<1>3. GotHeld(Idle)
  BY DEF GotHeld, Idle
<1> HIDE DEF asks, saves
<1>4. \/ pull' = [pull EXCEPT ![h] = Asking(asks)]
      \/ pull' = [pull EXCEPT ![h] = saves]
      \/ pull' = [pull EXCEPT ![h] = Idle]
  BY DEF Finished, asks, saves
<1> QED
  BY <1>1, <1>2, <1>3, <1>4, OthersHold

\* Rows taken from an answer hold what Channex has had.
LEMMA UpsertedHolds ==
    ASSUME IInv, NEW h \in Pullers, NEW S, S \subseteq Cells,
           \A c \in S : pull[h].got[c] \in held[c]
    PROVE  \A c \in Cells : HeldRow(c, Upserted(h, S)[c])
BY DEF IInv, AllHeld, TablesHeld, HeldRow, Upserted

LEMMA CommittedHolds ==
    ASSUME IInv, NEW h \in Pullers, At(h, "persist")
    PROVE  \A c \in Cells : HeldRow(c, Committed(h)[c])
BY DEF IInv, AllHeld, TablesHeld, GotHeld, HeldRow, Committed, At

LEMMA PullKeepsHeld ==
    ASSUME IInv, NEW h \in Pullers,
           StartPull(h) \/ Pull(h) \/ PullFails(h) \/ SaveFails(h)
    PROVE  AllHeld'
<1> USE DEF IInv
<1>1. UNCHANGED <<channex, held, offered, intent>>
  BY DEF StartPull, Pull, Serve, AvailAnswered, PlansAnswered, RestrAnswered, SaveRow,
       SaveCommits, PullFails, SaveFails, PullOnly, remoteVars
<1>2. pull[h] \in Locals /\ GotHeld(Idle)
  BY LocalsType DEF GotHeld, Idle
<1>3. CASE StartPull(h)
  <2>1. PICK name \in Names :
          pull' = [pull EXCEPT ![h] = Asking([Idle EXCEPT !.name = name, !.cand = CandidateVersion,
                                                          !.todo = ScopeOf[h]])]
    BY <1>3 DEF StartPull
  <2> DEFINE l == [Idle EXCEPT !.name = name, !.cand = CandidateVersion, !.todo = ScopeOf[h]]
  <2>2. GotHeld(Asking(l)) /\ pull' = [pull EXCEPT ![h] = Asking(l)]
    BY <2>1 DEF Asking, Idle, GotHeld
  <2> HIDE DEF l
  <2>3. UNCHANGED <<rows, saved>>
    BY <1>3 DEF StartPull
  <2> QED
    BY <1>1, <2>2, <2>3, OthersHold DEF AllHeld, TablesHeld, HeldRow
<1>4. CASE Serve(h)
  <2> DEFINE new == CASE At(h, "avail") -> [c \in RoomsOf(Property(h)) |-> channex[c]]
             [] At(h, "plans") -> offered \cap PlansOf(Property(h))
             [] At(h, "restr") -> [c \in offered \cap PlansOf(Property(h)) |-> channex[c]]
             l == [pull[h] EXCEPT !.got = new]
  <2>1. GotHeld(l)
    <3>1. l.pc = pull[h].pc /\ l.got = new
      BY <1>2 DEF Locals
    <3>2. CASE At(h, "avail")
      <4>1. new = [c \in RoomsOf(Property(h)) |-> channex[c]] /\ pull[h].pc = "avail"
        BY <3>2 DEF At
      <4>2. RoomsOf(Property(h)) \subseteq Cells
        BY DEF RoomsOf, Cells
      <4> HIDE DEF new, l
      <4> QED
        BY <3>1, <4>1, <4>2 DEF GotHeld, AllHeld, TypeOK
    <3>3. CASE At(h, "plans")
      <4>1. new = offered \cap PlansOf(Property(h)) /\ pull[h].pc = "plans"
        BY <3>3 DEF At
      <4> HIDE DEF new, l
      <4> QED
        BY <3>1, <4>1 DEF GotHeld, TypeOK
    <3>4. CASE At(h, "restr")
      <4>1. new = [c \in offered \cap PlansOf(Property(h)) |-> channex[c]] /\ pull[h].pc = "restr"
        BY <3>4 DEF At
      <4>2. offered \cap PlansOf(Property(h)) \subseteq Cells
        BY DEF PlansOf, Cells
      <4> HIDE DEF new, l
      <4> QED
        BY <3>1, <4>1, <4>2 DEF GotHeld, AllHeld, TypeOK
    <3> QED
      BY <1>4, <3>2, <3>3, <3>4 DEF Serve, At
  <2>2. pull' = [pull EXCEPT ![h] = l] /\ UNCHANGED <<rows, saved>>
    BY <1>4 DEF Serve, TypeOK
  <2> HIDE DEF new, l
  <2> QED
    BY <1>1, <2>1, <2>2, OthersHold DEF AllHeld, TablesHeld, HeldRow
<1>5. CASE AvailAnswered(h)
  <2> DEFINE S == DOMAIN pull[h].got
             ch == pull[h].changed \/ Differs(h, S)
             l == [pull[h] EXCEPT !.pc = "plans", !.got = NoAnswer, !.changed = ch]
  <2>1. S \subseteq Cells /\ \A c \in S : pull[h].got[c] \in held[c]
    BY <1>5 DEF AvailAnswered, Answered, At, AllHeld, GotHeld
  <2>2. \A c \in Cells : HeldRow(c, Upserted(h, S)[c])
    BY <2>1, UpsertedHolds
  <2>3. GotHeld(l)
    BY <1>2 DEF GotHeld, Locals
  <2>4. pull' = [pull EXCEPT ![h] = l] /\ rows' = Upserted(h, S) /\ UNCHANGED saved
    BY <1>5 DEF AvailAnswered, TypeOK
  <2> HIDE DEF l, S
  <2> QED
    BY <1>1, <2>2, <2>3, <2>4, OthersHold DEF AllHeld, TablesHeld, HeldRow
<1>6. CASE PlansAnswered(h)
  <2>1. \A k \in Pullers : GotHeld(pull[k])'
    <3>1. CASE pull[h].got = {}
      BY <1>1, <1>2, <1>6, <3>1, FinishedHolds DEF PlansAnswered, Locals
    <3>2. CASE pull[h].got # {}
      <4> DEFINE l == [pull[h] EXCEPT !.pc = "restr", !.ids = pull[h].got, !.got = NoAnswer]
      <4>1. GotHeld(l)
        BY <1>2 DEF GotHeld, Locals
      <4>2. pull' = [pull EXCEPT ![h] = l]
        BY <1>6, <3>2 DEF PlansAnswered, TypeOK
      <4> HIDE DEF l
      <4> QED
        BY <1>1, <4>1, <4>2, OthersHold
    <3> QED
      BY <3>1, <3>2
  <2>2. UNCHANGED <<rows, saved>>
    BY <1>6 DEF PlansAnswered
  <2> QED
    BY <1>1, <2>1, <2>2 DEF AllHeld, TablesHeld, HeldRow
<1>7. CASE RestrAnswered(h)
  <2> DEFINE S == DOMAIN pull[h].got \cap pull[h].ids
  <2>1. S \subseteq Cells /\ \A c \in S : pull[h].got[c] \in held[c]
    BY <1>7 DEF RestrAnswered, Answered, At, AllHeld, GotHeld
  <2>2. \A c \in Cells : HeldRow(c, Upserted(h, S)[c])
    BY <2>1, UpsertedHolds
  <2>3. pull[h].changed \/ Differs(h, S) \in BOOLEAN
    BY <1>2 DEF Locals, Differs
  <2>4. \A k \in Pullers : GotHeld(pull[k])'
    BY <1>1, <1>7, <2>3, FinishedHolds DEF RestrAnswered
  <2>5. rows' = Upserted(h, S) /\ UNCHANGED saved
    BY <1>7 DEF RestrAnswered
  <2> HIDE DEF S
  <2> QED
    BY <1>1, <2>2, <2>4, <2>5 DEF AllHeld, TablesHeld, HeldRow
<1>8. CASE PullFails(h) \/ SaveFails(h)
  <2>1. pull' = [pull EXCEPT ![h] = Idle] /\ UNCHANGED <<rows, saved>>
    BY <1>8 DEF PullFails, SaveFails
  <2> QED
    BY <1>1, <1>2, <2>1, OthersHold DEF AllHeld, TablesHeld, HeldRow
<1>9. ASSUME NEW c \in pull[h].save, SaveRow(h, c)
      PROVE  AllHeld'
  <2> DEFINE new == [x \in DOMAIN pull[h].got \cup {c} |->
                        IF x = c THEN rows[c] ELSE pull[h].got[x]]
             l == [pull[h] EXCEPT !.save = @ \ {c}, !.got = new]
  <2>1. c \in Cells /\ l.pc = "persist" /\ l.got = new
    BY <1>2, <1>9 DEF Locals, SaveRow, At
  <2>2. /\ pull[h].got \in [DOMAIN pull[h].got -> Row \cup {NoRow}]
        /\ DOMAIN pull[h].got \subseteq Cells
        /\ \A x \in DOMAIN pull[h].got : HeldRow(x, pull[h].got[x])
    BY <1>9 DEF SaveRow, At, AllHeld, GotHeld
  <2>3. rows[c] \in Row \cup {NoRow} /\ HeldRow(c, rows[c])
    BY <2>1 DEF TypeOK, Tables, AllHeld, TablesHeld
  <2>4. /\ new \in [DOMAIN new -> Row \cup {NoRow}] /\ DOMAIN new \subseteq Cells
        /\ \A x \in DOMAIN new : HeldRow(x, new[x])
    BY <2>1, <2>2, <2>3
  <2>5. pull' = [pull EXCEPT ![h] = l] /\ UNCHANGED <<rows, saved>>
    BY <1>9 DEF SaveRow, TypeOK
  <2> HIDE DEF new, l
  <2>6. GotHeld(l)
    BY <2>1, <2>4 DEF GotHeld
  <2> QED
    BY <1>1, <2>5, <2>6, OthersHold DEF AllHeld, TablesHeld, HeldRow
<1>10. CASE SaveCommits(h)
  <2>1. pull' = [pull EXCEPT ![h] = Idle] /\ saved' = Committed(h) /\ UNCHANGED rows
    BY <1>10 DEF SaveCommits
  <2>2. \A c \in Cells : HeldRow(c, Committed(h)[c])
    BY <1>10, CommittedHolds DEF SaveCommits
  <2> QED
    BY <1>1, <1>2, <2>1, <2>2, OthersHold DEF AllHeld, TablesHeld, HeldRow
<1> QED
  BY <1>3, <1>4, <1>5, <1>6, <1>7, <1>8, <1>9, <1>10 DEF Pull

LEMMA NextKeepsHeld ==
    ASSUME IInv, [Next]_vars
    PROVE  AllHeld'
<1> USE DEF IInv
<1>1. ASSUME NEW h \in Pullers, StartPull(h) \/ Pull(h) \/ PullFails(h) \/ SaveFails(h)
      PROVE  AllHeld'
  BY <1>1, PullKeepsHeld
<1>2. CASE \/ LeaseLapses \/ (\E c \in Plans : Withdraw(c)) \/ UNCHANGED vars
           \/ \E f \in forms, c \in Cells, v \in Values : Submit(f, c, v)
  <2>1. UNCHANGED <<channex, held, rows, saved, pull>>
    BY <1>2 DEF LeaseLapses, Withdraw, Submit, vars, remoteVars, memory
  <2>2. intent' = intent \/ intent'.got = NoAnswer
    BY <1>2 DEF LeaseLapses, Withdraw, Submit, vars, remoteVars, memory
  <2> QED
    BY <2>1, <2>2 DEF AllHeld, TablesHeld, HeldRow, GotHeld
\* A value is put: what was held is held still.
<1>3. ASSUME NEW c \in Cells, NEW v \in Values, Put(c, v), UNCHANGED <<rows, saved, pull>>,
             intent' = intent \/ (intent' \in Intents /\ intent'.got = intent.got
                                  /\ intent'.cell = intent.cell /\ intent # NoIntent)
      PROVE  AllHeld'
  <2>1. \A x \in Cells : held[x] \subseteq held'[x] /\ channex'[x] \in held'[x]
    BY <1>3 DEF Put, TypeOK, AllHeld
  <2>2. ASSUME NEW h \in Pullers PROVE GotHeld(pull[h])'
    BY <1>3, <2>1 DEF GotHeld, AllHeld, HeldRow
  <2>3. ASSUME NEW x \in Cells
        PROVE  HeldRow(x, rows[x])' /\ HeldRow(x, saved[x])'
    BY <1>3, <2>1 DEF AllHeld, TablesHeld, HeldRow
  <2>4. intent' # NoIntent /\ intent'.got # NoAnswer => intent'.got \in held'[intent'.cell]
    <3>1. intent # NoIntent => intent.cell \in Cells
      BY DEF TypeOK, Intents
    <3> QED
      BY <1>3, <2>1, <3>1 DEF AllHeld
  <2> QED
    BY <2>1, <2>2, <2>3, <2>4 DEF AllHeld, TablesHeld
<1>4. CASE Sent
  <2>1. intent \in Intents
    BY <1>4 DEF Sent, TypeOK
  <2> QED
    BY <1>3, <1>4, <2>1 DEF Sent, Intents, memory
<1>5. CASE \E c \in Cells, v \in Values : ChannexEdit(c, v)
  BY <1>3, <1>5 DEF ChannexEdit, memory
<1>6. CASE ReadServed
  <2>1. intent \in Intents
    BY <1>6 DEF ReadServed, TypeOK
  <2>2. intent'.got = channex[intent.cell] /\ intent'.cell = intent.cell /\ intent.cell \in Cells
    BY <1>6, <2>1 DEF ReadServed, Intents
  <2>3. UNCHANGED <<channex, held, rows, saved, pull>>
    BY <1>6 DEF ReadServed, remoteVars, memory
  <2> QED
    BY <2>2, <2>3 DEF AllHeld, TablesHeld, HeldRow, GotHeld
<1>7. CASE ReadAnswered
  <2>1. intent \in Intents /\ intent.got \in held[intent.cell]
    BY <1>7 DEF ReadAnswered, TypeOK, AllHeld
  <2>2. \A c \in Cells : HeldRow(c, rows'[c])
    <3>1. ASSUME rows' = [rows EXCEPT ![intent.cell] = ReadBackRow(@)], intent.got = intent.val,
                 NEW c \in Cells
          PROVE  HeldRow(c, rows'[c])
      <4>1. CASE c # intent.cell
        BY <3>1, <4>1 DEF TypeOK, Tables, AllHeld, TablesHeld, HeldRow
      <4>2. CASE c = intent.cell
        <5>1. rows'[c] = ReadBackRow(rows[c]) /\ rows[c] \in Row \cup {NoRow}
          BY <3>1, <4>2 DEF TypeOK, Tables
        <5>2. ReadBackRow(rows[c]).val = intent.val
          BY <5>1 DEF ReadBackRow, Row
        <5> QED
          BY <2>1, <3>1, <4>2, <5>1, <5>2 DEF HeldRow
      <4> QED
        BY <4>1, <4>2
    <3>2. CASE UNCHANGED rows
      BY <3>2 DEF AllHeld, TablesHeld
    <3> QED
      BY <1>7, <3>1, <3>2 DEF ReadAnswered
  <2>3. UNCHANGED <<channex, held, saved, pull>> /\ intent' = NoIntent
    BY <1>7 DEF ReadAnswered, remoteVars
  <2> QED
    BY <2>2, <2>3 DEF AllHeld, TablesHeld, HeldRow, GotHeld
<1>8. CASE Crash
  <2>1. \A c \in Cells : HeldRow(c, saved'[c])
    BY <1>8, CommittedHolds DEF Crash, AllHeld, TablesHeld
  <2>2. UNCHANGED <<channex, held>> /\ rows' = NoRows /\ pull' = [h \in Pullers |-> Idle]
    BY <1>8 DEF Crash, remoteVars, NoRows
  <2>3. \A h \in Pullers : GotHeld(pull[h])'
    BY <2>2 DEF GotHeld, Idle
  <2>4. intent' # NoIntent => intent'.got = NoAnswer
    BY <1>8 DEF Crash, TypeOK, Intents
  <2> QED
    BY <2>1, <2>2, <2>3, <2>4 DEF AllHeld, TablesHeld, HeldRow, NoRows
<1>9. CASE Hydrate
  <2>1. UNCHANGED <<channex, held, saved, pull>>
    BY <1>9 DEF Hydrate, remoteVars
  <2>2. rows' = saved \/ rows' = rows
    BY <1>9 DEF Hydrate
  <2>3. intent' = intent \/ intent' = NoIntent
    BY <1>9 DEF Hydrate
  <2> QED
    BY <2>1, <2>2, <2>3 DEF AllHeld, TablesHeld, HeldRow, GotHeld
<1> QED
  BY <1>1, <1>2, <1>4, <1>5, <1>6, <1>7, <1>8, <1>9 DEF Next, Write

LEMMA NextKeepsNothingLoaded ==
    ASSUME IInv, [Next]_vars
    PROVE  NothingLoaded'
<1> USE DEF IInv
<1>1. CASE Crash
  <2>1. \A f \in Unsettled(forms) : ~f.settled
    BY DEF Unsettled, TypeOK, Forms
  <2>2. ~hydrated' /\ forms' = Unsettled(forms)
    BY <1>1 DEF Crash, Draws
  <2> QED
    BY <1>1, <2>1, <2>2 DEF Crash, NothingLoaded, NoRows, Idle
<1>2. CASE Hydrate
  BY <1>2 DEF Hydrate, NothingLoaded
<1>3. CASE hydrated /\ ~Crash
  <2>1. hydrated'
    BY <1>3 DEF Next, Pull, Write, StartPull, Serve, AvailAnswered, PlansAnswered,
         RestrAnswered, SaveRow, SaveCommits, PullFails, SaveFails, PullOnly, LeaseLapses,
         Submit, Sent, ReadServed, ReadAnswered, ChannexEdit, Withdraw, Hydrate, vars, memory
  <2> QED
    BY <2>1 DEF NothingLoaded
<1>4. CASE ~hydrated /\ ~Crash /\ ~Hydrate
  <2>1. \A h \in Pullers : pull[h].pc = "idle"
    BY <1>4 DEF NothingLoaded
  <2>2. ASSUME NEW h \in Pullers
        PROVE  ~StartPull(h) /\ ~Pull(h) /\ ~PullFails(h) /\ ~SaveFails(h)
    <3>1. pull[h].pc = "idle"
      BY <2>1
    <3> QED
      BY <1>4, <3>1 DEF StartPull, Pull, Serve, AvailAnswered, PlansAnswered, RestrAnswered,
           SaveRow, SaveCommits, PullFails, SaveFails, Answered, At
  <2>3. \/ LeaseLapses \/ Sent \/ ReadServed \/ (\E c \in Plans : Withdraw(c)) \/ UNCHANGED vars
        \/ \E c \in Cells, v \in Values : ChannexEdit(c, v)
    BY <1>4, <2>2 DEF Next, Write, Submit, ReadAnswered
  <2>4. UNCHANGED <<hydrated, rows, pull>> /\ (forms' = forms \/ Draws(forms))
    BY <2>3 DEF LeaseLapses, Sent, ReadServed, Withdraw, ChannexEdit, vars, memory
  <2>5. forms' = forms
    BY <1>4, <2>4 DEF Draws
  <2> QED
    BY <2>4, <2>5 DEF NothingLoaded
<1> QED
  BY <1>1, <1>2, <1>3, <1>4 DEF TypeOK

\* Whatever the pullers, the drain, Channex and restarts do, every value in memory, in
\* PostgreSQL and on its way is one Channex has had in its cell.
THEOREM Invariant == Spec => []IInv
<1>1. Init => IInv
  <2> SUFFICES ASSUME Init PROVE AllHeld /\ NothingLoaded
    BY InitTyped DEF IInv
  <2>1. \A h \in Pullers : GotHeld(pull[h])
    BY DEF Init, GotHeld, Idle
  <2> QED
    BY <2>1 DEF Init, AllHeld, TablesHeld, HeldRow, NothingLoaded
<1>2. IInv /\ [Next]_vars => IInv'
  BY NextKeepsTypes, NextKeepsHeld, NextKeepsNothingLoaded DEF IInv
<1> QED
  BY <1>1, <1>2, PTL DEF Spec

-----------------------------------------------------------------------------
(* The refinement.                                                         *)

\* Each cell is left alone or learns a value Channex has had: a stutter or a Learn.
LEMMA LearnsOrStutters ==
    ASSUME UNCHANGED <<channex, held>>,
           \A c \in Cells : \/ Drawn(rows')[c] = Drawn(rows)[c]
                            \/ Drawn(rows')[c] \in held[c]
    PROVE  [Copy!Next]_Copy!vars
BY DEF Copy!Next, Copy!Learn, Copy!vars, Drawn

LEMMA UpsertedLearns ==
    ASSUME IInv, NEW h \in Pullers, NEW S, rows' = Upserted(h, S),
           \A c \in S : pull[h].got[c] \in held[c]
    PROVE  \A c \in Cells : \/ Drawn(rows')[c] = Drawn(rows)[c]
                            \/ Drawn(rows')[c] \in held[c]
<1> SUFFICES ASSUME NEW c \in Cells
             PROVE  Drawn(rows')[c] = Drawn(rows)[c] \/ Drawn(rows')[c] \in held[c]
  OBVIOUS
<1>1. rows'[c] = rows[c] \/ (rows'[c] = [val |-> pull[h].got[c], ver |-> pull[h].cand] /\ c \in S)
  BY DEF Upserted
<1>2. CASE rows'[c] = rows[c]
  BY <1>2 DEF Drawn
<1>3. CASE rows'[c] = [val |-> pull[h].got[c], ver |-> pull[h].cand] /\ c \in S
  <2>1. pull[h].got[c] \in Values /\ pull[h].cand \in Nat
    BY <1>3, LocalsType DEF IInv, TypeOK, Locals
  <2>2. rows'[c] # NoRow
    BY <1>3, <2>1, NoRowAssumption DEF Row
  <2> QED
    BY <1>3, <2>2 DEF Drawn
<1> QED
  BY <1>1, <1>2, <1>3

LEMMA StepRefines ==
    ASSUME IInv, [Next]_vars
    PROVE  [Copy!Next]_Copy!vars
<1> USE DEF IInv
<1>1. ASSUME UNCHANGED <<channex, held, rows>>
      PROVE  [Copy!Next]_Copy!vars
  BY <1>1, LearnsOrStutters
<1>2. ASSUME NEW h \in Pullers, StartPull(h) \/ Pull(h) \/ PullFails(h) \/ SaveFails(h)
      PROVE  [Copy!Next]_Copy!vars
  <2>1. UNCHANGED <<channex, held>>
    BY <1>2 DEF StartPull, Pull, Serve, AvailAnswered, PlansAnswered, RestrAnswered, SaveRow,
         SaveCommits, PullFails, SaveFails, PullOnly, remoteVars
  <2>2. CASE AvailAnswered(h)
    <3>1. \A c \in DOMAIN pull[h].got : pull[h].got[c] \in held[c]
      BY <2>2 DEF AvailAnswered, Answered, At, AllHeld, GotHeld
    <3> QED
      BY <2>1, <2>2, <3>1, UpsertedLearns, LearnsOrStutters DEF AvailAnswered
  <2>3. CASE RestrAnswered(h)
    <3>1. \A c \in DOMAIN pull[h].got \cap pull[h].ids : pull[h].got[c] \in held[c]
      BY <2>3 DEF RestrAnswered, Answered, At, AllHeld, GotHeld
    <3> QED
      BY <2>1, <2>3, <3>1, UpsertedLearns, LearnsOrStutters DEF RestrAnswered
  <2>4. CASE ~AvailAnswered(h) /\ ~RestrAnswered(h)
    <3>1. UNCHANGED rows
      BY <1>2, <2>4 DEF StartPull, Pull, Serve, PlansAnswered, SaveRow, SaveCommits, PullFails,
           SaveFails
    <3> QED
      BY <1>1, <2>1, <3>1
  <2> QED
    BY <2>2, <2>3, <2>4
<1>3. CASE \/ LeaseLapses \/ (\E c \in Plans : Withdraw(c)) \/ UNCHANGED vars \/ ReadServed
           \/ \E f \in forms, c \in Cells, v \in Values : Submit(f, c, v)
  <2>1. UNCHANGED <<channex, held, rows>>
    BY <1>3 DEF LeaseLapses, Withdraw, Submit, ReadServed, vars, remoteVars, memory
  <2> QED
    BY <1>1, <2>1
<1>4. ASSUME NEW c \in Cells, NEW v \in Values, Put(c, v), UNCHANGED rows
      PROVE  [Copy!Next]_Copy!vars
  <2>1. Copy!Change(c, v)
    BY <1>4 DEF Put, Copy!Change, Drawn
  <2> QED
    BY <2>1 DEF Copy!Next
<1>5. CASE Sent
  <2>1. intent \in Intents
    BY <1>5 DEF Sent, TypeOK
  <2> QED
    BY <1>4, <1>5, <2>1 DEF Sent, Intents, memory
<1>6. CASE \E c \in Cells, v \in Values : ChannexEdit(c, v)
  BY <1>4, <1>6 DEF ChannexEdit, memory
\* A matching read-back: Channex has just answered with the value.
<1>7. CASE ReadAnswered
  <2>1. intent \in Intents /\ intent.got \in held[intent.cell]
    BY <1>7 DEF ReadAnswered, TypeOK, AllHeld
  <2>2. UNCHANGED <<channex, held>>
    BY <1>7 DEF ReadAnswered, remoteVars
  <2>3. CASE rows' = [rows EXCEPT ![intent.cell] = ReadBackRow(@)] /\ intent.got = intent.val
    <3>1. ASSUME NEW c \in Cells, c = intent.cell
          PROVE  Drawn(rows')[c] \in held[c]
      <4>1. rows'[c] = ReadBackRow(rows[c]) /\ rows[c] \in Row \cup {NoRow}
        BY <2>3, <3>1 DEF TypeOK, Tables
      <4>2. ReadBackRow(rows[c]) \in Row /\ ReadBackRow(rows[c]).val = intent.val
        BY <2>1, <4>1 DEF ReadBackRow, Row, Intents
      <4> QED
        BY <2>1, <2>3, <3>1, <4>1, <4>2, NoRowAssumption DEF Drawn
    <3>2. ASSUME NEW c \in Cells, c # intent.cell
          PROVE  Drawn(rows')[c] = Drawn(rows)[c]
      BY <2>3, <3>2 DEF Drawn, TypeOK, Tables
    <3> QED
      BY <2>2, <3>1, <3>2, LearnsOrStutters
  <2> QED
    BY <1>1, <1>7, <2>2, <2>3 DEF ReadAnswered
<1>8. CASE Crash
  <2>1. UNCHANGED <<channex, held>> /\ Drawn(rows') = [c \in Cells |-> NoRow]
    BY <1>8 DEF Crash, remoteVars, Drawn
  <2>2. Copy!Restart
    BY <2>1 DEF Copy!Restart
  <2> QED
    BY <2>2 DEF Copy!Next
\* The process had nothing, so what it loads it learns.
<1>9. CASE Hydrate
  <2>1. UNCHANGED <<channex, held>> /\ (rows' = saved \/ rows' = rows)
    BY <1>9 DEF Hydrate, remoteVars
  <2>2. rows = NoRows
    BY <1>9 DEF Hydrate, NothingLoaded
  <2>3. \A c \in Cells : Drawn(saved)[c] = Drawn(rows)[c] \/ Drawn(saved)[c] \in held[c]
    BY <2>2 DEF Drawn, NoRows, AllHeld, TablesHeld, HeldRow
  <2> QED
    BY <2>1, <2>3, LearnsOrStutters
<1> QED
  BY <1>2, <1>3, <1>5, <1>6, <1>7, <1>8, <1>9 DEF Next, Write

\* The projection is a lagging copy of Channex: each cell is empty or holds a value
\* Channex has had there, and only a restart loses one.
THEOREM ImplementsLaggingCopy == Spec => IsLaggingCopy
<1>1. Init => Copy!Init
  BY ProjectionAssumption DEF Init, Copy!Init, Drawn
<1>2. IInv /\ [Next]_vars => [Copy!Next]_Copy!vars
  BY StepRefines
<1> QED
  BY <1>1, <1>2, Invariant, PTL DEF Spec, IsLaggingCopy, Copy!Spec

-----------------------------------------------------------------------------
(* Versions.                                                               *)

\* A bound of the rows' versions is one of the table's.
LEMMA VersionBelow ==
    ASSUME NEW t \in Tables, NEW n \in Nat,
           \A c \in Cells : t[c] # NoRow => t[c].ver <= n
    PROVE  VersionOf(t) <= n
BY VersionIsMax

\* An answer taken into the rows changes nothing, or some row gets the pull's version.
LEMMA UpsertedVersion ==
    ASSUME IInv, NEW h \in Pullers, NEW S, S \subseteq Cells, rows' = Upserted(h, S),
           rows' \in Tables, \A c \in S : pull[h].got[c] \in Values
    PROVE  /\ rows' = rows \/ VersionOf(rows') >= pull[h].cand
           /\ VersionOf(rows) <= pull[h].cand =>
                  /\ VersionOf(rows') <= pull[h].cand
                  /\ VersionOf(rows') >= VersionOf(rows)
<1> DEFINE cand == pull[h].cand
<1>1. cand \in Nat /\ rows \in Tables
  BY LocalsType DEF Locals, IInv, TypeOK
<1>2. \A c \in Cells : \/ rows'[c] = rows[c]
                       \/ rows'[c] = [val |-> pull[h].got[c], ver |-> cand] /\ c \in S
  BY DEF Upserted
<1>3. \A c \in Cells : rows'[c] # rows[c] => rows'[c] # NoRow /\ rows'[c].ver = cand
  <2> SUFFICES ASSUME NEW c \in Cells, rows'[c] # rows[c]
               PROVE  rows'[c] # NoRow /\ rows'[c].ver = cand
    OBVIOUS
  <2> DEFINE new == [val |-> pull[h].got[c], ver |-> cand]
  <2>1. rows'[c] = new /\ c \in S
    BY <1>2
  <2>2. new \in Row /\ new.ver = cand
    BY <1>1, <2>1 DEF Row
  <2> QED
    BY <2>1, <2>2, NoRowAssumption
<1>4. VersionOf(rows) \in Nat /\ VersionOf(rows') \in Nat
  BY <1>1, VersionIsMax
<1>5. rows' = rows \/ VersionOf(rows') >= cand
  <2>1. (\A c \in Cells : rows'[c] = rows[c]) => rows' = rows
    BY <1>1 DEF Tables
  <2>2. ASSUME NEW c \in Cells, rows'[c] # rows[c]
        PROVE  VersionOf(rows') >= cand
    BY <1>1, <1>3, <1>4, <2>2, VersionIsMax
  <2> QED
    BY <2>1, <2>2
<1>6. ASSUME VersionOf(rows) <= cand
      PROVE  VersionOf(rows') <= cand /\ VersionOf(rows') >= VersionOf(rows)
  <2>1. \A c \in Cells : rows'[c] # NoRow => rows'[c].ver <= cand
    <3> SUFFICES ASSUME NEW c \in Cells, rows'[c] # NoRow PROVE rows'[c].ver <= cand
      OBVIOUS
    <3>1. CASE rows'[c] = rows[c]
      <4>1. rows[c].ver \in Nat /\ rows[c].ver <= VersionOf(rows)
        BY <1>1, <3>1, VersionIsMax
      <4> QED
        BY <1>1, <1>4, <1>6, <3>1, <4>1
    <3>2. CASE rows'[c] # rows[c]
      BY <1>1, <1>3, <3>2
    <3> QED
      BY <3>1, <3>2
  <2>2. VersionOf(rows') >= VersionOf(rows)
    BY <1>1, <1>4, <1>5, <1>6
  <2> QED
    BY <1>1, <2>1, <2>2, VersionBelow
<1> QED
  BY <1>5, <1>6

\* A read-back lowers no version, and brings none above the command's.
LEMMA ReadBackVersion ==
    ASSUME IInv, ReadAnswered, rows' \in Tables
    PROVE  /\ VersionOf(rows') >= VersionOf(rows)
           /\ intent.base <= VersionOf(rows) => VersionOf(rows') <= VersionOf(rows)
<1>1. intent \in Intents /\ rows \in Tables
  BY DEF ReadAnswered, IInv, TypeOK
<1>2. VersionOf(rows) \in Nat /\ VersionOf(rows') \in Nat /\ intent.base \in Nat
  BY <1>1, VersionIsMax DEF Intents
<1>3. CASE UNCHANGED rows
  BY <1>2, <1>3
<1>4. CASE rows' = [rows EXCEPT ![intent.cell] = ReadBackRow(@)]
  <2>1. ASSUME NEW c \in Cells, rows[c] # NoRow
        PROVE  rows'[c] # NoRow /\ rows'[c].ver = rows[c].ver
    <3>1. CASE c = intent.cell
      <4>1. rows'[c] = [rows[c] EXCEPT !.val = intent.val] /\ rows[c] \in Row
        BY <1>1, <1>4, <2>1, <3>1 DEF ReadBackRow, Tables
      <4>2. [rows[c] EXCEPT !.val = intent.val] \in Row
        BY <1>1, <4>1 DEF Row, Intents
      <4> QED
        BY <4>1, <4>2, NoRowAssumption DEF Row
    <3>2. CASE c # intent.cell
      BY <1>1, <1>4, <2>1, <3>2 DEF Tables
    <3> QED
      BY <3>1, <3>2
  <2>2. ASSUME NEW c \in Cells, rows[c] = NoRow, rows'[c] # NoRow
        PROVE  rows'[c].ver = intent.base
    BY <1>1, <1>4, <2>2 DEF ReadBackRow, Tables
  <2>3. VersionOf(rows) <= VersionOf(rows')
    <3>1. ASSUME NEW c \in Cells, rows[c] # NoRow PROVE rows[c].ver <= VersionOf(rows')
      BY <2>1, <3>1, VersionIsMax
    <3> QED
      BY <1>1, <1>2, <3>1, VersionBelow
  <2>4. ASSUME intent.base <= VersionOf(rows) PROVE VersionOf(rows') <= VersionOf(rows)
    <3>1. ASSUME NEW c \in Cells, rows'[c] # NoRow PROVE rows'[c].ver <= VersionOf(rows)
      BY <1>1, <2>1, <2>2, <2>4, <3>1, VersionIsMax
    <3> QED
      BY <1>2, <3>1, VersionBelow
  <2> QED
    BY <1>2, <2>3, <2>4
<1> QED
  BY <1>3, <1>4 DEF ReadAnswered

\* What a step of a puller does to its locals and to the lease.
LEMMA PullShape ==
    ASSUME IInv, NEW h \in Pullers,
           StartPull(h) \/ Pull(h) \/ PullFails(h) \/ SaveFails(h)
    PROVE  \E l : /\ pull' = [pull EXCEPT ![h] = l]
                  /\ l.pc \in AskingPcs =>
                         \/ /\ Running(h) /\ l.cand = pull[h].cand /\ l.name = pull[h].name /\ UNCHANGED lease
                         \/ /\ StartPull(h) /\ l.cand = CandidateVersion
                            /\ l.name \in Names /\ LeaseFree(l.name) /\ lease' = l.name
                            /\ disturbed' = (disturbed \/ lease = l.name)
                  /\ l.pc \notin AskingPcs => UNCHANGED lease \/ Release(h)
<1> USE DEF IInv
<1>1. pull[h] \in Locals
  BY LocalsType
<1>2. CASE StartPull(h)
  <2>1. PICK name \in Names :
          /\ LeaseFree(name) /\ lease' = name
          /\ pull' = [pull EXCEPT ![h] = Asking([Idle EXCEPT !.name = name, !.cand = CandidateVersion,
                                                             !.todo = ScopeOf[h]])]
          /\ disturbed' = (disturbed \/ lease = name)
    BY <1>2 DEF StartPull
  <2> DEFINE l == Asking([Idle EXCEPT !.name = name, !.cand = CandidateVersion, !.todo = ScopeOf[h]])
  <2>2. l.cand = CandidateVersion /\ l.pc \in AskingPcs /\ l.name = name
    BY DEF Asking, Idle, AskingPcs
  <2> HIDE DEF l
  <2>3. pull' = [pull EXCEPT ![h] = l]
    BY <2>1 DEF l
  <2> QED
    BY <1>2, <2>1, <2>2, <2>3
<1>3. CASE Serve(h)
  <2> DEFINE new == CASE At(h, "avail") -> [c \in RoomsOf(Property(h)) |-> channex[c]]
             [] At(h, "plans") -> offered \cap PlansOf(Property(h))
             [] At(h, "restr") -> [c \in offered \cap PlansOf(Property(h)) |-> channex[c]]
             l == [pull[h] EXCEPT !.got = new]
  <2>1. pull' = [pull EXCEPT ![h] = l] /\ UNCHANGED lease
    BY <1>3 DEF Serve, TypeOK
  <2> HIDE DEF new
  <2>2. l.cand = pull[h].cand /\ l.name = pull[h].name /\ l.pc = pull[h].pc
    BY <1>1 DEF Locals
  <2> QED
    BY <2>1, <2>2 DEF Running
<1>4. CASE AvailAnswered(h)
  <2> DEFINE l == [pull[h] EXCEPT !.pc = "plans", !.got = NoAnswer,
                                  !.changed = @ \/ Differs(h, DOMAIN pull[h].got)]
  <2>1. pull' = [pull EXCEPT ![h] = l] /\ UNCHANGED lease
    BY <1>4 DEF AvailAnswered, TypeOK
  <2>2. l.cand = pull[h].cand /\ l.name = pull[h].name /\ l.pc = "plans" /\ Running(h)
    BY <1>1, <1>4 DEF Locals, AvailAnswered, Answered, At, Running, AskingPcs
  <2> QED
    BY <2>1, <2>2
<1>5. ASSUME NEW table, NEW changed, Finished(h, table, changed), Running(h)
      PROVE  \E l : /\ pull' = [pull EXCEPT ![h] = l]
                    /\ l.pc \in AskingPcs =>
                           l.cand = pull[h].cand /\ l.name = pull[h].name /\ UNCHANGED lease
                    /\ l.pc \notin AskingPcs => UNCHANGED lease \/ Release(h)
  <2> DEFINE rest == pull[h].todo \ {Property(h)}
             asks == [pull[h] EXCEPT !.todo = rest, !.ids = {}, !.changed = changed]
             saves == [Idle EXCEPT !.pc = "persist", !.changed = TRUE,
                                   !.save = ToSave(h, table), !.got = [c \in {} |-> NoRow]]
  <2>1. asks.cand = pull[h].cand /\ asks.name = pull[h].name /\ DOMAIN asks = DOMAIN pull[h]
    BY <1>1 DEF Locals
  <2>2. /\ Asking(asks).cand = pull[h].cand /\ Asking(asks).name = pull[h].name
        /\ Asking(asks).pc \in AskingPcs
    <3> HIDE DEF asks
    <3> QED
      BY <1>1, <2>1 DEF Asking, Locals, AskingPcs
  <2>3. saves.pc \notin AskingPcs /\ Idle.pc \notin AskingPcs
    BY DEF Idle, AskingPcs
  <2> HIDE DEF asks, saves
  <2>4. \/ pull' = [pull EXCEPT ![h] = Asking(asks)] /\ UNCHANGED lease
        \/ /\ Release(h)
           /\ pull' = [pull EXCEPT ![h] = saves] \/ pull' = [pull EXCEPT ![h] = Idle]
    BY <1>5 DEF Finished, asks, saves
  <2> QED
    BY <2>2, <2>3, <2>4
<1>6. CASE PlansAnswered(h)
  <2>1. Running(h)
    BY <1>6 DEF PlansAnswered, Answered, At, Running, AskingPcs
  <2>2. CASE pull[h].got # {}
    <3> DEFINE l == [pull[h] EXCEPT !.pc = "restr", !.ids = pull[h].got, !.got = NoAnswer]
    <3>1. pull' = [pull EXCEPT ![h] = l] /\ UNCHANGED lease
      BY <1>6, <2>2 DEF PlansAnswered, TypeOK
    <3>2. l.cand = pull[h].cand /\ l.name = pull[h].name /\ l.pc = "restr"
      BY <1>1 DEF Locals
    <3> QED
      BY <2>1, <3>1, <3>2 DEF AskingPcs
  <2> QED
    BY <1>5, <1>6, <2>1, <2>2 DEF PlansAnswered
<1>7. CASE RestrAnswered(h)
  <2>1. Running(h)
    BY <1>7 DEF RestrAnswered, Answered, At, Running, AskingPcs
  <2> QED
    BY <1>5, <1>7, <2>1 DEF RestrAnswered
<1>8. CASE PullFails(h) \/ SaveFails(h) \/ SaveCommits(h)
  <2>1. pull' = [pull EXCEPT ![h] = Idle] /\ (UNCHANGED lease \/ Release(h))
    BY <1>8 DEF PullFails, SaveFails, SaveCommits
  <2>2. Idle.pc \notin AskingPcs
    BY DEF Idle, AskingPcs
  <2> QED
    BY <2>1, <2>2
<1>9. ASSUME NEW c \in pull[h].save, SaveRow(h, c)
      PROVE  \E l : /\ pull' = [pull EXCEPT ![h] = l] /\ UNCHANGED lease
                    /\ l.pc \notin AskingPcs
  <2> DEFINE new == [x \in DOMAIN pull[h].got \cup {c} |->
                        IF x = c THEN rows[c] ELSE pull[h].got[x]]
             l == [pull[h] EXCEPT !.save = @ \ {c}, !.got = new]
  <2>1. pull' = [pull EXCEPT ![h] = l] /\ UNCHANGED lease
    BY <1>9 DEF SaveRow, TypeOK
  <2> HIDE DEF new
  <2>2. l.pc \notin AskingPcs
    BY <1>1, <1>9 DEF SaveRow, At, Locals, AskingPcs
  <2> QED
    BY <2>1, <2>2
<1> QED
  BY <1>2, <1>3, <1>4, <1>6, <1>7, <1>8, <1>9 DEF Pull

\* What a step of a puller does to the rows.
LEMMA PullRows ==
    ASSUME IInv, NEW h \in Pullers,
           StartPull(h) \/ Pull(h) \/ PullFails(h) \/ SaveFails(h)
    PROVE  \/ UNCHANGED rows
           \/ /\ Running(h) /\ ~StartPull(h)
              /\ \E S \in SUBSET Cells :
                     /\ rows' = Upserted(h, S)
                     /\ \A c \in S : pull[h].got[c] \in Values
<1>1. CASE AvailAnswered(h)
  <2>1. /\ DOMAIN pull[h].got \subseteq Cells /\ Running(h) /\ ~StartPull(h)
        /\ \A c \in DOMAIN pull[h].got : pull[h].got[c] \in Values
    BY <1>1 DEF AvailAnswered, Answered, At, IInv, AllHeld, GotHeld, Running, AskingPcs, StartPull
  <2> QED
    BY <1>1, <2>1 DEF AvailAnswered
<1>2. CASE RestrAnswered(h)
  <2>1. /\ DOMAIN pull[h].got \cap pull[h].ids \subseteq Cells /\ Running(h) /\ ~StartPull(h)
        /\ \A c \in DOMAIN pull[h].got \cap pull[h].ids : pull[h].got[c] \in Values
    BY <1>2 DEF RestrAnswered, Answered, At, IInv, AllHeld, GotHeld, Running, AskingPcs, StartPull
  <2> QED
    BY <1>2, <2>1 DEF RestrAnswered
<1>3. CASE ~AvailAnswered(h) /\ ~RestrAnswered(h)
  BY <1>3 DEF Pull, StartPull, Serve, PlansAnswered, SaveRow, SaveCommits, PullFails, SaveFails
<1> QED
  BY <1>1, <1>2, <1>3

\* A puller that is not running and does not start leaves the lease alone.
LEMMA LeaseStays ==
    ASSUME NEW h \in Pullers, Pull(h) \/ PullFails(h) \/ SaveFails(h) \/ StartPull(h),
           ~Running(h), ~StartPull(h)
    PROVE  UNCHANGED lease
BY DEF Pull, Serve, AvailAnswered, PlansAnswered, RestrAnswered, SaveRow, SaveCommits, PullFails,
    SaveFails, Answered, At, Running, AskingPcs

LEMMA NextKeepsOnePuller ==
    ASSUME IInv, OnePuller, [Next]_vars
    PROVE  OnePuller'
<1> USE DEF IInv
<1> SUFFICES ASSUME ~disturbed' PROVE OnePuller'
  BY DEF OnePuller
<1>0. rows \in Tables /\ rows' \in Tables
  BY NextKeepsTypes DEF TypeOK
<1>v. VersionOf(rows) \in Nat /\ VersionOf(rows') \in Nat
  BY <1>0, VersionIsMax
<1>1. ASSUME NEW h \in Pullers, StartPull(h) \/ Pull(h) \/ PullFails(h) \/ SaveFails(h)
      PROVE  OnePuller'
  <2>1. UNCHANGED <<hydrated, intent>> /\ ~disturbed
    <3>1. CASE StartPull(h)
      <4>1. UNCHANGED <<hydrated, intent>>
        BY <3>1 DEF StartPull, PullOnly
      <4>2. PICK name \in Names : disturbed' = (disturbed \/ lease = name)
        BY <3>1 DEF StartPull
      <4>3. ~disturbed
        BY <4>2, Zenon
      <4> QED
        BY <4>1, <4>3
    <3>2. CASE Pull(h) \/ PullFails(h) \/ SaveFails(h)
      <4>1. UNCHANGED <<hydrated, intent, disturbed>>
        BY <3>2 DEF Pull, Serve, AvailAnswered, PlansAnswered, RestrAnswered, SaveRow, SaveCommits,
             PullFails, SaveFails, PullOnly
      <4> QED
        BY <4>1
    <3> QED
      BY <1>1, <3>1, <3>2
  <2>2. /\ hydrated
        /\ \A k \in Pullers : Running(k) => /\ lease = pull[k].name /\ lease # Nobody
                                            /\ VersionOf(rows) <= pull[k].cand
        /\ \A g, k \in Pullers : Running(g) /\ Running(k) => g = k
        /\ intent # NoIntent => intent.base <= VersionOf(rows)
    BY <2>1 DEF OnePuller
  <2>3. PICK l : /\ pull' = [pull EXCEPT ![h] = l]
                 /\ l.pc \in AskingPcs =>
                        \/ /\ Running(h) /\ l.cand = pull[h].cand /\ l.name = pull[h].name /\ UNCHANGED lease
                        \/ /\ StartPull(h) /\ l.cand = CandidateVersion
                            /\ l.name \in Names /\ LeaseFree(l.name) /\ lease' = l.name
                            /\ disturbed' = (disturbed \/ lease = l.name)
                 /\ l.pc \notin AskingPcs => UNCHANGED lease \/ Release(h)
    BY <1>1, PullShape
  <2>4. pull[h].cand \in Nat /\ \A k \in Pullers : pull[k].cand \in Nat
    BY LocalsType DEF Locals
  <2>5. \/ UNCHANGED rows
        \/ /\ Running(h) /\ ~StartPull(h) /\ VersionOf(rows') <= pull[h].cand
           /\ VersionOf(rows') >= VersionOf(rows)
    BY <1>0, <1>1, <2>2, PullRows, UpsertedVersion
  <2>6. intent' # NoIntent => intent'.base <= VersionOf(rows')
    <3>1. intent # NoIntent => intent.base \in Nat
      BY DEF TypeOK, Intents
    <3> QED
      BY <1>v, <2>1, <2>2, <2>5, <3>1
  <2>7. ASSUME StartPull(h)
        PROVE  /\ \A k \in Pullers : ~Running(k)
               /\ UNCHANGED rows /\ lease' = l.name /\ l.name # Nobody /\ l.cand = CandidateVersion
    <3>1. UNCHANGED rows /\ ~Running(h)
      BY <2>7 DEF StartPull, Running, AskingPcs
    <3>2. pull'[h] = l
      BY <2>3 DEF TypeOK
    <3>3. l.pc \in AskingPcs
      <4>1. PICK name \in Names :
              pull' = [pull EXCEPT ![h] = Asking([Idle EXCEPT !.name = name, !.cand = CandidateVersion,
                                                              !.todo = ScopeOf[h]])]
        BY <2>7 DEF StartPull
      <4>2. l = Asking([Idle EXCEPT !.name = name, !.cand = CandidateVersion, !.todo = ScopeOf[h]])
        BY <3>2, <4>1 DEF TypeOK
      <4> QED
        BY <4>2 DEF Asking, Idle, AskingPcs
    <3>4. /\ l.cand = CandidateVersion /\ l.name \in Names /\ LeaseFree(l.name) /\ lease' = l.name
          /\ lease # l.name
      BY <2>3, <3>1, <3>3
    <3>5. lease = Nobody /\ l.name # Nobody
      BY <3>4 DEF LeaseFree
    <3> QED
      BY <2>2, <3>1, <3>4, <3>5
  <2>8. ASSUME NEW k \in Pullers, Running(k)'
        PROVE  /\ lease' = pull'[k].name /\ lease' # Nobody
               /\ VersionOf(rows') <= pull'[k].cand
               /\ k # h => Running(k) /\ ~Running(h) /\ ~StartPull(h)
    <3>1. CASE k = h
      <4>1. pull'[k] = l /\ l.pc \in AskingPcs
        BY <2>3, <2>8, <3>1 DEF TypeOK, Running
      <4>2. CASE StartPull(h)
        BY <1>v, <2>7, <3>1, <4>1, <4>2 DEF CandidateVersion
      <4>3. CASE ~StartPull(h)
        BY <2>2, <2>3, <2>5, <3>1, <4>1, <4>3
      <4> QED
        BY <4>2, <4>3
    <3>2. CASE k # h
      <4>1. pull'[k] = pull[k] /\ Running(k)
        BY <2>3, <2>8, <3>2 DEF TypeOK, Running
      <4>2. lease = pull[k].name /\ lease # Nobody /\ VersionOf(rows) <= pull[k].cand
        BY <2>2, <4>1
      <4>3. ~Running(h) /\ ~StartPull(h)
        BY <2>2, <2>7, <3>2, <4>1
      <4>4. UNCHANGED rows
        BY <2>5, <4>3
      <4>5. UNCHANGED lease
        BY <1>1, <4>3, LeaseStays
      <4> QED
        BY <4>1, <4>2, <4>3, <4>4, <4>5
    <3> QED
      BY <3>1, <3>2
  <2>9. ASSUME NEW g \in Pullers, NEW k \in Pullers, Running(g)', Running(k)' PROVE g = k
    <3>1. g # h => Running(g) /\ ~Running(h) /\ ~StartPull(h)
      BY <2>8, <2>9
    <3>2. k # h => Running(k) /\ ~Running(h) /\ ~StartPull(h)
      BY <2>8, <2>9
    <3>3. Running(h)' => Running(h) \/ StartPull(h)
      <4>1. Running(h)' => pull'[h] = l /\ l.pc \in AskingPcs
        BY <2>3 DEF TypeOK, Running
      <4> QED
        BY <2>3, <4>1
    <3> QED
      BY <2>2, <2>9, <3>1, <3>2, <3>3
  <2> QED
    BY <2>1, <2>2, <2>6, <2>8, <2>9 DEF OnePuller
<1>2. CASE \/ (\E c \in Plans : Withdraw(c)) \/ UNCHANGED vars \/ Sent \/ ReadServed
           \/ \E c \in Cells, v \in Values : ChannexEdit(c, v)
  <2>1. UNCHANGED <<disturbed, hydrated, rows, pull, lease>>
    BY <1>2 DEF Withdraw, vars, memory, Sent, ReadServed, ChannexEdit
  <2>2. intent' = intent \/ (intent # NoIntent /\ intent'.base = intent.base)
    BY <1>2 DEF Withdraw, vars, Sent, ReadServed, ChannexEdit, TypeOK, Intents
  <2> QED
    BY <2>1, <2>2 DEF OnePuller, Running
<1>3. ASSUME NEW f \in forms, NEW c \in Cells, NEW v \in Values, Submit(f, c, v)
      PROVE  OnePuller'
  <2>1. UNCHANGED <<disturbed, hydrated, rows, pull, lease>> /\ intent'.base = VersionOf(rows)
    BY <1>3 DEF Submit, memory, Fresh
  <2> QED
    BY <1>v, <2>1 DEF OnePuller, Running
<1>4. CASE ReadAnswered
  <2>1. UNCHANGED <<disturbed, hydrated, pull, lease>> /\ intent' = NoIntent
    BY <1>4 DEF ReadAnswered
  <2>2. /\ VersionOf(rows') >= VersionOf(rows)
        /\ intent.base <= VersionOf(rows) => VersionOf(rows') <= VersionOf(rows)
    BY <1>0, <1>4, ReadBackVersion
  <2>3. intent.base <= VersionOf(rows)
    BY <1>4, <2>1 DEF OnePuller, ReadAnswered
  <2>4. VersionOf(rows') = VersionOf(rows)
    BY <1>v, <2>2, <2>3
  <2> QED
    BY <2>1, <2>4 DEF OnePuller, Running
<1>5. CASE LeaseLapses \/ Crash
  BY <1>5 DEF LeaseLapses, Crash
<1>6. CASE Hydrate
  BY <1>6 DEF Hydrate, OnePuller
<1> QED
  BY <1>1, <1>2, <1>3, <1>4, <1>5, <1>6 DEF Next, Write

LEMMA OnePullerHolds == Spec => []OnePuller
<1>1. Init => OnePuller
  BY DEF Init, OnePuller, Running, AskingPcs, Idle
<1>2. IInv /\ OnePuller /\ [Next]_vars => OnePuller'
  BY NextKeepsOnePuller
<1> QED
  BY <1>1, <1>2, Invariant, PTL DEF Spec

LEMMA StepKeepsVersion ==
    ASSUME IInv, OnePuller, [Next]_vars, hydrated, hydrated', ~disturbed'
    PROVE  VersionOf(rows') >= VersionOf(rows)
<1> USE DEF IInv
<1>0. rows \in Tables /\ rows' \in Tables
  BY NextKeepsTypes DEF TypeOK
<1>v. VersionOf(rows) \in Nat /\ VersionOf(rows') \in Nat
  BY <1>0, VersionIsMax
<1>1. ASSUME NEW h \in Pullers, StartPull(h) \/ Pull(h) \/ PullFails(h) \/ SaveFails(h)
      PROVE  VersionOf(rows') >= VersionOf(rows)
  <2>1. ~disturbed
    BY <1>1 DEF StartPull, Pull, Serve, AvailAnswered, PlansAnswered, RestrAnswered, SaveRow,
         SaveCommits, PullFails, SaveFails, PullOnly
  <2>2. Running(h) => VersionOf(rows) <= pull[h].cand
    BY <2>1 DEF OnePuller
  <2> QED
    BY <1>0, <1>1, <1>v, <2>2, PullRows, UpsertedVersion
<1>2. CASE ReadAnswered
  BY <1>0, <1>2, ReadBackVersion
<1>3. CASE Crash \/ Hydrate
  BY <1>3 DEF Crash, Hydrate
<1>4. CASE \/ LeaseLapses \/ (\E c \in Plans : Withdraw(c)) \/ UNCHANGED vars \/ Sent \/ ReadServed
           \/ (\E c \in Cells, v \in Values : ChannexEdit(c, v))
           \/ \E f \in forms, c \in Cells, v \in Values : Submit(f, c, v)
  <2>1. UNCHANGED rows
    BY <1>4 DEF LeaseLapses, Withdraw, vars, memory, Sent, ReadServed, ChannexEdit, Submit
  <2> QED
    BY <1>v, <2>1
<1> QED
  BY <1>1, <1>2, <1>3, <1>4 DEF Next, Write

\* "monotonic snapshot version" (pull-ari.ts): within a process the version never falls,
\* as long as no lease ran out under a slow pull and no two pulls began in one millisecond.
THEOREM VersionMonotonic == Spec => VersionNeverFalls
<1>1. IInv /\ OnePuller /\ [Next]_vars
        => [hydrated /\ hydrated' /\ ~disturbed' => VersionOf(rows') >= VersionOf(rows)]_vars
  BY StepKeepsVersion
<1> QED
  BY <1>1, Invariant, OnePullerHolds, PTL DEF Spec, VersionNeverFalls

-----------------------------------------------------------------------------
(* Forms.                                                                  *)

Overtaken(f, table, locals) ==
    /\ f.ver < VersionOf(table) \/ (f.ver = VersionOf(table) /\ f.seen = Drawn(table))
    /\ \A h \in Pullers : locals[h].pc \in AskingPcs => f.ver < locals[h].cand

\* The form drawn now shows what there is; pulls have yet to begin if it is settled.
LEMMA KeptOvertaken ==
    ASSUME NEW kept, Draws(kept), \A f \in kept : f.settled => Overtaken(f, rows', pull')
    PROVE  FormsOvertaken'
<1> DEFINE new == [ver |-> VersionOf(rows'), seen |-> Drawn(rows'), settled |-> Quiet(pull')]
<1>1. new.settled => Overtaken(new, rows', pull')
  BY DEF Overtaken, Quiet, AskingPcs
<1> HIDE DEF new
<1>2. forms' = kept \/ forms' = kept \cup {new}
  BY DEF Draws, new
<1> QED
  BY <1>1, <1>2 DEF FormsOvertaken, Overtaken, Running

LEMMA NextKeepsFormsOvertaken ==
    ASSUME IInv, FormsOvertaken, [Next]_vars
    PROVE  FormsOvertaken'
<1> USE DEF IInv
<1>0. rows \in Tables /\ rows' \in Tables
  BY NextKeepsTypes DEF TypeOK
<1>v. VersionOf(rows) \in Nat /\ VersionOf(rows') \in Nat
  BY <1>0, VersionIsMax
<1>f. \A f \in forms : f.ver \in Nat
  BY DEF TypeOK, Forms
<1>1. ASSUME NEW h \in Pullers, StartPull(h) \/ Pull(h) \/ PullFails(h) \/ SaveFails(h)
      PROVE  FormsOvertaken'
  <2>1. Draws(forms)
    BY <1>1 DEF StartPull, Pull, Serve, AvailAnswered, PlansAnswered, RestrAnswered, SaveRow,
         SaveCommits, PullFails, SaveFails, PullOnly
  <2>2. PICK l : /\ pull' = [pull EXCEPT ![h] = l]
                 /\ l.pc \in AskingPcs =>
                        \/ /\ Running(h) /\ l.cand = pull[h].cand /\ l.name = pull[h].name /\ UNCHANGED lease
                        \/ /\ StartPull(h) /\ l.cand = CandidateVersion
                            /\ l.name \in Names /\ LeaseFree(l.name) /\ lease' = l.name
                            /\ disturbed' = (disturbed \/ lease = l.name)
    BY <1>1, PullShape
  <2>3. pull[h].cand \in Nat
    BY LocalsType DEF Locals
  <2>4. ASSUME NEW f \in forms, f.settled
        PROVE  Overtaken(f, rows', pull')
    <3>1. Overtaken(f, rows, pull)
      BY <2>4 DEF FormsOvertaken, Overtaken, Running
    <3>2. f.ver < VersionOf(rows') \/ (f.ver = VersionOf(rows') /\ f.seen = Drawn(rows'))
      <4>1. rows' = rows \/ (Running(h) /\ VersionOf(rows') >= pull[h].cand)
        BY <1>0, <1>1, PullRows, UpsertedVersion
      <4> QED
        BY <1>f, <1>v, <2>3, <3>1, <4>1 DEF Overtaken, Running
    <3>3. ASSUME NEW k \in Pullers, pull'[k].pc \in AskingPcs
          PROVE  f.ver < pull'[k].cand
      <4>1. CASE k # h
        BY <2>2, <3>1, <3>3, <4>1 DEF Overtaken, Running, TypeOK
      <4>2. CASE k = h
        <5>1. pull'[k] = l /\ l.pc \in AskingPcs
          BY <2>2, <3>3, <4>2 DEF TypeOK
        <5>2. (l.cand = pull[h].cand /\ Running(h)) \/ l.cand = VersionOf(rows) + 1
          BY <2>2, <5>1 DEF CandidateVersion
        <5> QED
          BY <1>f, <1>v, <2>3, <3>1, <4>2, <5>1, <5>2 DEF Overtaken, Running
      <4> QED
        BY <4>1, <4>2
    <3> QED
      BY <3>2, <3>3 DEF Overtaken
  <2> QED
    BY <2>1, <2>4, KeptOvertaken
<1>2. ASSUME Draws(forms), UNCHANGED <<rows, pull>>
      PROVE  FormsOvertaken'
  <2>1. \A f \in forms : f.settled => Overtaken(f, rows', pull')
    BY <1>2 DEF FormsOvertaken, Overtaken, Running
  <2> QED
    BY <1>2, <2>1, KeptOvertaken
<1>3. CASE \/ LeaseLapses \/ (\E c \in Plans : Withdraw(c)) \/ Sent \/ ReadServed
           \/ (\E c \in Cells, v \in Values : ChannexEdit(c, v))
           \/ \E f \in forms, c \in Cells, v \in Values : Submit(f, c, v)
  <2>1. Draws(forms) /\ UNCHANGED <<rows, pull>>
    BY <1>3 DEF LeaseLapses, Withdraw, memory, Sent, ReadServed, ChannexEdit, Submit
  <2> QED
    BY <1>2, <2>1
<1>4. Draws(Unsettled(forms)) => FormsOvertaken'
  <2>1. \A f \in Unsettled(forms) : ~f.settled
    BY DEF Unsettled, TypeOK, Forms
  <2>2. \A f \in Unsettled(forms) : f.settled => Overtaken(f, rows', pull')
    BY <2>1
  <2> QED
    BY <2>2, KeptOvertaken
<1>5. CASE ReadAnswered
  <2>1. CASE rows' = rows
    BY <1>2, <1>5, <2>1 DEF ReadAnswered
  <2>2. CASE rows' # rows
    BY <1>4, <1>5, <2>2 DEF ReadAnswered
  <2> QED
    BY <2>1, <2>2
<1>6. CASE Crash
  BY <1>4, <1>6 DEF Crash
<1>7. CASE Hydrate
  BY <1>7, KeptOvertaken DEF Hydrate, NothingLoaded
<1>8. CASE UNCHANGED vars
  BY <1>8 DEF vars, memory, FormsOvertaken, Running
<1> QED
  BY <1>1, <1>3, <1>5, <1>6, <1>7, <1>8 DEF Next, Write

\* KTD6: a form drawn while no pull was under way and still fresh shows what the
\* projection has, whatever pulls, read-backs, lapsed leases and restarts came between.
THEOREM FreshFormsHold == Spec => []FreshFormHolds
<1>1. Init => FormsOvertaken
  BY DEF Init, FormsOvertaken
<1>2. IInv /\ FormsOvertaken /\ [Next]_vars => FormsOvertaken'
  BY NextKeepsFormsOvertaken
<1>3. IInv /\ FormsOvertaken => FreshFormHolds
  <2> SUFFICES ASSUME IInv, FormsOvertaken, NEW f \in forms, f.settled, Fresh(f.ver)
               PROVE  f.seen = Drawn(rows)
    BY DEF FreshFormHolds
  <2>1. VersionOf(rows) \in Nat
    BY VersionIsMax DEF IInv, TypeOK
  <2> QED
    BY <2>1 DEF FormsOvertaken, Fresh
<1> QED
  BY <1>1, <1>2, <1>3, Invariant, PTL DEF Spec
=============================================================================
