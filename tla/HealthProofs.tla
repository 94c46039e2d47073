---------------------------- MODULE HealthProofs ----------------------------
(***************************************************************************)
(* Proofs about Health: what /healthz says between two rounds, what the    *)
(* portal starts with, and what a passed check is worth, for every         *)
(* configuration, number of provisioners and state of the databases.       *)
(***************************************************************************)
EXTENDS Health, TLAPS

\* err is the first of those that complained, if somebody did.
IsFirst(err, complained) ==
    IF complained = {} THEN err = NoError
    ELSE err \in complained /\ \A i \in complained : err <= i

\* A process that has read nothing yet knows nothing.
FreshStart == phase = "start" => provs = <<>> /\ next = 0

\* In a round, firstErr is right about those who were asked.
RoundSoFar ==
    phase \in {"check", "serving"} /\ next # 0 =>
        IsFirst(firstErr, last \intersect (1..(next - 1)))

\* The inductive invariant of Health.
HealthInv == HealthTypeOK /\ FreshStart /\ RoundSoFar /\ HealthIsLastRound

-----------------------------------------------------------------------------
\* What Load returns.

Distinct(ps) == \A i, j \in DOMAIN ps : ps[i].name = ps[j].name => i = j

\* A configuration that loads names each provisioner once.
LEMMA LoadedAreDistinct ==
    ASSUME NEW nodes \in Seq(Node), Load(nodes) # Nothing
    PROVE  /\ Len(Load(nodes)) \in Nat
           /\ DOMAIN Load(nodes) = 1..Len(Load(nodes))
           /\ Distinct(Load(nodes))
<1> DEFINE ps == [i \in DOMAIN nodes |-> Built(nodes[i])]
<1>1. Load(nodes) = ps /\ \A i \in DOMAIN nodes : ~NameTaken(nodes, i)
  BY DEF Load
<1>2. ps = [i \in 1..Len(nodes) |-> Built(nodes[i])] /\ Len(nodes) \in Nat
  OBVIOUS
<1>3. Len(ps) = Len(nodes) /\ DOMAIN ps = 1..Len(nodes)
  BY <1>2
<1>4. ASSUME NEW i \in DOMAIN ps, NEW j \in DOMAIN ps, ps[i].name = ps[j].name
      PROVE  i = j
  <2>1. NameOf(nodes[i]) = NameOf(nodes[j])
    BY <1>4 DEF Built
  <2>2. i \in Nat /\ j \in Nat /\ i \in DOMAIN nodes /\ j \in DOMAIN nodes /\ 1 <= i /\ 1 <= j
    BY <1>3
  <2>3. ~(i < j) /\ ~(j < i)
    BY <1>1, <2>1, <2>2 DEF NameTaken
  <2> QED
    BY <2>2, <2>3
<1> QED
  BY <1>1, <1>2, <1>3, <1>4 DEF Distinct

\* The provisioners of a running portal are a list.
LEMMA ListsAreLists ==
    ASSUME NEW ps \in Lists
    PROVE  /\ Len(ps) \in Nat
           /\ DOMAIN ps = 1..Len(ps)
           /\ Distinct(ps)
<1>1. CASE ps = <<>>
  BY <1>1 DEF Distinct
<1>2. CASE ps # <<>>
  <2>1. PICK c \in Configurations : Startable(c) /\ ps = Load(c.nodes)
    BY <1>2 DEF Lists
  <2> QED
    BY <2>1, LoadedAreDistinct, ConfigurationsAssumption DEF Startable
<1> QED
  BY <1>1, <1>2

\* The list before the configuration is read.
LEMMA EmptyList == <<>> \in Lists /\ DOMAIN <<>> = {} /\ Len(<<>>) = 0
  BY DEF Lists

\* The provisioners are a list without repetition.
LEMMA ProvsAreAList ==
    ASSUME HealthTypeOK
    PROVE  /\ Len(provs) \in Nat
           /\ DOMAIN provs = 1..Len(provs)
           /\ Distinct(provs)
  BY ListsAreLists DEF HealthTypeOK

-----------------------------------------------------------------------------
\* The invariant.

\* The invariant holds at the start.
LEMMA InitHealthInv == Init => HealthInv
<1> SUFFICES ASSUME Init PROVE HealthInv
  OBVIOUS
<1>1. HealthTypeOK
  BY EmptyList, DatabasesAssumption DEF Init, HealthTypeOK
<1> QED
  BY <1>1 DEF Init, HealthInv, FreshStart, RoundSoFar, HealthIsLastRound

\* Every step keeps the invariant.
LEMMA NextHealthInv == HealthInv /\ [Next]_vars => HealthInv'
<1> SUFFICES ASSUME HealthInv, [Next]_vars PROVE HealthInv'
  OBVIOUS
<1>0. /\ HealthTypeOK /\ FreshStart /\ RoundSoFar /\ HealthIsLastRound
      /\ Len(provs) \in Nat
      /\ DOMAIN provs = 1..Len(provs)
  BY ProvsAreAList DEF HealthInv
<1>1. CASE Configured
  <2>1. provs = <<>> /\ last = {} /\ checkErr = NoError /\ query = 1
    BY <1>0, <1>1 DEF Configured, FreshStart, HealthTypeOK
  <2>2. /\ provs' \in Lists
        /\ Len(provs') \in Nat
        /\ DOMAIN provs' = 1..Len(provs')
    <3>1. provs' \in Lists
      BY <1>0, <1>1 DEF Configured, HealthTypeOK, Lists
    <3> QED
      BY <3>1, ListsAreLists
  <2>3. HealthTypeOK'
    BY <1>0, <1>1, <2>1, <2>2 DEF Configured, BeginRound, HealthTypeOK
  <2> QED
    BY <1>1, <2>1, <2>3
       DEF Configured, BeginRound, HealthInv, FreshStart, RoundSoFar, IsFirst,
           HealthIsLastRound
<1>2. CASE Misconfigured
  BY <1>0, <1>2
     DEF Misconfigured, roundVars, HealthInv, HealthTypeOK, FreshStart, RoundSoFar,
         HealthIsLastRound
<1>3. CASE Restart
  BY <1>0, <1>3, EmptyList
     DEF Restart, HealthInv, HealthTypeOK, FreshStart, RoundSoFar, HealthIsLastRound
<1>4. CASE Kill
  BY <1>0, <1>4
     DEF Kill, roundVars, HealthInv, HealthTypeOK, FreshStart, RoundSoFar,
         HealthIsLastRound
<1>5. CASE PassSchema
  BY <1>0, <1>5
     DEF PassSchema, Asking, HealthInv, HealthTypeOK, FreshStart, RoundSoFar,
         HealthIsLastRound
<1>6. CASE PassGrants
  <2>1. HealthTypeOK'
    BY <1>0, <1>6 DEF PassGrants, Asking, HealthTypeOK
  <2>2. last' \intersect (1..(next' - 1)) = last \intersect (1..(next - 1))
    BY <1>0, <1>6 DEF PassGrants, Asking, HealthTypeOK
  <2> QED
    BY <1>0, <1>6, <2>1, <2>2
       DEF PassGrants, Asking, HealthInv, HealthTypeOK, FreshStart, RoundSoFar, IsFirst,
           HealthIsLastRound
<1>7. CASE Complain
  <2>1. HealthTypeOK'
    BY <1>0, <1>7 DEF Complain, Asking, HealthTypeOK
  <2> DEFINE before == last \intersect (1..(next - 1))
  <2>2. /\ last' \intersect (1..(next' - 1)) = before \union {next}
        /\ next \in Nat /\ next # 0
        /\ \A i \in before : i < next
    BY <1>0, <1>7 DEF Complain, Asking, HealthTypeOK
  <2>3. IsFirst(firstErr, before)
    BY <1>0, <1>7, <2>2 DEF RoundSoFar, Complain, Asking
  <2>4. IsFirst(firstErr', before \union {next})
    <3>1. CASE before = {}
      BY <1>7, <2>2, <2>3, <3>1 DEF Complain, IsFirst
    <3>2. CASE before # {}
      <4>1. firstErr \in before /\ firstErr # NoError
        BY <1>0, <2>3, <3>2, NoErrorAssumption DEF IsFirst
      <4>2. firstErr' = firstErr
        BY <1>7, <4>1 DEF Complain
      <4> QED
        BY <2>2, <2>3, <3>2, <4>1, <4>2 DEF IsFirst
    <3> QED
      BY <3>1, <3>2
  <2> QED
    BY <1>0, <1>7, <2>1, <2>2, <2>4
       DEF Complain, Asking, HealthInv, HealthTypeOK, FreshStart, RoundSoFar, IsFirst,
           HealthIsLastRound
<1>8. CASE Publish
  <2>1. HealthTypeOK'
    BY <1>0, <1>8 DEF Publish, RoundDone, NewErr, Onwards, HealthTypeOK
  <2>2. last \intersect (1..(next - 1)) = last
    BY <1>0, <1>8 DEF Publish, RoundDone, HealthTypeOK
  <2>3. IsFirst(firstErr, last)
    BY <1>0, <1>8, <2>2 DEF Publish, RoundDone, RoundSoFar, IsFirst
  <2>4. HealthIsLastRound'
    BY <1>8, <2>3 DEF Publish, NewErr, IsFirst, HealthIsLastRound
  <2> QED
    BY <1>8, <2>1, <2>4 DEF Publish, Onwards, HealthInv, FreshStart, RoundSoFar
<1>9. CASE Tick
  BY <1>0, <1>9
     DEF Tick, roundVars, HealthInv, HealthTypeOK, FreshStart, RoundSoFar,
         HealthIsLastRound
<1>10. CASE NextRound
  <2>1. HealthTypeOK'
    BY <1>0, <1>10 DEF NextRound, BeginRound, HealthTypeOK
  <2> QED
    BY <1>10, <2>1
       DEF NextRound, BeginRound, HealthInv, FreshStart, RoundSoFar, IsFirst,
           HealthIsLastRound
<1>11. CASE Drift
  BY <1>0, <1>11, DatabasesAssumption
     DEF Drift, roundVars, HealthInv, HealthTypeOK, FreshStart, RoundSoFar,
         HealthIsLastRound
<1>12. CASE UNCHANGED vars
  BY <1>0, <1>12
     DEF vars, roundVars, HealthInv, HealthTypeOK, FreshStart, RoundSoFar,
         HealthIsLastRound
<1> QED
  BY <1>1, <1>2, <1>3, <1>4, <1>5, <1>6, <1>7, <1>8, <1>9, <1>10, <1>11, <1>12
     DEF Next, Check

\* The invariant holds in every reachable state.
LEMMA SpecHealthInv == Spec => []HealthInv
  BY InitHealthInv, NextHealthInv, PTL DEF Spec

-----------------------------------------------------------------------------
\* The theorems.

\* Type correctness of Health.
THEOREM HealthTypeCorrect == Spec => []HealthTypeOK
<1>1. HealthInv => HealthTypeOK
  BY DEF HealthInv
<1> QED
  BY <1>1, SpecHealthInv, PTL

\* Between two rounds /healthz goes by the first provisioner that complained
\* when it was last asked, whatever number of them is asked and whatever the
\* databases do meanwhile.
THEOREM HealthReportsLastRound == Spec => []HealthIsLastRound
<1>1. HealthInv => HealthIsLastRound
  BY DEF HealthInv
<1> QED
  BY <1>1, SpecHealthInv, PTL

\* The portal begins to serve only after a round without a complaint, with
\* provisioners whose names differ.
THEOREM StartIsChecked == Spec => StartsOnlyIfAllPass
<1> DEFINE Starts == phase' = "serving" /\ phase # "serving" =>
                        last = {} /\ Distinct(provs)
<1>1. HealthInv /\ [Next]_vars => [Starts]_vars
  <2> SUFFICES ASSUME HealthInv, [Next]_vars, phase' = "serving", phase # "serving"
               PROVE  last = {} /\ Distinct(provs)
    OBVIOUS
  <2>1. Publish
    BY DEF Next, Configured, Misconfigured, Restart, Kill, Check, PassSchema,
           PassGrants, Complain, Tick, NextRound, Drift, vars
  <2>2. phase = "check" /\ firstErr = NoError /\ next = Len(provs) + 1
    BY <2>1 DEF Publish, Onwards, RoundDone
  <2>3. Len(provs) \in Nat /\ DOMAIN provs = 1..Len(provs) /\ Distinct(provs)
    BY ProvsAreAList DEF HealthInv
  <2>4. last \intersect (1..(next - 1)) = last
    BY <2>2, <2>3 DEF HealthInv, HealthTypeOK
  <2>5. IsFirst(NoError, last)
    BY <2>2, <2>3, <2>4 DEF HealthInv, RoundSoFar, IsFirst
  <2>6. NoError \notin last
    BY <2>3, NoErrorAssumption DEF HealthInv, HealthTypeOK
  <2> QED
    BY <2>3, <2>5, <2>6 DEF IsFirst
<1> QED
  BY <1>1, SpecHealthInv, PTL DEF Spec, StartsOnlyIfAllPass, Distinct

-----------------------------------------------------------------------------
\* What a passed check is worth, for every state a database may be in.

\* A role that may insert into a column sees that column.
LEMMA ColumnsOfTheRole ==
    ASSUME NEW d \in Database, NEW c \in Columns, Exists(d, c), May(d, Insert)
    PROVE  c \in Shown(d)
  BY DEF Shown

\* The columns the statements name are columns of the table.
LEMMA ColumnNames ==
    /\ insertColumns \subseteq Columns
    /\ Read \subseteq insertColumns
    /\ Updated \subseteq Read
    /\ "email" \in Read
    /\ "id" \in Columns \ insertColumns
    /\ "password" \in Columns \ insertColumns
  BY DEF Columns, insertColumns, Read, Updated

\* The grants the check asks for are those of the statements.
LEMMA GrantNames ==
    /\ \A c \in Read : <<"select", c>> \in Selects
    /\ \A c \in Updated : <<"update", c>> \in Updates
  BY DEF Selects, Updates

\* A database the check finds nothing wrong with runs every statement but the
\* insert, and the insert just if what the check takes for granted is so.
LEMMA FittingIsSound ==
    ASSUME NEW d \in Database, Fits(d)
    PROVE  /\ CanStatus(d)
           /\ CanSync(d)
           /\ CanInsert(d) <=> TakenForGranted(d)
<1>1. /\ d.up /\ \A c \in Read : Exists(d, c)
      /\ \A g \in Selects \union Updates \union {Insert} : May(d, g)
      /\ d.named => May(d, Usage)
      /\ Unmet(d) = {}
  BY DEF Fits, SchemaFits, GrantsFit
<1>2. \A c \in Read : CanRead(d, c)
  BY <1>1, GrantNames DEF CanRead
<1>3. CanStatus(d)
  BY <1>1, <1>2 DEF CanStatus
<1>4. CanSync(d)
  BY <1>1, <1>2, ColumnNames, GrantNames DEF CanSync
<1>5. ASSUME TakenForGranted(d) PROVE CanInsert(d)
  <2>1. May(d, Insert) /\ May(d, Usage) /\ CanRead(d, "email")
    BY <1>1, <1>2, <1>5, ColumnNames DEF TakenForGranted
  <2>2. ASSUME NEW c \in Columns \ insertColumns, d.columns[c] = "required"
        PROVE  FALSE
    <3>1. c \in Shown(d)
      BY <2>1, <2>2, ColumnsOfTheRole DEF Exists
    <3> QED
      BY <1>1, <2>2, <3>1 DEF Unmet
  <2> QED
    BY <1>1, <1>5, <2>1, <2>2 DEF CanInsert
<1>6. CanInsert(d) => TakenForGranted(d)
  BY DEF CanInsert
<1> QED
  BY <1>3, <1>4, <1>5, <1>6

\* A database that runs every statement for a role that is no superuser, with
\* the documented id and password columns, is found nothing wrong with.
LEMMA FittingIsNoFalseAlarm ==
    ASSUME NEW d \in Database,
           CanStatus(d), CanSync(d), CanInsert([d EXCEPT !.named = TRUE]),
           ~d.superuser,
           d.columns["id"] \in Defaulted, d.columns["password"] \in Nullable
    PROVE  Fits(d)
<1> DEFINE e == [d EXCEPT !.named = TRUE]
<1>1. /\ e.columns = d.columns /\ e.grants = d.grants
      /\ e.superuser = d.superuser /\ e.up = d.up
  BY DEF Database
<1>2. \A g : May(e, g) <=> May(d, g)
  BY <1>1 DEF May
<1>3. /\ May(d, Insert) /\ May(d, Usage)
      /\ \A c \in Columns \ insertColumns : d.columns[c] # "required"
  BY <1>1, <1>2 DEF CanInsert
<1>4. SchemaFits(d)
  <2>1. d.up
    BY DEF CanStatus
  <2>2. Unmet(d) = {}
    BY <1>3 DEF Unmet, Shown
  <2>3. Exists(d, "id") /\ Exists(d, "password")
    BY DEF Exists, Defaulted, Nullable
  <2>4. {"id", "password"} \subseteq Shown(d)
    BY <1>3, <2>3, ColumnNames, ColumnsOfTheRole
  <2> QED
    BY <2>1, <2>2, <2>4 DEF SchemaFits
<1>5. GrantsFit(d)
  <2>1. d.up /\ \A c \in Read : Exists(d, c) /\ May(d, <<"select", c>>)
    BY DEF CanStatus, CanRead
  <2>2. \A g \in Selects : May(d, g)
    BY <2>1 DEF Selects
  <2>3. \A g \in Updates : May(d, g)
    BY DEF CanSync, Updates
  <2> QED
    BY <1>3, <2>1, <2>2, <2>3 DEF GrantsFit
<1> QED
  BY <1>4, <1>5 DEF Fits

\* A database that passes both queries of Check takes every read and update of
\* the provisioner, and its inserts exactly if what Check takes for granted is
\* so (the columns written, the index on email, the sequence by its name): for
\* any columns, grants and kind of role, not only near the documented ones.
THEOREM PassedCheckIsSound == Spec => []CheckIsSound
<1>1. HealthInv => CheckIsSound
  BY FittingIsSound DEF HealthInv, HealthTypeOK, CheckIsSound
<1> QED
  BY <1>1, SpecHealthInv, PTL

\* Check complains of no database that serves the provisioner as documented.
THEOREM CheckIsNoFalseAlarm == Spec => []NoFalseAlarm
<1>1. HealthInv => NoFalseAlarm
  BY FittingIsNoFalseAlarm DEF HealthInv, HealthTypeOK, NoFalseAlarm
<1> QED
  BY <1>1, SpecHealthInv, PTL
=============================================================================
