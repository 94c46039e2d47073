--------------------------- MODULE UserFileProofs ---------------------------
(***************************************************************************)
(* What the edits of the users file do to any file, of any length: they    *)
(* keep its shape, and they keep identities unique.                        *)
(***************************************************************************)
EXTENDS UserFile, SequenceTheorems, WellFoundedInduction, TLAPS

\* Every set of numbers that is not empty has a least one: what CHOOSE needs
\* in FirstPosition and Min, and what induction is done with.
LEMMA LeastExists ==
    ASSUME NEW S \in SUBSET Nat, S # {}
    PROVE  \E m \in S : \A k \in S : m <= k
<1> DEFINE Less == {ss \in Nat \X Nat : ss[1] < ss[2]}
<1>1. IsWellFoundedOn(Less, Nat)
  BY NatLessThanWellFounded DEF OpToRel
<1>2. PICK m \in S : \A k \in S : <<k, m>> \notin Less
  <2> HIDE DEF Less
  <2> QED BY <1>1, WFMin
<1>3. ASSUME NEW k \in S PROVE m <= k
  <2>1. k < m => <<k, m>> \in Less
    BY Zenon DEF Less
  <2> HIDE DEF Less
  <2> QED BY <1>2, <2>1
<1> QED
  BY <1>3

\* The first entry with a name exists when the name occurs, and is what
\* FirstPosition (findUser's loop) returns.
LEMMA FirstPositionExists ==
    ASSUME NEW c \in Seq(Entry), NEW n \in Names(c)
    PROVE  /\ FirstPosition(c, n) \in 1..Len(c)
           /\ c[FirstPosition(c, n)].name = n
<1>1. Positions(c, n) \in SUBSET Nat /\ Positions(c, n) # {}
  BY LenProperties DEF Positions, Names
<1>2. \E m \in Positions(c, n) : \A k \in Positions(c, n) : m <= k
  BY <1>1, LeastExists
<1>3. FirstPosition(c, n) \in Positions(c, n)
  BY <1>2 DEF FirstPosition
<1> QED
  BY <1>3, LenProperties DEF Positions

\* A stored entry is an entry: the address of a new user is put in lower case.
LEMMA AddedProperties ==
    ASSUME NEW c \in Seq(Entry), NEW u \in Entry
    PROVE  /\ Added(u, c) \in Seq(Entry)
           /\ Len(Added(u, c)) = Len(c) + 1
           /\ \A i \in 1..Len(c) : Added(u, c)[i] = c[i]
           /\ Added(u, c)[Len(c) + 1] = [u EXCEPT !.email = Lower[u.email]]
<1>1. [u EXCEPT !.email = Lower[u.email]] \in Entry
  BY LowerAssumption DEF Entry
<1> QED
  BY <1>1, AppendProperties DEF Added

\* SetGroups changes the groups of one entry, the first with the name.
LEMMA RegroupedProperties ==
    ASSUME NEW c \in Seq(Entry), NEW u \in Entry, u.name \in Names(c)
    PROVE  LET p == FirstPosition(c, u.name)
           IN  /\ Regrouped(u, c) \in Seq(Entry)
               /\ Len(Regrouped(u, c)) = Len(c)
               /\ \A i \in 1..Len(c) :
                     Regrouped(u, c)[i] =
                        IF i = p THEN [c[p] EXCEPT !.groups = u.groups] ELSE c[i]
<1> DEFINE p == FirstPosition(c, u.name)
           e == [c[p] EXCEPT !.groups = u.groups]
<1>1. p \in 1..Len(c)
  BY FirstPositionExists
<1>2. e \in Entry
  <2>1. \A old \in Entry, gs \in SUBSET Groups :
            [old EXCEPT !.groups = gs] \in Entry
    BY DEF Entry
  <2>2. c[p] \in Entry /\ u.groups \in SUBSET Groups
    BY <1>1, ElementOfSeq DEF Entry
  <2> QED
    BY <2>1, <2>2
<1>3. Regrouped(u, c) = [c EXCEPT ![p] = e]
  BY DEF Regrouped
<1> QED
  BY <1>1, <1>2, <1>3, ExceptSeq

\* Taking one entry out moves those after it up.
LEMMA RemoveAtProperties ==
    ASSUME NEW c \in Seq(Entry), NEW p \in 1..Len(c)
    PROVE  /\ RemoveAt(c, p) \in Seq(Entry)
           /\ Len(RemoveAt(c, p)) = Len(c) - 1
           /\ \A i \in 1..(Len(c) - 1) :
                 RemoveAt(c, p)[i] = IF i < p THEN c[i] ELSE c[i + 1]
<1> DEFINE front == SubSeq(c, 1, p - 1)
           back == SubSeq(c, p + 1, Len(c))
<1>1. p \in 1..Len(c) /\ Len(c) \in Nat
  BY LenProperties
<1>2. \A i \in 1..Len(c) : c[i] \in Entry
  BY ElementOfSeq
<1>3. /\ front \in Seq(Entry)
      /\ Len(front) = p - 1
      /\ \A i \in 1..(p - 1) : front[i] = c[i]
  <2>1. \A i \in 1..(p - 1) : c[i] \in Entry
    BY <1>1, <1>2
  <2> QED
    BY <1>1, <2>1, SubSeqProperties
<1>4. /\ back \in Seq(Entry)
      /\ Len(back) = Len(c) - p
      /\ \A i \in 1..(Len(c) - p) : back[i] = c[p + i]
  <2>1. \A i \in (p + 1)..Len(c) : c[i] \in Entry
    BY <1>1, <1>2
  <2>2. /\ SubSeq(c, p + 1, Len(c)) \in Seq(Entry)
        /\ Len(SubSeq(c, p + 1, Len(c))) =
              IF p + 1 <= Len(c) THEN Len(c) - (p + 1) + 1 ELSE 0
        /\ \A i \in 1..(Len(c) - (p + 1) + 1) :
              SubSeq(c, p + 1, Len(c))[i] = c[p + 1 + i - 1]
    BY <1>1, <2>1, SubSeqProperties
  <2> QED
    BY <1>1, <2>2
<1>5. RemoveAt(c, p) = front \o back
  BY DEF RemoveAt
<1> HIDE DEF front, back
<1>6. /\ front \o back \in Seq(Entry)
      /\ Len(front \o back) = Len(front) + Len(back)
      /\ \A i \in 1..(Len(front) + Len(back)) :
            (front \o back)[i] = IF i <= Len(front) THEN front[i]
                                                   ELSE back[i - Len(front)]
  BY <1>3, <1>4, ConcatProperties
<1>7. ASSUME NEW i \in 1..(Len(c) - 1)
      PROVE  RemoveAt(c, p)[i] = IF i < p THEN c[i] ELSE c[i + 1]
  <2>1. CASE i < p
    BY <1>1, <1>3, <1>4, <1>5, <1>6, <2>1
  <2>2. CASE i >= p
    <3>1. RemoveAt(c, p)[i] = back[i - (p - 1)]
      BY <1>1, <1>3, <1>4, <1>5, <1>6, <2>2
    <3>2. i - (p - 1) \in 1..(Len(c) - p) /\ p + (i - (p - 1)) = i + 1
      BY <1>1, <2>2
    <3> QED
      BY <1>1, <1>4, <2>2, <3>1, <3>2
  <2> QED
    BY <1>1, <2>1, <2>2
<1> QED
  BY <1>1, <1>3, <1>4, <1>5, <1>6, <1>7

\* Delete takes the first entry with the name out.
LEMMA RemovedProperties ==
    ASSUME NEW c \in Seq(Entry), NEW u \in Entry, u.name \in Names(c)
    PROVE  LET p == FirstPosition(c, u.name)
           IN  /\ Removed(u, c) \in Seq(Entry)
               /\ Len(Removed(u, c)) = Len(c) - 1
               /\ \A i \in 1..(Len(c) - 1) :
                     Removed(u, c)[i] = IF i < p THEN c[i] ELSE c[i + 1]
  BY FirstPositionExists, RemoveAtProperties DEF Removed

\* An edit of a readable file gives a readable file.
LEMMA EditedIsReadable ==
    ASSUME NEW c \in Seq(Entry), NEW r \in Request, Editable(r, c)
    PROVE  Edited(r, c) \in Seq(Entry)
<1>1. r.user \in Entry /\ r.kind \in {"add", "groups", "delete"}
  BY DEF Request
<1>2. CASE r.kind = "add"
  BY <1>1, <1>2, AddedProperties DEF Edited
<1>3. CASE r.kind = "groups"
  BY <1>1, <1>3, RegroupedProperties DEF Edited, Editable
<1>4. CASE r.kind = "delete"
  BY <1>1, <1>4, RemovedProperties DEF Edited, Editable
<1> QED
  BY <1>1, <1>2, <1>3, <1>4

\* No edit gives two entries one name or one address, case aside: the check
\* of Add covers the name and the address it stores, which is the lower-case
\* form of the one it compared.
LEMMA EditedKeepsIdentities ==
    ASSUME NEW c \in Seq(Entry), NEW r \in Request, Editable(r, c),
           UniqueIdentities(c)
    PROVE  UniqueIdentities(Edited(r, c))
<1>1. r.user \in Entry /\ r.kind \in {"add", "groups", "delete"}
  BY DEF Request
<1> DEFINE u == r.user
           d == Edited(r, c)
           Apart(a, b) == Fold[a.name] # Fold[b.name] /\ Fold[a.email] # Fold[b.email]
<1>2. \A i, j \in 1..Len(c) : i # j => Apart(c[i], c[j])
  BY LenProperties DEF UniqueIdentities
<1>3. Len(c) \in Nat
  BY LenProperties
<1>4. d \in Seq(Entry) /\ DOMAIN d = 1..Len(d)
  BY EditedIsReadable, LenProperties
<1>5. CASE r.kind = "add"
  <2> DEFINE new == [u EXCEPT !.email = Lower[u.email]]
  <2>1. /\ Len(d) = Len(c) + 1
        /\ \A i \in 1..Len(c) : d[i] = c[i]
        /\ d[Len(c) + 1] = new
    BY <1>1, <1>5, AddedProperties DEF Edited
  <2>2. Fold[new.name] = Fold[u.name] /\ Fold[new.email] = Fold[u.email]
    BY <1>1, FoldAssumption DEF Entry
  <2>3. \A i \in 1..Len(c) : Apart(c[i], new)
    BY <1>5, <2>2, LenProperties DEF Editable, Taken
  <2>4. ASSUME NEW i \in 1..Len(d), NEW j \in 1..Len(d), i # j
        PROVE  Apart(d[i], d[j])
    <3>1. CASE i \in 1..Len(c) /\ j \in 1..Len(c)
      BY <1>2, <2>1, <2>4, <3>1
    <3>2. CASE i = Len(c) + 1 /\ j \in 1..Len(c)
      BY <2>1, <2>3, <3>2
    <3>3. CASE j = Len(c) + 1 /\ i \in 1..Len(c)
      BY <2>1, <2>3, <3>3
    <3> QED
      BY <1>3, <2>1, <2>4, <3>1, <3>2, <3>3
  <2> QED
    BY <1>4, <2>4 DEF UniqueIdentities
<1>6. CASE r.kind = "groups"
  <2> DEFINE p == FirstPosition(c, u.name)
  <2>0. u.name \in Names(c)
    BY <1>6 DEF Editable
  <2>1. /\ Len(d) = Len(c)
        /\ \A i \in 1..Len(c) :
              d[i] = IF i = p THEN [c[p] EXCEPT !.groups = u.groups] ELSE c[i]
    BY <1>1, <1>6, <2>0, RegroupedProperties DEF Edited
  <2>2. c[p] \in Entry
    BY <2>0, FirstPositionExists, ElementOfSeq
  <2>3. \A i \in 1..Len(c) : d[i].name = c[i].name /\ d[i].email = c[i].email
    BY <2>1, <2>2 DEF Entry
  <2> QED
    BY <1>2, <1>4, <2>1, <2>3 DEF UniqueIdentities
<1>7. CASE r.kind = "delete"
  <2> DEFINE p == FirstPosition(c, u.name)
             q(i) == IF i < p THEN i ELSE i + 1
  <2>0. u.name \in Names(c)
    BY <1>7 DEF Editable
  <2>1. /\ Len(d) = Len(c) - 1
        /\ \A i \in 1..(Len(c) - 1) : d[i] = IF i < p THEN c[i] ELSE c[i + 1]
    BY <1>1, <1>7, <2>0, RemovedProperties DEF Edited
  <2>2. p \in 1..Len(c)
    BY <2>0, FirstPositionExists
  <2>3. \A i \in 1..Len(d) : q(i) \in 1..Len(c) /\ d[i] = c[q(i)]
    <3> HIDE DEF p, d
    <3> QED BY <1>3, <2>1, <2>2
  <2>4. \A i, j \in 1..Len(d) : i # j => q(i) # q(j)
    <3> HIDE DEF p, d
    <3> QED BY <1>3, <2>1, <2>2
  <2> QED
    BY <1>2, <1>4, <2>3, <2>4 DEF UniqueIdentities
<1> QED
  BY <1>1, <1>5, <1>6, <1>7

-----------------------------------------------------------------------------
\* What the check of the output sees.

\* A file in order has distinct keys.
LEMMA InOrderIsDistinct ==
    ASSUME NEW c, UniqueIdentities(c)
    PROVE  DistinctKeys(c)
  BY DEF UniqueIdentities, DistinctKeys

\* Where keys are distinct, nothing is lost when the entries are put into a
\* map.
LEMMA SnapshotOfDistinct ==
    ASSUME NEW c \in Seq(Entry), DistinctKeys(c), NEW i \in DOMAIN c
    PROVE  c[i].name \in DOMAIN Snapshot(c) /\ Snapshot(c)[c[i].name] = c[i]
<1> DEFINE n == c[i].name
<1>1. Positions(c, n) = {i}
  BY DEF Positions, DistinctKeys
<1>2. i <= i
  BY LenProperties
<1>3. LastPosition(c, n) = i
  BY <1>1, <1>2 DEF LastPosition
<1> QED
  BY <1>3 DEF Snapshot, Names

\* A snapshot has the names of its file.
LEMMA SnapshotDomain == \A c : DOMAIN Snapshot(c) = Names(c)
  BY DEF Snapshot

\* Two files with distinct keys of which the one has every entry of the other,
\* but for those of one user.
LEMMA SnapshotAgrees ==
    ASSUME NEW c \in Seq(Entry), NEW d \in Seq(Entry), NEW n,
           DistinctKeys(c), DistinctKeys(d),
           \A i \in DOMAIN c : c[i].name = n \/ \E j \in DOMAIN d : d[j] = c[i],
           \A j \in DOMAIN d : d[j].name = n \/ \E i \in DOMAIN c : d[j] = c[i]
    PROVE  UntouchedEqual(Snapshot(c), Snapshot(d), n)
<1>1. DOMAIN Snapshot(d) \ {n} = DOMAIN Snapshot(c) \ {n}
  <2>1. \A m : m \in Names(c) /\ m # n => m \in Names(d)
    BY DEF Names
  <2>2. \A m : m \in Names(d) /\ m # n => m \in Names(c)
    BY DEF Names
  <2> QED
    BY <2>1, <2>2, SnapshotDomain
<1>2. ASSUME NEW m \in DOMAIN Snapshot(c) \ {n}
      PROVE  Snapshot(d)[m] = Snapshot(c)[m]
  <2>0. m \in Names(c) /\ m # n
    BY SnapshotDomain
  <2>1. PICK i \in DOMAIN c : c[i].name = m
    BY <2>0 DEF Names
  <2>2. PICK j \in DOMAIN d : d[j] = c[i]
    BY <2>0, <2>1
  <2>3. Snapshot(c)[m] = c[i] /\ Snapshot(d)[m] = d[j]
    BY <2>1, <2>2, SnapshotOfDistinct
  <2> QED
    BY <2>2, <2>3
<1> QED
  BY <1>1, <1>2 DEF UntouchedEqual

\* What an edit does to the others, entry by entry, and to whom it is about.
\* The keys stay distinct.
LEMMA EditedEntries ==
    ASSUME NEW c \in Seq(Entry), NEW r \in Request, Editable(r, c), DistinctKeys(c)
    PROVE  LET d == Edited(r, c)
               n == r.user.name
           IN  /\ DistinctKeys(d)
               /\ \A i \in DOMAIN c : c[i].name = n \/ \E j \in DOMAIN d : d[j] = c[i]
               /\ \A j \in DOMAIN d : d[j].name = n \/ \E i \in DOMAIN c : d[j] = c[i]
               /\ CASE r.kind = "add"    -> \E j \in DOMAIN d :
                          d[j] = [r.user EXCEPT !.email = Lower[r.user.email]]
                    [] r.kind = "groups" -> \E j \in DOMAIN d, i \in DOMAIN c :
                          /\ c[i].name = n
                          /\ d[j] = [c[i] EXCEPT !.groups = r.user.groups]
                    [] r.kind = "delete" -> n \notin Names(d)
<1> DEFINE d == Edited(r, c)
           u == r.user
           n == r.user.name
<1>1. u \in Entry /\ r.kind \in {"add", "groups", "delete"}
  BY DEF Request
<1>2. DOMAIN c = 1..Len(c) /\ Len(c) \in Nat
  BY LenProperties
<1>3. d \in Seq(Entry) /\ DOMAIN d = 1..Len(d)
  BY EditedIsReadable, LenProperties
<1>4. CASE r.kind = "add"
  <2> DEFINE new == [u EXCEPT !.email = Lower[u.email]]
  <2>1. /\ Len(d) = Len(c) + 1
        /\ \A i \in 1..Len(c) : d[i] = c[i]
        /\ d[Len(c) + 1] = new
    BY <1>1, <1>4, AddedProperties DEF Edited
  <2>2. new.name = n
    BY <1>1 DEF Entry
  <2>3. \A i \in 1..Len(c) : c[i].name # n
    BY <1>2, <1>4 DEF Editable, Taken
  <2>4. \A j \in 1..Len(d) : j \in 1..Len(c) \/ j = Len(c) + 1
    BY <1>2, <2>1
  <2> HIDE DEF d, new, n
  <2>5. DistinctKeys(d)
    BY <1>2, <1>3, <2>1, <2>2, <2>3, <2>4 DEF DistinctKeys
  <2>6. \A i \in 1..Len(c) : i \in 1..Len(d)
    BY <1>2, <2>1
  <2>7. Len(c) + 1 \in 1..Len(d)
    BY <1>2, <2>1
  <2> QED
    BY <1>2, <1>3, <1>4, <2>1, <2>2, <2>4, <2>5, <2>6, <2>7 DEF d, n, new
<1>5. CASE r.kind = "groups"
  <2> DEFINE p == FirstPosition(c, n)
  <2>0. n \in Names(c)
    BY <1>5 DEF Editable
  <2>1. /\ Len(d) = Len(c)
        /\ \A i \in 1..Len(c) :
              d[i] = IF i = p THEN [c[p] EXCEPT !.groups = u.groups] ELSE c[i]
    BY <1>1, <1>5, <2>0, RegroupedProperties DEF Edited
  <2>2. p \in 1..Len(c) /\ c[p].name = n /\ c[p] \in Entry
    BY <2>0, FirstPositionExists, ElementOfSeq
  <2>3. [c[p] EXCEPT !.groups = u.groups].name = n
    BY <2>2 DEF Entry
  <2> HIDE DEF d, n, p, u
  <2>4. \A i \in 1..Len(c) : d[i].name = c[i].name
    BY <2>1, <2>2, <2>3
  <2>5. DistinctKeys(d)
    BY <1>2, <1>3, <2>1, <2>4 DEF DistinctKeys
  <2> QED
    BY <1>2, <1>3, <1>5, <2>1, <2>2, <2>3, <2>5 DEF d, n, u
<1>6. CASE r.kind = "delete"
  <2> DEFINE p == FirstPosition(c, n)
             q(j) == IF j < p THEN j ELSE j + 1
  <2>0. n \in Names(c)
    BY <1>6 DEF Editable
  <2>1. /\ Len(d) = Len(c) - 1
        /\ \A j \in 1..(Len(c) - 1) : d[j] = IF j < p THEN c[j] ELSE c[j + 1]
    BY <1>1, <1>6, <2>0, RemovedProperties DEF Edited
  <2>2. p \in 1..Len(c) /\ c[p].name = n
    BY <2>0, FirstPositionExists
  <2> HIDE DEF d, n, p
  <2>3. \A j \in 1..Len(d) : q(j) \in 1..Len(c) /\ q(j) # p /\ d[j] = c[q(j)]
    BY <1>2, <2>1, <2>2
  <2>4. \A i, j \in 1..Len(d) : q(i) = q(j) => i = j
    BY <1>2, <2>1, <2>2
  <2>5. \A i \in 1..Len(c) : i # p => \E j \in 1..Len(d) : q(j) = i
    <3>1. ASSUME NEW i \in 1..Len(c), i < p PROVE i \in 1..Len(d) /\ q(i) = i
      BY <1>2, <2>1, <2>2, <3>1
    <3>2. ASSUME NEW i \in 1..Len(c), i > p
          PROVE  i - 1 \in 1..Len(d) /\ q(i - 1) = i
      BY <1>2, <2>1, <2>2, <3>2
    <3> HIDE DEF q
    <3> QED
      BY <1>2, <2>2, <3>1, <3>2
  <2> HIDE DEF q
  <2>6. DistinctKeys(d)
    BY <1>2, <1>3, <2>3, <2>4 DEF DistinctKeys
  <2>7. n \notin Names(d)
    BY <1>2, <1>3, <2>2, <2>3 DEF DistinctKeys, Names
  <2> QED
    BY <1>2, <1>3, <1>6, <2>2, <2>3, <2>5, <2>6, <2>7 DEF d, n
<1> QED
  BY <1>1, <1>4, <1>5, <1>6

\* On a file with distinct keys every edit that can be made passes the check
\* of its output: verify stands in the way of no correct change.
LEMMA EditedIsAccepted ==
    ASSUME NEW c \in Seq(Entry), NEW r \in Request, Editable(r, c), DistinctKeys(c)
    PROVE  Verify(r, c, Edited(r, c))
<1> DEFINE d == Edited(r, c)
           u == r.user
           n == r.user.name
<1>1. u \in Entry /\ r.kind \in {"add", "groups", "delete"}
  BY DEF Request
<1>2. d \in Seq(Entry) /\ DistinctKeys(d)
  BY EditedIsReadable, EditedEntries
<1>3. UntouchedEqual(Snapshot(c), Snapshot(d), n)
  BY <1>2, EditedEntries, SnapshotAgrees
<1>4. CASE r.kind = "add"
  <2>1. PICK j \in DOMAIN d : d[j] = [u EXCEPT !.email = Lower[u.email]]
    BY <1>4, EditedEntries
  <2>2. d[j].name = n /\ d[j].email = Lower[u.email]
    BY <1>1, <2>1 DEF Entry
  <2>3. n \in DOMAIN Snapshot(d) /\ Snapshot(d)[n] = d[j]
    BY <1>2, <2>2, SnapshotOfDistinct
  <2>4. n \notin DOMAIN Snapshot(c)
    <3>1. \A i \in DOMAIN c : c[i].name # n
      BY <1>4 DEF Editable, Taken
    <3>2. n \notin Names(c)
      BY <3>1, Zenon DEF Names
    <3> QED
      BY <3>2, SnapshotDomain
  <2> QED
    BY <1>3, <1>4, <2>2, <2>3, <2>4 DEF Verify, VerifyAdd
<1>5. CASE r.kind = "groups"
  <2>1. PICK j \in DOMAIN d, i \in DOMAIN c :
           c[i].name = n /\ d[j] = [c[i] EXCEPT !.groups = u.groups]
    BY <1>5, EditedEntries
  <2>2. c[i] \in Entry
    BY ElementOfSeq, LenProperties
  <2>3. d[j].name = n /\ d[j].groups = u.groups
    BY <2>1, <2>2 DEF Entry
  <2>4. n \in DOMAIN Snapshot(d) /\ Snapshot(d)[n] = d[j]
    BY <1>2, <2>3, SnapshotOfDistinct
  <2>5. n \in DOMAIN Snapshot(c)
    BY <2>1, SnapshotOfDistinct
  <2>6. DOMAIN Snapshot(d) = DOMAIN Snapshot(c)
    BY <1>3, <2>4, <2>5 DEF UntouchedEqual
  <2> QED
    BY <1>3, <1>5, <2>3, <2>4, <2>6 DEF Verify, VerifyGroups
<1>6. CASE r.kind = "delete"
  <2>1. n \notin DOMAIN Snapshot(d)
    BY <1>6, EditedEntries, SnapshotDomain
  <2>2. n \in DOMAIN Snapshot(c)
    BY <1>6, SnapshotDomain DEF Editable
  <2> QED
    BY <1>3, <1>6, <2>1, <2>2 DEF Verify, VerifyDelete
<1> QED
  BY <1>1, <1>4, <1>5, <1>6
=============================================================================
