---------------------------- MODULE PortalProofs -----------------------------
(***************************************************************************)
(* Portal for any number of requests at once, any forms, users and roles.  *)
(* The invariant has three layers: what a handler knows at each of its     *)
(* steps, what the users file says of the person it works on, and what the *)
(* person's row in the app is.  The last two are about handlers that       *)
(* nobody met.                                                             *)
(***************************************************************************)
EXTENDS Portal, UserFileProofs

\* Tuples that only group variables: every step below sees through them.
USE DEF store, rows

\* The lines of a form: several only if it is an invite, and then in lower
\* case, no two the same.
LinesFit(q) ==
    /\ Len(q) > 1 => \A i \in DOMAIN q : q[i].kind = "add"
    /\ \A i \in DOMAIN q :
          q[i].kind = "add" => Lower[q[i].user.email] = q[i].user.email
    /\ \A i, j \in DOMAIN q : q[i].user.email = q[j].user.email => i = j

QueueInv == \A h \in Handlers : LinesFit(queue[h])

\* What a handler is doing, and whom it knows, at each step.
StepInvOf(h) ==
    /\ step[h] = "idle" <=> queue[h] = <<>>
    /\ step[h] \in {"invite", "provision", "insert", "welcome"} => Kind(h) = "add"
    /\ step[h] \in {"setgroups", "get", "sync"} => Kind(h) = "groups"
    /\ step[h] \in {"lookup", "delete", "deprovision"} => Kind(h) = "delete"
    /\ step[h] \in {"provision", "insert", "welcome", "sync", "delete", "deprovision"}
          => user[h] # NoUser
    /\ step[h] = "audit" /\ Kind(h) = "delete" => user[h] # NoUser
    /\ step[h] \in {"idle", "invite", "setgroups", "get", "lookup"}
          => user[h] = NoUser
    /\ user[h] # NoUser => user[h].name = Current(h).user.name
    /\ step[h] = "insert" => RoleFor(user[h].groups) # NoRole

StepInv == \A h \in Handlers : StepInvOf(h)

HandlerInv == PortalTypeOK /\ QueueInv /\ StepInv /\ NoUnauditedCommit

\* Somebody in the file has the user's address.
AddressIn(u) == \E i \in DOMAIN db : Fold[db[i].email] = Fold[u.email]

InFile(u) == \E i \in DOMAIN db : db[i] = u

\* The file says what the handler passes on, from the moment it knows the user;
\* after a removal nobody has the user's name or address.
Stored(h) ==
    IF step[h] = "deprovision" \/ (step[h] = "audit" /\ Kind(h) = "delete")
    THEN user[h].name \notin Names(db) /\ ~AddressIn(user[h])
    ELSE InFile(user[h])

StoredInv == \A h \in Handlers : alone[h] /\ user[h] # NoUser => Stored(h)

\* What the person's row is once the app was told, old sessions aside.
Settled(h) ==
    CASE Kind(h) = "add"    ->
            \/ RoleFor(user[h].groups) = NoRole
            \/ /\ RowOf(user[h]) # Absent
               /\ RowAgrees(user[h]) \/ Stray(user[h]) # "none"
      [] Kind(h) = "groups" -> RowAgrees(user[h]) \/ Stray(user[h]) # "none"
      [] Kind(h) = "delete" ->
            \/ RowOf(user[h]) = Absent
            \/ ~RowOf(user[h]).active
            \/ Stray(user[h]) = "made"

RowInv ==
    \A h \in Handlers :
        /\ step[h] \in {"welcome", "audit"}
        /\ alone[h] /\ ~warned[h] /\ user[h] # NoUser
        => Settled(h)

PortalInv == HandlerInv /\ UniqueIdentities(db) /\ StoredInv /\ RowInv

-----------------------------------------------------------------------------
\* The loop of parseInviteLines: there is a function that is what LET defines,
\* and all it returns has the shape wanted.
LEMMA ParseLoop ==
    ASSUME NEW lines \in Seq(Emails)
    PROVE  \E out : /\ out = [n \in 0..Len(lines) |->
                                 IF n = 0 THEN <<>>
                                 ELSE IF Contains(out[n - 1], Lower[lines[n]])
                                 THEN out[n - 1]
                                 ELSE Append(out[n - 1], Lower[lines[n]])]
                    /\ ParseInviteLines(lines) = out[Len(lines)]
<1> DEFINE Loop(out, k) ==
              out = [n \in 0..k |->
                        IF n = 0 THEN <<>>
                        ELSE IF Contains(out[n - 1], Lower[lines[n]]) THEN out[n - 1]
                        ELSE Append(out[n - 1], Lower[lines[n]])]
           Bad == {k \in Nat : ~\E out : Loop(out, k)}
<1>1. \E out : Loop(out, 0)
  <2>1. Loop([n \in 0..0 |-> <<>>], 0)
    OBVIOUS
  <2> HIDE DEF Loop
  <2> QED BY <2>1
<1>2. ASSUME NEW k \in Nat, NEW out, Loop(out, k) PROVE \E more : Loop(more, k + 1)
  <2> DEFINE next == IF Contains(out[k], Lower[lines[k + 1]]) THEN out[k]
                     ELSE Append(out[k], Lower[lines[k + 1]])
             more == [n \in 0..(k + 1) |-> IF n = k + 1 THEN next ELSE out[n]]
  <2>1. \A n \in 0..k : more[n] = out[n]
    <3> HIDE DEF next
    <3> QED OBVIOUS
  <2>2. more[k + 1] = next
    OBVIOUS
  <2>3. \A n \in 0..k : n # 0 => n - 1 \in 0..k /\ more[n - 1] = out[n - 1]
    <3> HIDE DEF more
    <3> QED BY <2>1
  <2>4. \A n \in 0..k :
           out[n] = IF n = 0 THEN <<>>
                    ELSE IF Contains(out[n - 1], Lower[lines[n]]) THEN out[n - 1]
                    ELSE Append(out[n - 1], Lower[lines[n]])
    BY <1>2
  <2> DEFINE LoopStep(n) == IF n = 0 THEN <<>>
                            ELSE IF Contains(more[n - 1], Lower[lines[n]]) THEN more[n - 1]
                            ELSE Append(more[n - 1], Lower[lines[n]])
  <2>5. \A n \in 0..k : more[n] = LoopStep(n)
    <3> HIDE DEF more
    <3> QED BY <2>1, <2>3, <2>4
  <2>6. more[k + 1] = LoopStep(k + 1)
    <3>1. more[k + 1 - 1] = out[k]
      BY <2>1
    <3> HIDE DEF more
    <3> QED BY <2>2, <3>1
  <2>7. \A n \in 0..(k + 1) : more[n] = LoopStep(n)
    <3> HIDE DEF more, LoopStep
    <3> QED BY <2>5, <2>6
  <2>8. more = [n \in 0..(k + 1) |-> LoopStep(n)]
    <3>1. more = [n \in 0..(k + 1) |-> more[n]]
      OBVIOUS
    <3> HIDE DEF more, LoopStep
    <3> QED BY <2>7, <3>1
  <2> QED
    BY <2>8
<1>3. Bad = {}
  <2> SUFFICES ASSUME Bad # {} PROVE FALSE
    OBVIOUS
  <2> HIDE DEF Loop
  <2>1. PICK k \in Bad : \A j \in Bad : k <= j
    BY LeastExists
  <2>2. k \in Nat /\ k # 0
    BY <1>1
  <2>3. k - 1 \in Nat /\ k - 1 \notin Bad /\ (k - 1) + 1 = k
    BY <2>1, <2>2
  <2>4. \E out : Loop(out, k - 1)
    BY <2>3
  <2> QED
    BY <1>2, <2>3, <2>4
<1>4. \E out : Loop(out, Len(lines))
  <2> HIDE DEF Loop
  <2> QED BY <1>3, LenProperties
<1> QED
  BY <1>4 DEF ParseInviteLines

\* What parseInviteLines returns: addresses in lower case, no two the same.
LEMMA ParseProperties ==
    ASSUME NEW lines \in Seq(Emails)
    PROVE  LET found == ParseInviteLines(lines)
           IN  /\ found \in Seq(Emails)
               /\ \A i \in DOMAIN found : Lower[found[i]] = found[i]
               /\ \A i, j \in DOMAIN found : found[i] = found[j] => i = j
<1> DEFINE Fine(s) == /\ s \in Seq(Emails)
                      /\ \A i \in DOMAIN s : Lower[s[i]] = s[i]
                      /\ \A i, j \in DOMAIN s : s[i] = s[j] => i = j
           len == Len(lines)
<1>1. PICK out : /\ out = [n \in 0..len |->
                              IF n = 0 THEN <<>>
                              ELSE IF Contains(out[n - 1], Lower[lines[n]])
                              THEN out[n - 1]
                              ELSE Append(out[n - 1], Lower[lines[n]])]
                 /\ ParseInviteLines(lines) = out[len]
  BY ParseLoop
<1>2. len \in Nat /\ \A n \in 1..len : lines[n] \in Emails
  BY LenProperties, ElementOfSeq
<1> HIDE DEF len
<1>3. /\ out[0] = <<>>
      /\ \A n \in 1..len : \/ out[n] = out[n - 1]
                           \/ /\ ~Contains(out[n - 1], Lower[lines[n]])
                              /\ out[n] = Append(out[n - 1], Lower[lines[n]])
  <2>1. \A n \in 0..len :
           out[n] = IF n = 0 THEN <<>>
                    ELSE IF Contains(out[n - 1], Lower[lines[n]]) THEN out[n - 1]
                    ELSE Append(out[n - 1], Lower[lines[n]])
    BY <1>1
  <2>2. 0 \in 0..len /\ \A n \in 1..len : n \in 0..len /\ n # 0
    BY <1>2
  <2> QED
    BY <2>1, <2>2
<1>4. Fine(<<>>)
  OBVIOUS
<1>5. ASSUME NEW s, Fine(s), NEW e \in Emails, ~Contains(s, Lower[e])
      PROVE  Fine(Append(s, Lower[e]))
  <2> DEFINE t == Append(s, Lower[e])
  <2>1. Lower[e] \in Emails /\ Lower[Lower[e]] = Lower[e]
    BY LowerAssumption
  <2>2. /\ t \in Seq(Emails) /\ Len(t) = Len(s) + 1
        /\ \A i \in 1..Len(s) : t[i] = s[i]
        /\ t[Len(s) + 1] = Lower[e]
    BY <1>5, <2>1, AppendProperties
  <2>3. Len(s) \in Nat /\ DOMAIN s = 1..Len(s) /\ DOMAIN t = 1..Len(t)
    BY <1>5, <2>2, LenProperties
  <2>4. \A i \in 1..Len(s) : s[i] # Lower[e]
    BY <1>5 DEF Contains
  <2> HIDE DEF t
  <2>5. \A i \in 1..Len(t) : i \in 1..Len(s) \/ i = Len(s) + 1
    BY <2>2, <2>3
  <2>6. \A i \in 1..Len(t) : Lower[t[i]] = t[i]
    BY <1>5, <2>1, <2>2, <2>3, <2>5
  <2>7. \A i, j \in 1..Len(t) : t[i] = t[j] => i = j
    BY <1>5, <2>2, <2>3, <2>4, <2>5
  <2> QED
    BY <2>2, <2>3, <2>6, <2>7 DEF t
<1> DEFINE Bad == {n \in 0..len : ~Fine(out[n])}
<1> HIDE DEF Fine
<1>6. Bad = {}
  <2> SUFFICES ASSUME Bad # {} PROVE FALSE
    OBVIOUS
  <2>1. PICK n \in Bad : \A m \in Bad : n <= m
    <3>1. Bad \in SUBSET Nat
      BY <1>2
    <3> HIDE DEF Bad
    <3> QED BY <3>1, LeastExists
  <2>2. n \in 1..len
    BY <1>2, <1>3, <1>4
  <2>3. n - 1 \in 0..len /\ ~(n <= n - 1)
    BY <1>2, <2>2
  <2>4. Fine(out[n - 1])
    BY <2>1, <2>3
  <2>5. Fine(out[n])
    BY <1>2, <1>3, <1>5, <2>2, <2>4
  <2> QED
    BY <2>5
<1>7. Fine(ParseInviteLines(lines))
  <2>1. len \in 0..len
    BY <1>2
  <2>2. Fine(out[len])
    BY <1>6, <2>1
  <2> QED
    BY <1>1, <2>2
<1> QED
  BY <1>7 DEF Fine

-----------------------------------------------------------------------------
\* The rows of the app.

\* Where there is a rule for a group of the user, there is a first one.
LEMMA RoleForTyped ==
    ASSUME NEW gs
    PROVE  RoleFor(gs) \in Roles \union {NoRole}
<1> DEFINE matching == {i \in DOMAIN Rules : Rules[i].group \in gs}
<1>1. matching \in SUBSET Nat
  BY RulesAssumption, LenProperties
<1>2. ASSUME matching # {} PROVE Rules[Min(matching)].role \in Roles
  <2>1. \E m \in matching : \A k \in matching : m <= k
    BY <1>1, <1>2, LeastExists
  <2>2. Min(matching) \in matching
    <3> HIDE DEF matching
    <3> QED BY <2>1 DEF Min
  <2> QED
    BY <2>2 DEF Roles
<1> QED
  BY <1>2 DEF RoleFor

\* A statement changes the row of its user alone, to a row.
OnlyRowOf(u, result) ==
    /\ result \in [Emails -> Row \union {Absent}]
    /\ \A e \in Emails : e # Lower[u.email] => result[e] = app[e]

\* The same of the marks of old sessions.
OnlyMarkOf(u, marks) ==
    /\ marks \in [Emails -> {"none", "made", "changed"}]
    /\ \A e \in Emails : e # Lower[u.email] => marks[e] = strays[e]

\* Writing a row changes that row and no other.
LEMMA WithRowOnly ==
    ASSUME AppTypeOK, NEW u \in Entry, NEW row \in Row
    PROVE  OnlyRowOf(u, WithRow(u, row)) /\ WithRow(u, row)[Lower[u.email]] = row
<1>1. Lower[u.email] \in Emails
  BY LowerAssumption DEF Entry
<1> QED
  BY <1>1 DEF AppTypeOK, OnlyRowOf, WithRow

\* A statement finds a row of the table, or none.
LEMMA RowTyped ==
    ASSUME AppTypeOK, NEW u \in Entry
    PROVE  RowOf(u) \in Row \union {Absent}
<1>1. Lower[u.email] \in Emails
  BY LowerAssumption DEF Entry
<1> QED
  BY <1>1 DEF AppTypeOK, RowOf

\* A statement that changes nothing changes one row at most.
LEMMA UnchangedOnly ==
    ASSUME AppTypeOK, NEW u \in Entry PROVE OnlyRowOf(u, app)
  BY DEF AppTypeOK, OnlyRowOf

\* The row Sync writes for a user with a role.
LEMMA FullRow ==
    ASSUME NEW gs, RoleFor(gs) # NoRole
    PROVE  [role |-> RoleFor(gs), active |-> TRUE] \in Row
  BY RoleForTyped DEF Row

\* What each statement leaves: the row alone changes, and it is what the
\* handler wants to see there.
LEMMA InsertedRow ==
    ASSUME AppTypeOK, NEW u \in Entry, RowOf(u) = Absent, RoleFor(u.groups) # NoRole
    PROVE  /\ OnlyRowOf(u, Inserted(u))
           /\ Inserted(u)[Lower[u.email]] = [role |-> RoleFor(u.groups), active |-> TRUE]
  BY FullRow, WithRowOnly DEF Inserted

\* Deprovision leaves no active row at the address, and no other row changed.
LEMMA DeactivatedRow ==
    ASSUME AppTypeOK, NEW u \in Entry
    PROVE  /\ OnlyRowOf(u, Deactivated(u))
           /\ Deactivated(u)[Lower[u.email]] # Absent
                 => ~Deactivated(u)[Lower[u.email]].active
<1>1. CASE RowOf(u) = Absent
  BY <1>1, UnchangedOnly DEF Deactivated, RowOf
<1>2. CASE RowOf(u) # Absent
  <2> DEFINE row == [RowOf(u) EXCEPT !.active = FALSE]
  <2>1. row \in Row /\ ~row.active
    BY <1>2, RowTyped DEF Row
  <2> HIDE DEF row
  <2>2. Deactivated(u) = WithRow(u, row)
    BY <1>2 DEF Deactivated, row
  <2> QED
    BY <2>1, <2>2, WithRowOnly
<1> QED
  BY <1>1, <1>2

\* Sync leaves the row at the address with the role of the user's groups, or
\* inactive when they give none; it adds no row.
LEMMA SyncedRow ==
    ASSUME AppTypeOK, NEW u \in Entry
    PROVE  /\ OnlyRowOf(u, Synced(u))
           /\ Synced(u)[Lower[u.email]] # Absent =>
                 IF RoleFor(u.groups) = NoRole
                 THEN ~Synced(u)[Lower[u.email]].active
                 ELSE Synced(u)[Lower[u.email]] =
                         [role |-> RoleFor(u.groups), active |-> TRUE]
<1>1. CASE RoleFor(u.groups) = NoRole
  BY <1>1, DeactivatedRow DEF Synced
<1>2. CASE RoleFor(u.groups) # NoRole /\ RowOf(u) = Absent
  BY <1>2, UnchangedOnly DEF Synced, RowOf
<1>3. CASE RoleFor(u.groups) # NoRole /\ RowOf(u) # Absent
  BY <1>3, FullRow, WithRowOnly DEF Synced
<1> QED
  BY <1>1, <1>2, <1>3

\* Two users whose addresses are not one, case aside, have rows of their own.
LEMMA RowsApart ==
    ASSUME NEW u \in Entry, NEW v \in Entry, Fold[u.email] # Fold[v.email]
    PROVE  Lower[u.email] # Lower[v.email]
  BY FoldAssumption DEF Entry

-----------------------------------------------------------------------------
\* What a handler knows.

\* The lines of a form.
InviteQueue(lines, gs) ==
    [i \in DOMAIN ParseInviteLines(lines) |->
        AddRequest(InviteUser(ParseInviteLines(lines)[i], gs))]

\* The form of an invite becomes requests to add users, no two with one
\* address, each address as lower case leaves it.
LEMMA InviteQueueTyped ==
    ASSUME NEW lines \in Forms, NEW gs \in GroupForms
    PROVE  LET q == InviteQueue(lines, gs)
           IN  /\ q \in Seq(Request) /\ LinesFit(q)
               /\ \A i \in DOMAIN q : q[i].kind = "add"
<1> DEFINE found == ParseInviteLines(lines)
           q == InviteQueue(lines, gs)
<1>1. /\ found \in Seq(Emails)
      /\ \A i \in DOMAIN found : Lower[found[i]] = found[i]
      /\ \A i, j \in DOMAIN found : found[i] = found[j] => i = j
  BY PortalAssumption, ParseProperties
<1>2. DOMAIN found = 1..Len(found) /\ Len(found) \in Nat
      /\ \A i \in DOMAIN found : found[i] \in Emails
  BY <1>1, LenProperties, ElementOfSeq
<1> HIDE DEF found
<1>3. DOMAIN q = DOMAIN found
      /\ \A i \in DOMAIN found : q[i] = AddRequest(InviteUser(found[i], gs))
  BY DEF InviteQueue, found
<1>4. \A e \in Emails : AddRequest(InviteUser(e, gs)) \in Request
  BY PortalAssumption DEF AddRequest, InviteUser, Request, Entry
<1>5. q \in Seq(Request)
  <2>1. q = [i \in 1..Len(found) |-> AddRequest(InviteUser(found[i], gs))]
    BY <1>2 DEF InviteQueue, found
  <2>2. \A i \in 1..Len(found) : AddRequest(InviteUser(found[i], gs)) \in Request
    BY <1>2, <1>4
  <2> HIDE DEF q
  <2> QED
    BY <1>2, <2>1, <2>2, IsASeq
<1>6. \A i \in DOMAIN found : q[i].kind = "add" /\ q[i].user.email = found[i]
  BY <1>3 DEF AddRequest, InviteUser
<1> HIDE DEF q
<1> QED
  BY <1>1, <1>3, <1>5, <1>6 DEF q, LinesFit

\* The form of a user's page.
LEMMA AboutTyped ==
    ASSUME NEW n \in Usernames, NEW gs \in SUBSET Groups,
           NEW kind \in {"groups", "delete"}
    PROVE  /\ About(kind, n, gs) \in Request
           /\ About(kind, n, gs).kind = kind
           /\ About(kind, n, gs).user.name = n
<1> DEFINE e == CHOOSE e \in Emails : TRUE
<1>1. e \in Emails
  BY PortalAssumption
<1> HIDE DEF e
<1>2. [InviteUser(e, gs) EXCEPT !.name = n] \in Entry
      /\ [InviteUser(e, gs) EXCEPT !.name = n].name = n
  BY <1>1, PortalAssumption DEF InviteUser, Entry
<1> QED
  BY <1>2 DEF About, Request, e

\* The entry that is read back is the user's.
LEMMA EntryOfTyped ==
    ASSUME db \in Seq(Entry), NEW n \in Names(db)
    PROVE  EntryOf(n) \in Entry /\ EntryOf(n).name = n /\ InFile(EntryOf(n))
<1>1. FirstPosition(db, n) \in 1..Len(db) /\ db[FirstPosition(db, n)].name = n
  BY FirstPositionExists
<1>2. DOMAIN db = 1..Len(db) /\ db[FirstPosition(db, n)] \in Entry
  BY <1>1, LenProperties, ElementOfSeq
<1> QED
  BY <1>1, <1>2 DEF EntryOf, InFile

\* A handler that is at work has a request in hand.
LEMMA CurrentTyped ==
    ASSUME HandlerInv, NEW h \in Handlers, step[h] # "idle"
    PROVE  /\ queue[h] \in Seq(Request) /\ queue[h] # <<>>
           /\ Current(h) \in Request
           /\ Current(h) = queue[h][1] /\ 1 \in DOMAIN queue[h]
<1>1. queue[h] \in Seq(Request) /\ queue[h] # <<>>
  BY DEF HandlerInv, PortalTypeOK, StepInv, StepInvOf
<1> QED
  BY <1>1, HeadTailProperties, LenProperties, EmptySeq, ElementOfSeq DEF Current

\* The end of a line: the next one is an invite too, or there is none.
LEMMA NextLineKeeps ==
    ASSUME HandlerInv, NEW h \in Handlers, step[h] # "idle", NextLine(h)
    PROVE  /\ step' \in [Handlers -> Steps]
           /\ queue' \in [Handlers -> Seq(Request)]
           /\ user' \in [Handlers -> Entry \union {NoUser}]
           /\ mailing' \in [Handlers -> BOOLEAN]
           /\ warned' \in [Handlers -> BOOLEAN]
           /\ mailed' \in [Handlers -> BOOLEAN]
           /\ QueueInv' /\ StepInv'
<1> DEFINE q == queue[h]
<1>1. /\ q \in Seq(Request) /\ Tail(q) \in Seq(Request)
      /\ Len(q) \in Nat /\ Len(q) >= 1 /\ DOMAIN q = 1..Len(q)
      /\ Len(Tail(q)) = Len(q) - 1 /\ DOMAIN Tail(q) = 1..(Len(q) - 1)
      /\ \A i \in 1..(Len(q) - 1) : Tail(q)[i] = q[i + 1]
      /\ Tail(q) = <<>> <=> Len(q) = 1
  <2>1. q \in Seq(Request) /\ q # <<>>
    BY CurrentTyped
  <2> HIDE DEF q
  <2>2. /\ Tail(q) \in Seq(Request) /\ Len(Tail(q)) = Len(q) - 1
        /\ \A i \in 1..Len(Tail(q)) : Tail(q)[i] = q[i + 1]
    BY <2>1, HeadTailProperties
  <2>3. Len(q) \in Nat /\ DOMAIN q = 1..Len(q) /\ Len(q) # 0
        /\ DOMAIN Tail(q) = 1..Len(Tail(q))
        /\ Tail(q) = <<>> <=> Len(Tail(q)) = 0
    BY <2>1, <2>2, LenProperties, EmptySeq
  <2> QED
    BY <2>1, <2>2, <2>3
<1>2. /\ queue' = [queue EXCEPT ![h] = Tail(q)]
      /\ user' = [user EXCEPT ![h] = NoUser]
      /\ step' = [step EXCEPT ![h] = IF Len(q) > 1 THEN "invite" ELSE "idle"]
  BY DEF NextLine, Goto, HandlerInv, PortalTypeOK
<1>3. /\ step' \in [Handlers -> Steps]
      /\ queue' \in [Handlers -> Seq(Request)]
      /\ user' \in [Handlers -> Entry \union {NoUser}]
  BY <1>1, <1>2 DEF HandlerInv, PortalTypeOK, Steps
<1>4. /\ mailing' \in [Handlers -> BOOLEAN]
      /\ warned' \in [Handlers -> BOOLEAN]
      /\ mailed' \in [Handlers -> BOOLEAN]
  BY DEF NextLine, HandlerInv, PortalTypeOK
<1>5. LinesFit(q)
  BY DEF HandlerInv, QueueInv
<1>6. queue'[h] = Tail(q) /\ step'[h] = (IF Len(q) > 1 THEN "invite" ELSE "idle")
      /\ user'[h] = NoUser
  BY <1>2 DEF HandlerInv, PortalTypeOK
<1>7. \A k \in Handlers \ {h} : UNCHANGED <<queue[k], step[k], user[k]>>
  BY <1>2 DEF HandlerInv, PortalTypeOK
<1> HIDE DEF q
<1>8. LinesFit(Tail(q))
  <2>1. \A i \in 1..(Len(q) - 1) : i + 1 \in 1..Len(q)
    BY <1>1
  <2>2. ASSUME NEW i \in 1..(Len(q) - 1), NEW j \in 1..(Len(q) - 1), i + 1 = j + 1
        PROVE  i = j
    BY <1>1, <2>2
  <2>3. Len(Tail(q)) > 1 => Len(q) > 1
    BY <1>1
  <2> QED
    BY <1>1, <1>5, <2>1, <2>2, <2>3 DEF LinesFit
<1>9. QueueInv'
  BY <1>6, <1>7, <1>8 DEF HandlerInv, QueueInv
<1>10. Len(q) > 1 => Tail(q) # <<>> /\ Head(Tail(q)).kind = "add"
  <2> SUFFICES ASSUME Len(q) > 1
               PROVE  Tail(q) # <<>> /\ Head(Tail(q)).kind = "add"
    OBVIOUS
  <2>1. Tail(q) # <<>>
    BY <1>1
  <2>2. Head(Tail(q)) = Tail(q)[1] /\ 1 \in DOMAIN Tail(q) /\ 1 + 1 \in DOMAIN q
        /\ Tail(q)[1] = q[1 + 1]
    BY <1>1, <2>1, HeadTailProperties
  <2> QED
    BY <1>5, <2>1, <2>2 DEF LinesFit
<1>11. Len(q) <= 1 => Tail(q) = <<>>
  BY <1>1
<1>12. StepInv'
  <2> SUFFICES ASSUME NEW k \in Handlers
               PROVE  StepInvOf(k)'
    BY DEF StepInv
  <2>1. CASE k = h
    <3>1. CASE Len(q) > 1
      <4>1. step'[h] = "invite" /\ queue'[h] # <<>> /\ Kind(h)' = "add"
        BY <1>6, <1>10, <3>1 DEF Kind, Current
      <4> QED
        BY <1>6, <2>1, <4>1 DEF StepInvOf
    <3>2. CASE Len(q) <= 1
      BY <1>1, <1>6, <1>11, <2>1, <3>2 DEF StepInvOf
    <3> QED
      BY <1>1, <3>1, <3>2
  <2>2. CASE k # h
    BY <1>7, <2>2 DEF HandlerInv, StepInv, StepInvOf, Kind, Current
  <2> QED
    BY <2>1, <2>2
<1> QED
  BY <1>3, <1>4, <1>9, <1>12

-----------------------------------------------------------------------------
\* What a step of one handler leaves to the others.

StepOf(h) == \/ Begin(h) \/ InviteStep(h) \/ AccessStep(h) \/ RemoveStep(h)
             \/ FailRequest(h) \/ Audit(h)

\* A handler changes the users file by a commit of its request only, and the
\* app, and what old sessions did there, by a statement about its user only.
Touches(h) ==
    /\ \A k \in Handlers \ {h} : UNCHANGED <<queue[k], step[k], user[k], warned[k], owed[k]>>
    /\ db' = db \/ (StoreCommits(h) /\ step[h] # "idle" /\ queue' = queue)
    /\ rows' = rows \/ ( /\ user[h] \in Entry /\ user' = user
                         /\ step[h] # "idle" /\ queue' = queue
                         /\ OnlyRowOf(user[h], app')
                         /\ OnlyMarkOf(user[h], strays'))

\* A step of a handler changes no variable of another, the file by a commit of
\* its request only, and no row but that of its user.
LEMMA StepTouches ==
    ASSUME HandlerInv, NEW h \in Handlers, StepOf(h)
    PROVE  TellWhoIsAlone /\ Touches(h)
<1> USE DEF HandlerInv, PortalTypeOK
<1>1. CASE Begin(h)
  BY <1>1 DEF Begin, PostInvite, PostGroups, PostDelete, Touches, Goto, line
<1>2. CASE FailLine(h) \/ FailRequest(h) \/ Audit(h)
  <2>1. NextLine(h) /\ TellWhoIsAlone /\ UNCHANGED <<store, rows>>
    BY <1>2 DEF FailLine, FailRequest, Audit
  <2>2. \A k \in Handlers \ {h} : UNCHANGED owed[k]
    BY <1>2 DEF FailLine, FailRequest, Audit
  <2> QED
    BY <2>1, <2>2 DEF Touches, NextLine, Goto
<1>3. CASE InviteLine(h) \/ SetGroups(h) \/ Delete(h)
  BY <1>3 DEF InviteLine, SetGroups, Delete, StoreCommits, At, Touches, Goto, form, line
<1>4. CASE Provision(h) \/ Welcome(h) \/ Get(h) \/ GetFails(h) \/ Lookup(h)
  <2>1. /\ TellWhoIsAlone /\ UNCHANGED <<store, rows, queue>>
        /\ \A k \in Handlers \ {h} : UNCHANGED <<step[k], user[k], owed[k]>>
    BY <1>4 DEF Provision, Welcome, Get, GetFails, Lookup, Goto, form, line
  <2>2. \A k \in Handlers \ {h} : UNCHANGED warned[k]
    BY <1>4 DEF Provision, Welcome, Get, GetFails, Lookup, line
  <2> QED
    BY <2>1, <2>2 DEF Touches
<1>5. CASE Insert(h) \/ Sync(h) \/ Deprovision(h)
  <2>1. /\ TellWhoIsAlone /\ UNCHANGED <<db, queue, user>>
        /\ step[h] \in {"insert", "sync", "deprovision"}
        /\ \A k \in Handlers \ {h} : UNCHANGED <<step[k], warned[k], owed[k]>>
    BY <1>5 DEF Insert, Sync, Deprovision, Run, Goto, At, form
  <2>2. user[h] \in Entry
    BY <2>1 DEF StepInv, StepInvOf
  <2>3. app' = app \/ OnlyRowOf(user[h], app')
    <3>1. ASSUME NEW result, Run(h, result) PROVE app' = result \/ app' = app
      BY <3>1 DEF Run, Statement
    <3>2. CASE Insert(h)
      <4>1. \/ app' = app
            \/ RowOf(user[h]) = Absent /\ Run(h, Inserted(user[h]))
        BY <3>2 DEF Insert
      <4>2. RoleFor(user[h].groups) # NoRole
        BY <3>2 DEF Insert, At, StepInv, StepInvOf
      <4> QED
        BY <2>2, <3>1, <4>1, <4>2, InsertedRow
    <3>3. CASE Sync(h)
      <4>1. Run(h, Synced(user[h]))
        BY <3>3 DEF Sync
      <4> QED
        BY <2>2, <3>1, <4>1, SyncedRow
    <3>4. CASE Deprovision(h)
      <4>1. Run(h, Deactivated(user[h]))
        BY <3>4 DEF Deprovision
      <4> QED
        BY <2>2, <3>1, <4>1, DeactivatedRow
    <3> QED
      BY <1>5, <3>2, <3>3, <3>4
  <2>4. \/ rows' = rows
        \/ strays' = [strays EXCEPT ![Lower[user[h].email]] = "none"]
    BY <1>5 DEF Insert, Sync, Deprovision, Run
  <2>5. CASE rows' = rows
    BY <2>1, <2>5 DEF Touches
  <2>6. CASE strays' = [strays EXCEPT ![Lower[user[h].email]] = "none"]
    <3>1. OnlyMarkOf(user[h], strays')
      BY <2>2, <2>6, LowerAssumption DEF OnlyMarkOf
    <3>2. OnlyRowOf(user[h], app')
      BY <2>2, <2>3, UnchangedOnly DEF OnlyRowOf
    <3> QED
      BY <2>1, <2>2, <3>1, <3>2 DEF Touches
  <2> QED
    BY <2>4, <2>5, <2>6
<1> QED
  BY <1>1, <1>2, <1>3, <1>4, <1>5 DEF StepOf, InviteStep, AccessStep, RemoveStep

-----------------------------------------------------------------------------
\* The first layer.

\* Whether a handler is alone stays a Boolean.
LEMMA AloneTyped ==
    ASSUME TellWhoIsAlone
    PROVE  alone' \in [Handlers -> BOOLEAN]
<1> DEFINE told(h) == (alone[h] \/ queue'[h] # queue[h]) /\ Undisturbed(h)'
<1>1. \A h \in Handlers : told(h) \in BOOLEAN
  OBVIOUS
<1>2. alone' = [h \in Handlers |-> told(h)]
  BY DEF TellWhoIsAlone
<1> HIDE DEF told
<1> QED
  BY <1>1, <1>2

\* The people who may have a session have a role.
LEMMA AppUsersTyped ==
    ASSUME NEW c \in Seq(Entry)
    PROVE  AppUsers(c) \in SUBSET {u \in Entry : RoleFor(u.groups) # NoRole}
<1>1. Range(c) \subseteq Entry
  BY LenProperties, ElementOfSeq DEF Range
<1> QED
  BY <1>1 DEF AppUsers

\* A commit edits the file as the handler's request says.
LEMMA CommitTyped ==
    ASSUME HandlerInv, NEW h \in Handlers, step[h] # "idle", StoreCommits(h)
    PROVE  /\ db \in Seq(Entry) /\ Current(h) \in Request
           /\ Editable(Current(h), db) /\ Verify(Current(h), db, Edited(Current(h), db))
           /\ db' = Edited(Current(h), db) /\ db' \in Seq(Entry)
           /\ sessions' \in SUBSET {u \in Entry : RoleFor(u.groups) # NoRole}
<1>1. db \in Seq(Entry) /\ Current(h) \in Request
  BY CurrentTyped DEF HandlerInv, PortalTypeOK
<1>2. Accepted(Current(h), db) /\ db' = Edited(Current(h), db)
  BY DEF StoreCommits
<1>3. db' \in Seq(Entry)
  BY <1>1, <1>2, EditedIsReadable DEF Accepted
<1>4. sessions' \in SUBSET {u \in Entry : RoleFor(u.groups) # NoRole}
  BY <1>3, AppUsersTyped DEF StoreCommits, HandlerInv, PortalTypeOK
<1> QED
  BY <1>1, <1>2, <1>3, <1>4 DEF Accepted

\* The invariant holds at the start.
LEMMA PortalInitInv == Init => PortalInv
<1> SUFFICES ASSUME Init PROVE PortalInv
  OBVIOUS
<1>1. PortalTypeOK
  BY PortalAssumption, AppUsersTyped DEF Init, PortalTypeOK, AppTypeOK, Steps
<1>2. QueueInv
  BY DEF Init, QueueInv, LinesFit
<1>3. StepInv /\ NoUnauditedCommit
  BY DEF Init, StepInv, StepInvOf, NoUnauditedCommit
<1>4. UniqueIdentities(db)
  BY PortalAssumption DEF Init
<1>5. StoredInv /\ RowInv
  BY DEF Init, StoredInv, RowInv
<1> QED
  BY <1>1, <1>2, <1>3, <1>4, <1>5 DEF PortalInv, HandlerInv

\* A handler that begins gets the lines of its form.
LEMMA BeginKeeps ==
    ASSUME HandlerInv, NEW h \in Handlers, At(h, "idle"),
           NEW q \in Seq(Request), q # <<>>, LinesFit(q),
           NEW s \in {"invite", "setgroups", "lookup"},
           Head(q).kind = CASE s = "invite"    -> "add"
                            [] s = "setgroups" -> "groups"
                            [] s = "lookup"    -> "delete",
           queue' = [queue EXCEPT ![h] = q], Goto(h, s),
           mailing' \in [Handlers -> BOOLEAN],
           UNCHANGED <<store, rows, line, owed>>, TellWhoIsAlone
    PROVE  HandlerInv'
<1>1. PortalTypeOK'
  BY AloneTyped DEF HandlerInv, PortalTypeOK, AppTypeOK, Goto, Steps, line
<1>2. QueueInv'
  BY DEF HandlerInv, PortalTypeOK, QueueInv
<1>3. StepInv'
  <2> SUFFICES ASSUME NEW k \in Handlers PROVE StepInvOf(k)'
    BY DEF StepInv
  <2>1. CASE k = h
    <3>1. step'[k] = s /\ queue'[k] = q /\ user'[k] = NoUser
      BY <2>1 DEF HandlerInv, PortalTypeOK, Goto, line, At, StepInv, StepInvOf
    <3>2. Kind(k)' = Head(q).kind
      BY <3>1 DEF Kind, Current
    <3> QED
      BY <3>1, <3>2 DEF StepInvOf
  <2>2. CASE k # h
    BY <2>2 DEF HandlerInv, PortalTypeOK, Goto, line, StepInv, StepInvOf, Kind, Current
  <2> QED
    BY <2>1, <2>2
<1>4. NoUnauditedCommit'
  BY DEF HandlerInv, PortalTypeOK, Goto, At, NoUnauditedCommit, Underway
<1> QED
  BY <1>1, <1>2, <1>3, <1>4 DEF HandlerInv

\* The step that takes a form keeps the invariant.
LEMMA BeginInv ==
    ASSUME HandlerInv, NEW h \in Handlers, Begin(h)
    PROVE  HandlerInv'
<1>1. CASE PostInvite(h)
  <2>1. PICK lines \in Forms, gs \in GroupForms :
           /\ ParseInviteLines(lines) # <<>>
           /\ queue' = [queue EXCEPT ![h] = InviteQueue(lines, gs)]
    BY <1>1 DEF PostInvite, InviteQueue
  <2> DEFINE q == InviteQueue(lines, gs)
  <2>2. q \in Seq(Request) /\ LinesFit(q) /\ \A i \in DOMAIN q : q[i].kind = "add"
    BY InviteQueueTyped
  <2>3. q # <<>>
    <3> DEFINE found == ParseInviteLines(lines)
    <3>1. found \in Seq(Emails) /\ found # <<>>
      BY <2>1, PortalAssumption, ParseProperties
    <3>2. DOMAIN q = DOMAIN found
      BY DEF InviteQueue
    <3> HIDE DEF found, q
    <3>3. Len(found) \in Nat /\ Len(found) # 0 /\ DOMAIN found = 1..Len(found)
      BY <3>1, LenProperties, EmptySeq
    <3> QED
      BY <3>2, <3>3
  <2> HIDE DEF q
  <2>4. Head(q).kind = "add"
    <3>1. Len(q) \in Nat /\ DOMAIN q = 1..Len(q) /\ Len(q) # 0
      BY <2>2, <2>3, LenProperties, EmptySeq
    <3>2. Head(q) = q[1] /\ 1 \in DOMAIN q
      BY <2>2, <2>3, <3>1, HeadTailProperties
    <3> QED
      BY <2>2, <3>2
  <2>5. mailing' \in [Handlers -> BOOLEAN]
    BY <1>1 DEF PostInvite, HandlerInv, PortalTypeOK
  <2> QED
    BY <1>1, <2>1, <2>2, <2>3, <2>4, <2>5, BeginKeeps DEF PostInvite, q
<1>2. ASSUME NEW n \in Usernames, NEW gs \in SUBSET Groups,
             NEW kind \in {"groups", "delete"}
      PROVE  LET q == <<About(kind, n, gs)>>
             IN  /\ q \in Seq(Request) /\ q # <<>> /\ LinesFit(q)
                 /\ Head(q).kind = kind
  <2>1. About(kind, n, gs) \in Request /\ About(kind, n, gs).kind = kind
    BY <1>2, AboutTyped
  <2> DEFINE r == About(kind, n, gs)
  <2> HIDE DEF r
  <2>2. /\ <<r>> # <<>> /\ Len(<<r>>) = 1 /\ DOMAIN <<r>> = {1} /\ <<r>>[1] = r
        /\ Head(<<r>>) = r
    OBVIOUS
  <2>3. LinesFit(<<r>>)
    BY <2>1, <2>2 DEF LinesFit, r
  <2> QED
    BY <2>1, <2>2, <2>3 DEF r
<1>3. CASE PostGroups(h)
  <2>1. PICK n \in Usernames, gs \in GroupForms :
           queue' = [queue EXCEPT ![h] = <<About("groups", n, gs)>>]
    BY <1>3 DEF PostGroups
  <2>2. gs \in SUBSET Groups
    BY PortalAssumption
  <2> QED
    BY <1>2, <1>3, <2>1, <2>2, BeginKeeps DEF PostGroups, HandlerInv, PortalTypeOK
<1>4. CASE PostDelete(h)
  <2>1. PICK n \in Usernames :
           queue' = [queue EXCEPT ![h] = <<About("delete", n, {})>>]
    BY <1>4 DEF PostDelete
  <2> QED
    BY <1>2, <1>4, <2>1, BeginKeeps DEF PostDelete, HandlerInv, PortalTypeOK
<1> QED
  BY <1>1, <1>3, <1>4 DEF Begin

\* A handler that ends a line with nothing owed to the audit log.
LEMMA EndLineInv ==
    ASSUME HandlerInv, NEW h \in Handlers,
           FailLine(h) \/ FailRequest(h) \/ Audit(h)
    PROVE  HandlerInv'
<1>1. /\ NextLine(h) /\ TellWhoIsAlone /\ UNCHANGED <<store, rows>>
      /\ step[h] # "idle"
      /\ owed' = owed \/ owed' = [owed EXCEPT ![h] = FALSE]
      /\ step[h] # "audit" => owed' = owed
      /\ step[h] \in {"invite", "setgroups", "lookup", "delete", "audit"}
  BY DEF FailLine, FailRequest, Audit, At
<1>2. PortalTypeOK'
  BY <1>1, NextLineKeeps, AloneTyped DEF HandlerInv, PortalTypeOK, AppTypeOK
<1>3. NoUnauditedCommit'
  <2> SUFFICES ASSUME NEW k \in Handlers, owed'[k]
               PROVE  k # h /\ step'[k] = step[k] /\ owed[k]
    BY DEF HandlerInv, NoUnauditedCommit, Underway, At
  <2>1. owed \in [Handlers -> BOOLEAN] /\ step \in [Handlers -> Steps]
    BY DEF HandlerInv, PortalTypeOK
  <2>2. owed[k]
    BY <1>1, <2>1
  <2>3. k # h
    BY <1>1, <2>1, <2>2
    DEF FailLine, FailRequest, Audit, HandlerInv, NoUnauditedCommit, Underway, At
  <2> QED
    BY <1>1, <2>1, <2>2, <2>3 DEF NextLine, Goto
<1> QED
  BY <1>1, <1>2, <1>3, NextLineKeeps DEF HandlerInv

\* The steps between the first and the last of a line keep the form.
Inside(h) == \/ InviteLine(h) \/ Provision(h) \/ Insert(h) \/ Welcome(h)
             \/ SetGroups(h) \/ Get(h) \/ GetFails(h) \/ Sync(h)
             \/ Lookup(h) \/ Delete(h) \/ Deprovision(h)

\* A step within a line keeps the types, and the queue.
LEMMA InsideTyped ==
    ASSUME HandlerInv, NEW h \in Handlers, Inside(h)
    PROVE  PortalTypeOK' /\ queue' = queue
<1> USE DEF HandlerInv, PortalTypeOK, Goto, form, line
<1>1. alone' \in [Handlers -> BOOLEAN] /\ queue' = queue /\ mailing' = mailing
  BY AloneTyped
  DEF Inside, InviteLine, Provision, Insert, Welcome, SetGroups, Get, GetFails, Sync,
      Lookup, Delete, Deprovision
<1>2. step[h] # "idle" /\ step' \in [Handlers -> Steps]
  BY DEF Inside, InviteLine, Provision, Insert, Welcome, SetGroups, Get, GetFails, Sync,
         Lookup, Delete, Deprovision, At, Steps
<1>3. CASE InviteLine(h) \/ SetGroups(h) \/ Delete(h)
  <2>1. StoreCommits(h) /\ UNCHANGED <<rows, warned, mailed>>
    BY <1>3 DEF InviteLine, SetGroups, Delete
  <2>2. /\ db' \in Seq(Entry) /\ Current(h) \in Request
        /\ sessions' \in SUBSET {u \in Entry : RoleFor(u.groups) # NoRole}
    BY <1>2, <2>1, CommitTyped
  <2>3. user' = user \/ user' = [user EXCEPT ![h] = Current(h).user]
    BY <1>3 DEF InviteLine, SetGroups, Delete
  <2>4. user' \in [Handlers -> Entry \union {NoUser}]
    BY <2>2, <2>3 DEF Request
  <2>5. owed' \in [Handlers -> BOOLEAN]
    BY <2>1 DEF StoreCommits
  <2> QED
    BY <1>1, <1>2, <2>1, <2>2, <2>4, <2>5 DEF AppTypeOK
<1>4. CASE Get(h) \/ Lookup(h)
  <2>1. /\ Current(h).user.name \in Names(db)
        /\ user' = [user EXCEPT ![h] = EntryOf(Current(h).user.name)]
        /\ UNCHANGED <<store, rows, warned, mailed, owed>>
    BY <1>4 DEF Get, Lookup
  <2>2. EntryOf(Current(h).user.name) \in Entry
    BY <2>1, EntryOfTyped
  <2> QED
    BY <1>1, <1>2, <2>1, <2>2 DEF AppTypeOK
<1>5. CASE Provision(h) \/ Welcome(h) \/ GetFails(h)
  <2>1. UNCHANGED <<store, rows, user, owed>>
    BY <1>5 DEF Provision, Welcome, GetFails
  <2>2. Sent \in BOOLEAN
    BY DEF Sent
  <2>3. warned' \in [Handlers -> BOOLEAN] /\ mailed' \in [Handlers -> BOOLEAN]
    BY <1>5, <2>2 DEF Provision, Welcome, GetFails
  <2> QED
    BY <1>1, <1>2, <2>1, <2>3 DEF AppTypeOK
<1>6. CASE Insert(h) \/ Sync(h) \/ Deprovision(h)
  <2>1. UNCHANGED <<store, user, mailed, owed>>
    BY <1>6 DEF Insert, Sync, Deprovision
  <2>2. rows' = rows \/ (OnlyRowOf(user[h], app') /\ OnlyMarkOf(user[h], strays'))
    BY <1>6, StepTouches DEF StepOf, InviteStep, AccessStep, RemoveStep, Touches
  <2>3. AppTypeOK' /\ strays' \in [Emails -> {"none", "made", "changed"}]
    BY <2>2 DEF AppTypeOK, OnlyRowOf, OnlyMarkOf
  <2>4. warned' \in [Handlers -> BOOLEAN]
    BY <1>6 DEF Insert, Sync, Deprovision, Run
  <2> QED
    BY <1>1, <1>2, <2>1, <2>3, <2>4
<1> QED
  BY <1>3, <1>4, <1>5, <1>6 DEF Inside

\* After a step within a line the handler still holds what its step needs, and
\* a commit that is owed a line of the audit log is still on its way there.
LEMMA InsideKnows ==
    ASSUME HandlerInv, NEW h \in Handlers, Inside(h)
    PROVE  StepInvOf(h)' /\ (owed'[h] => Underway(h)' \/ At(h, "get")')
<1> USE DEF HandlerInv, PortalTypeOK, Goto, form, line, At, Underway
<1>1. queue' = queue /\ StepInvOf(h) /\ (owed[h] => Underway(h) \/ At(h, "get"))
  BY InsideTyped DEF StepInv, NoUnauditedCommit
<1>2. UNCHANGED Current(h) /\ UNCHANGED Kind(h)
  BY <1>1 DEF Kind, Current
<1>3. CASE InviteLine(h)
  <2>1. /\ user'[h] = Current(h).user /\ step'[h] = "provision" /\ step[h] = "invite"
    BY <1>3 DEF InviteLine
  <2>2. Current(h).user \in Entry
    BY <2>1, CurrentTyped DEF Request
  <2> QED
    BY <1>1, <1>2, <2>1, <2>2, PortalAssumption DEF StepInvOf
<1>4. CASE SetGroups(h) \/ Delete(h)
  <2>1. /\ user' = user
        /\ \/ step[h] = "setgroups" /\ step'[h] = "get"
           \/ step[h] = "delete" /\ step'[h] = "deprovision"
    BY <1>4 DEF SetGroups, Delete
  <2> QED
    BY <1>1, <1>2, <2>1 DEF StepInvOf
<1>5. CASE Get(h) \/ Lookup(h)
  <2>1. /\ Current(h).user.name \in Names(db)
        /\ user'[h] = EntryOf(Current(h).user.name)
        /\ owed' = owed
        /\ \/ step[h] = "get" /\ step'[h] = "sync"
           \/ step[h] = "lookup" /\ step'[h] = "delete"
    BY <1>5 DEF Get, Lookup
  <2>2. user'[h] # NoUser /\ user'[h].name = Current(h).user.name
    BY <2>1, EntryOfTyped, PortalAssumption
  <2> QED
    BY <1>1, <1>2, <2>1, <2>2 DEF StepInvOf
<1>6. CASE Provision(h)
  <2>1. /\ user' = user /\ owed' = owed /\ step[h] = "provision"
        /\ \/ step'[h] = "welcome"
           \/ step'[h] = "insert" /\ RoleFor(user[h].groups) # NoRole
    BY <1>6 DEF Provision
  <2> QED
    BY <1>1, <1>2, <2>1 DEF StepInvOf
<1>7. CASE Insert(h) \/ Welcome(h) \/ GetFails(h) \/ Sync(h) \/ Deprovision(h)
  <2>1. /\ user' = user /\ owed' = owed
        /\ \/ step[h] = "insert" /\ step'[h] = "welcome"
           \/ step[h] \in {"welcome", "get", "sync", "deprovision"} /\ step'[h] = "audit"
    BY <1>7 DEF Insert, Welcome, GetFails, Sync, Deprovision
  <2> QED
    BY <1>1, <1>2, <2>1 DEF StepInvOf
<1> QED
  BY <1>3, <1>4, <1>5, <1>6, <1>7 DEF Inside

\* A sign-in gives the person's row the role of the groups, and says of no
\* other row whether an old session wrote it.
LEMMA LoginWrites ==
    ASSUME HandlerInv, NEW u \in sessions, Login(u)
    PROVE  LET e == Lower[u.email]
           IN  /\ u \in Entry /\ e \in Emails
               /\ OnlyRowOf(u, app') /\ OnlyMarkOf(u, strays')
               /\ app'[e] = [role |-> RoleFor(u.groups), active |-> TRUE]
               /\ app'[e] # Absent /\ RoleFor(u.groups) # NoRole
               /\ strays'[e] = IF u \in Range(db) THEN "none"
                               ELSE IF RowOf(u) = Absent \/ strays[e] = "made"
                               THEN "made" ELSE "changed"
<1> DEFINE mark == IF u \in Range(db) THEN "none"
                   ELSE IF RowOf(u) = Absent \/ strays[Lower[u.email]] = "made"
                   THEN "made" ELSE "changed"
<1>1. u \in Entry /\ RoleFor(u.groups) # NoRole
  BY DEF HandlerInv, PortalTypeOK
<1>2. Lower[u.email] \in Emails
  BY <1>1, LowerAssumption DEF Entry
<1>3. /\ OnlyRowOf(u, app')
      /\ app'[Lower[u.email]] = [role |-> RoleFor(u.groups), active |-> TRUE]
      /\ app'[Lower[u.email]] # Absent
  BY <1>1, FullRow, WithRowOnly, RulesAssumption DEF Login, HandlerInv, PortalTypeOK
<1>4. strays' = [strays EXCEPT ![Lower[u.email]] = mark]
  BY DEF Login
<1>5. mark \in {"none", "made", "changed"}
  OBVIOUS
<1>6. OnlyMarkOf(u, strays') /\ strays'[Lower[u.email]] = mark
  <2> HIDE DEF mark
  <2> QED
    BY <1>2, <1>4, <1>5 DEF OnlyMarkOf, HandlerInv, PortalTypeOK
<1> QED
  BY <1>1, <1>2, <1>3, <1>6

\* Every step keeps what one handler knows of itself.
LEMMA HandlerStep ==
    ASSUME HandlerInv, [Next]_vars
    PROVE  HandlerInv'
<1>1. ASSUME NEW h \in Handlers, Inside(h) PROVE HandlerInv'
  <2>1. PortalTypeOK' /\ queue' = queue
    BY <1>1, InsideTyped
  <2>2. QueueInv'
    BY <2>1 DEF HandlerInv, QueueInv
  <2>3. \A k \in Handlers \ {h} : UNCHANGED <<queue[k], step[k], user[k], owed[k]>>
    BY <1>1, StepTouches
    DEF Inside, StepOf, InviteStep, AccessStep, RemoveStep, Touches
  <2>4. StepInv'
    <3>1. ASSUME NEW k \in Handlers \ {h} PROVE StepInvOf(k)'
      BY <2>3 DEF HandlerInv, StepInv, StepInvOf, Kind, Current
    <3> QED
      BY <1>1, <3>1, InsideKnows DEF StepInv
  <2>5. NoUnauditedCommit'
    BY <1>1, <2>3, InsideKnows DEF HandlerInv, NoUnauditedCommit, Underway, At
  <2> QED
    BY <2>1, <2>2, <2>4, <2>5 DEF HandlerInv
<1>2. ASSUME NEW u \in sessions, Login(u) PROVE HandlerInv'
  <2>1. AppTypeOK' /\ strays' \in [Emails -> {"none", "made", "changed"}]
    BY <1>2, LoginWrites DEF AppTypeOK, OnlyRowOf, OnlyMarkOf
  <2>2. UNCHANGED <<store, step, queue, mailing, user, warned, mailed, owed>>
        /\ alone' \in [Handlers -> BOOLEAN]
    BY <1>2, AloneTyped DEF Login, hvars, form, line
  <2> QED
    BY <2>1, <2>2
    DEF HandlerInv, PortalTypeOK, QueueInv, StepInv, StepInvOf, Kind, Current,
        NoUnauditedCommit, Underway, At
<1>3. CASE Crash
  <2>1. alone' \in [Handlers -> BOOLEAN]
    BY <1>3, AloneTyped DEF Crash
  <2>2. PortalTypeOK'
    BY <1>3, <2>1 DEF Crash, HandlerInv, PortalTypeOK, AppTypeOK, Steps
  <2>3. QueueInv'
    BY <1>3 DEF Crash, QueueInv, LinesFit
  <2>4. StepInv' /\ NoUnauditedCommit'
    BY <1>3 DEF Crash, StepInv, StepInvOf, NoUnauditedCommit
  <2> QED
    BY <2>2, <2>3, <2>4 DEF HandlerInv
<1>4. CASE UNCHANGED vars
  BY <1>4
  DEF vars, hvars, form, line, HandlerInv, PortalTypeOK, AppTypeOK, QueueInv, StepInv,
      StepInvOf, Kind, Current, NoUnauditedCommit, Underway, At
<1> QED
  BY <1>1, <1>2, <1>3, <1>4, BeginInv, EndLineInv
  DEF Next, InviteStep, AccessStep, RemoveStep, Inside

-----------------------------------------------------------------------------
\* Who is alone.

\* Who is alone after a step was alone before it, unless it has just begun a
\* line; and nobody else is about the name or the address of its user.
LEMMA AloneBefore ==
    ASSUME HandlerInv, TellWhoIsAlone, NEW k \in Handlers, alone'[k],
           queue'[k] = queue[k]
    PROVE  alone[k]
  BY DEF TellWhoIsAlone, HandlerInv, PortalTypeOK

\* A handler that is alone shares neither name nor address with another's line.
LEMMA MeetsNobody ==
    ASSUME HandlerInv', TellWhoIsAlone, NEW h \in Handlers, NEW k \in Handlers,
           h # k, alone'[k], user'[k] # NoUser, queue'[h] # <<>>
    PROVE  /\ user'[k].name # Current(h)'.user.name
           /\ Current(h)'.kind = "add"
                 => Fold[Current(h)'.user.email] # Fold[user'[k].email]
           /\ user'[h] # NoUser => Fold[user'[h].email] # Fold[user'[k].email]
<1>1. Undisturbed(k)'
  BY DEF TellWhoIsAlone
<1>2. Concerns(k)' \intersect Concerns(h)' = {}
  BY <1>1 DEF Undisturbed
<1>3. user'[k].name = Current(k)'.user.name /\ queue'[k] # <<>>
  BY DEF HandlerInv, StepInv, StepInvOf
<1>4. {Fold[user'[k].name], Fold[user'[k].email]} \subseteq Concerns(k)'
  BY <1>3 DEF Concerns
<1>5. Fold[Current(h)'.user.name] \in Concerns(h)'
  BY DEF Concerns
<1>6. Current(h)'.kind = "add" => Fold[Current(h)'.user.email] \in Concerns(h)'
  BY DEF Concerns
<1>7. user'[h] # NoUser => Fold[user'[h].email] \in Concerns(h)'
  BY DEF Concerns
<1> QED
  BY <1>2, <1>4, <1>5, <1>6, <1>7

\* A commit about somebody else leaves a user in the file, or out of it.
LEMMA CommitOfOthers ==
    ASSUME NEW c \in Seq(Entry), UniqueIdentities(c), NEW r \in Request,
           Editable(r, c), NEW u \in Entry, u.name # r.user.name,
           r.kind = "add" => Fold[r.user.email] # Fold[u.email]
    PROVE  LET d == Edited(r, c)
           IN  /\ (\E i \in DOMAIN c : c[i] = u) => \E j \in DOMAIN d : d[j] = u
               /\ (/\ u.name \notin Names(c)
                   /\ ~\E i \in DOMAIN c : Fold[c[i].email] = Fold[u.email])
                  => /\ u.name \notin Names(d)
                     /\ ~\E j \in DOMAIN d : Fold[d[j].email] = Fold[u.email]
<1> DEFINE d == Edited(r, c)
           n == r.user.name
<1>1. /\ DistinctKeys(d)
      /\ \A i \in DOMAIN c : c[i].name = n \/ \E j \in DOMAIN d : d[j] = c[i]
      /\ \A j \in DOMAIN d : d[j].name = n \/ \E i \in DOMAIN c : d[j] = c[i]
      /\ CASE r.kind = "add"    -> \E j \in DOMAIN d :
                 d[j] = [r.user EXCEPT !.email = Lower[r.user.email]]
           [] r.kind = "groups" -> \E j \in DOMAIN d, i \in DOMAIN c :
                 /\ c[i].name = n
                 /\ d[j] = [c[i] EXCEPT !.groups = r.user.groups]
           [] r.kind = "delete" -> n \notin Names(d)
  BY InOrderIsDistinct, EditedEntries
<1>2. \A i \in DOMAIN c : c[i] \in Entry
  BY LenProperties, ElementOfSeq
<1>3. r.kind \in {"add", "groups", "delete"} /\ r.user \in Entry
  BY DEF Request
<1> HIDE DEF d
<1>4. ASSUME NEW j \in DOMAIN d, d[j].name = n
      PROVE  \/ r.kind = "add" /\ Fold[d[j].email] = Fold[r.user.email]
             \/ \E i \in DOMAIN c : d[j].email = c[i].email
  <2>1. CASE r.kind = "add"
    <3>1. PICK m \in DOMAIN d : d[m] = [r.user EXCEPT !.email = Lower[r.user.email]]
      BY <1>1, <2>1
    <3>2. d[m].name = n /\ d[m].email = Lower[r.user.email] /\ r.user.email \in Emails
      BY <1>3, <3>1 DEF Entry
    <3>3. m = j
      BY <1>1, <1>4, <3>2 DEF DistinctKeys
    <3> QED
      BY <2>1, <3>2, <3>3, FoldAssumption
  <2>2. CASE r.kind = "groups"
    <3>1. PICK m \in DOMAIN d, i \in DOMAIN c :
             /\ c[i].name = n
             /\ d[m] = [c[i] EXCEPT !.groups = r.user.groups]
      BY <1>1, <2>2
    <3>2. d[m].name = n /\ d[m].email = c[i].email
      BY <1>2, <3>1 DEF Entry
    <3>3. m = j
      BY <1>1, <1>4, <3>2 DEF DistinctKeys
    <3> QED
      BY <3>2, <3>3
  <2>3. CASE r.kind = "delete"
    BY <1>1, <1>4, <2>3 DEF Names
  <2> QED
    BY <1>3, <2>1, <2>2, <2>3
<1>5. ASSUME NEW i \in DOMAIN c, c[i] = u PROVE \E j \in DOMAIN d : d[j] = u
  BY <1>1, <1>5
<1>6. ASSUME u.name \notin Names(c), NEW j \in DOMAIN d PROVE d[j].name # u.name
  BY <1>1, <1>6 DEF Names
<1>7. ASSUME ~\E i \in DOMAIN c : Fold[c[i].email] = Fold[u.email],
             NEW j \in DOMAIN d
      PROVE  Fold[d[j].email] # Fold[u.email]
  <2>1. CASE d[j].name = n
    BY <1>4, <1>7, <2>1
  <2>2. CASE d[j].name # n
    BY <1>1, <1>7, <2>2
  <2> QED
    BY <2>1, <2>2
<1> QED
  BY <1>5, <1>6, <1>7 DEF Names, d

\* A commit stores the user of an invite, and takes the user of a removal out:
\* the name, and with it the address.
LEMMA CommitOfOwn ==
    ASSUME NEW c \in Seq(Entry), UniqueIdentities(c), NEW r \in Request,
           Editable(r, c)
    PROVE  LET d == Edited(r, c)
           IN  /\ r.kind = "add" /\ Lower[r.user.email] = r.user.email
                  => \E j \in DOMAIN d : d[j] = r.user
               /\ r.kind = "delete"
                  => /\ r.user.name \notin Names(d)
                     /\ \A m \in DOMAIN c :
                           c[m].name = r.user.name
                           => ~\E j \in DOMAIN d : Fold[d[j].email] = Fold[c[m].email]
<1> DEFINE d == Edited(r, c)
           n == r.user.name
<1>1. /\ \A j \in DOMAIN d : d[j].name = n \/ \E i \in DOMAIN c : d[j] = c[i]
      /\ CASE r.kind = "add"    -> \E j \in DOMAIN d :
                 d[j] = [r.user EXCEPT !.email = Lower[r.user.email]]
           [] r.kind = "groups" -> \E j \in DOMAIN d, i \in DOMAIN c :
                 /\ c[i].name = n
                 /\ d[j] = [c[i] EXCEPT !.groups = r.user.groups]
           [] r.kind = "delete" -> n \notin Names(d)
  BY InOrderIsDistinct, EditedEntries
<1> HIDE DEF d
<1>2. ASSUME r.kind = "add", Lower[r.user.email] = r.user.email
      PROVE  \E j \in DOMAIN d : d[j] = r.user
  <2>1. [r.user EXCEPT !.email = Lower[r.user.email]] = r.user
    BY <1>2 DEF Request, Entry
  <2> QED
    BY <1>1, <1>2, <2>1
<1>3. ASSUME r.kind = "delete" PROVE n \notin Names(d)
  BY <1>1, <1>3
<1>4. ASSUME r.kind = "delete", NEW m \in DOMAIN c, c[m].name = n, NEW j \in DOMAIN d
      PROVE  Fold[d[j].email] # Fold[c[m].email]
  <2>1. d[j].name # n
    BY <1>3, <1>4 DEF Names
  <2>2. PICK i \in DOMAIN c : d[j] = c[i]
    BY <1>1, <2>1
  <2> QED
    BY <1>4, <2>1, <2>2 DEF UniqueIdentities
<1> QED
  BY <1>2, <1>3, <1>4 DEF d

-----------------------------------------------------------------------------
\* The second layer: what the file says.

\* The step of another handler leaves what is stored for one that is alone.
LEMMA OthersStored ==
    ASSUME PortalInv, HandlerInv', NEW h \in Handlers, NEW k \in Handlers, h # k,
           TellWhoIsAlone, Touches(h), alone'[k], user'[k] # NoUser
    PROVE  Stored(k)'
<1>1. UNCHANGED <<queue[k], step[k], user[k]>>
  BY DEF Touches
<1>2. alone[k] /\ Stored(k)
  BY <1>1, AloneBefore DEF PortalInv, StoredInv
<1>3. UNCHANGED Kind(k)
  BY <1>1 DEF Kind, Current
<1>4. CASE db' = db
  BY <1>1, <1>2, <1>3, <1>4 DEF Stored, InFile, AddressIn, Names
<1>5. CASE StoreCommits(h) /\ step[h] # "idle" /\ queue' = queue
  <2>1. /\ db \in Seq(Entry) /\ Current(h) \in Request /\ Editable(Current(h), db)
        /\ db' = Edited(Current(h), db) /\ queue[h] # <<>>
    BY <1>5, CommitTyped, CurrentTyped DEF PortalInv
  <2>2. user[k] \in Entry
    BY <1>1 DEF PortalInv, HandlerInv, PortalTypeOK
  <2>3. /\ user[k].name # Current(h).user.name
        /\ Current(h).kind = "add" => Fold[Current(h).user.email] # Fold[user[k].email]
    BY <1>1, <1>5, <2>1, MeetsNobody DEF Current
  <2>4. /\ InFile(user[k]) => InFile(user[k])'
        /\ user[k].name \notin Names(db) /\ ~AddressIn(user[k])
              => user[k].name \notin Names(db') /\ ~AddressIn(user[k])'
    BY <1>1, <2>1, <2>2, <2>3, CommitOfOthers DEF PortalInv, InFile, AddressIn
  <2> QED
    BY <1>1, <1>2, <1>3, <2>4 DEF Stored, InFile, AddressIn
<1> QED
  BY <1>4, <1>5 DEF Touches

\* The handler's own commit stores what it will pass on.
LEMMA OwnCommit ==
    ASSUME PortalInv, HandlerInv', NEW h \in Handlers,
           InviteLine(h) \/ SetGroups(h) \/ Delete(h), alone'[h], user'[h] # NoUser
    PROVE  Stored(h)'
<1> DEFINE r == Current(h)
           u == r.user
<1>1. /\ StoreCommits(h) /\ step[h] # "idle" /\ queue' = queue /\ TellWhoIsAlone
  BY DEF InviteLine, SetGroups, Delete, At, form
<1>2. /\ db \in Seq(Entry) /\ r \in Request /\ Editable(r, db) /\ db' = Edited(r, db)
      /\ UniqueIdentities(db) /\ DistinctKeys(db) /\ alone[h] /\ u \in Entry
  BY <1>1, CommitTyped, AloneBefore, InOrderIsDistinct DEF PortalInv, Request
<1>3. CASE InviteLine(h)
  <2>1. r.kind = "add" /\ Lower[u.email] = u.email
    <3>1. r.kind = "add"
      BY <1>3 DEF InviteLine, At, PortalInv, HandlerInv, StepInv, StepInvOf, Kind
    <3>2. r = queue[h][1] /\ 1 \in DOMAIN queue[h] /\ LinesFit(queue[h])
      BY <1>1, CurrentTyped DEF PortalInv, HandlerInv, QueueInv
    <3> QED
      BY <3>1, <3>2 DEF LinesFit
  <2>2. \E j \in DOMAIN db' : db'[j] = u
    BY <1>2, <2>1, CommitOfOwn
  <2>3. user'[h] = u /\ step'[h] = "provision"
    BY <1>3 DEF InviteLine, Goto, PortalInv, HandlerInv, PortalTypeOK
  <2> QED
    BY <2>2, <2>3 DEF Stored, InFile
<1>4. CASE SetGroups(h)
  <2>1. step'[h] = "get"
    BY <1>4 DEF SetGroups, Goto, PortalInv, HandlerInv, PortalTypeOK
  <2> QED
    BY <2>1 DEF HandlerInv, StepInv, StepInvOf
<1>5. CASE Delete(h)
  <2>1. /\ step[h] = "delete" /\ step'[h] = "deprovision" /\ user' = user
        /\ user[h] # NoUser /\ r.kind = "delete"
    BY <1>5 DEF Delete, At, Goto, line, PortalInv, HandlerInv, PortalTypeOK, StepInv, StepInvOf, Kind
  <2>2. InFile(user[h]) /\ user[h].name = u.name
    BY <1>2, <2>1
    DEF PortalInv, StoredInv, Stored, HandlerInv, StepInv, StepInvOf
  <2>3. PICK m \in DOMAIN db : db[m] = user[h]
    BY <2>2 DEF InFile
  <2>4. /\ u.name \notin Names(db')
        /\ ~\E j \in DOMAIN db' : Fold[db'[j].email] = Fold[db[m].email]
    BY <1>2, <2>1, <2>2, <2>3, CommitOfOwn
  <2> QED
    BY <2>1, <2>2, <2>3, <2>4 DEF Stored, AddressIn
<1> QED
  BY <1>3, <1>4, <1>5

\* Any other step of the handler's own leaves the file alone.
LEMMA OwnStored ==
    ASSUME PortalInv, HandlerInv', NEW h \in Handlers, StepOf(h), TellWhoIsAlone,
           alone'[h], user'[h] # NoUser
    PROVE  Stored(h)'
<1> USE DEF PortalInv, HandlerInv, PortalTypeOK
<1>1. CASE Begin(h)
  <2>1. step'[h] \in {"invite", "setgroups", "lookup"}
    BY <1>1 DEF Begin, PostInvite, PostGroups, PostDelete, Goto
  <2> QED
    BY <2>1 DEF StepInv, StepInvOf
<1>2. CASE FailLine(h) \/ FailRequest(h) \/ Audit(h)
  <2>1. user'[h] = NoUser
    BY <1>2 DEF FailLine, FailRequest, Audit, NextLine
  <2> QED
    BY <2>1
<1>3. CASE InviteLine(h) \/ SetGroups(h) \/ Delete(h)
  BY <1>3, OwnCommit
<1>4. CASE Get(h) \/ Lookup(h)
  <2>1. /\ Current(h).user.name \in Names(db) /\ UNCHANGED db
        /\ user'[h] = EntryOf(Current(h).user.name)
        /\ step'[h] \in {"sync", "delete"}
    BY <1>4 DEF Get, Lookup, Goto
  <2>2. InFile(user'[h])
    BY <2>1, EntryOfTyped
  <2> QED
    BY <2>1, <2>2 DEF Stored, InFile
<1>5. CASE \/ GetFails(h) \/ Provision(h) \/ Insert(h) \/ Welcome(h)
           \/ Sync(h) \/ Deprovision(h)
  <2>1. /\ UNCHANGED <<db, queue, user>> /\ UNCHANGED Kind(h)
        /\ step[h] \in {"get", "provision", "insert", "welcome", "sync", "deprovision"}
        /\ step'[h] \in {"insert", "welcome", "audit"}
        /\ step[h] = "deprovision" <=> (step'[h] = "audit" /\ Kind(h) = "delete")
    BY <1>5
    DEF GetFails, Provision, Insert, Welcome, Sync, Deprovision, Run, form, line, Goto,
        At, Kind, Current, StepInv, StepInvOf
  <2>2. Stored(h)
    BY <2>1, AloneBefore DEF StoredInv
  <2> QED
    BY <2>1, <2>2 DEF Stored, InFile, AddressIn
<1> QED
  BY <1>1, <1>2, <1>3, <1>4, <1>5 DEF StepOf, InviteStep, AccessStep, RemoveStep

\* Every step keeps the file as the handlers that are alone believe it to be.
LEMMA StoredStep ==
    ASSUME PortalInv, HandlerInv', [Next]_vars
    PROVE  StoredInv'
<1> SUFFICES ASSUME NEW k \in Handlers, alone'[k], user'[k] # NoUser
             PROVE  Stored(k)'
  BY DEF StoredInv
<1>1. ASSUME NEW h \in Handlers, StepOf(h) PROVE Stored(k)'
  BY <1>1, StepTouches, OthersStored, OwnStored DEF PortalInv
<1>2. CASE (\E u \in sessions : Login(u)) \/ UNCHANGED vars
  <2>1. UNCHANGED <<db, step, queue, user>> /\ alone[k]
    <3>1. UNCHANGED <<db, step, queue, user>>
      BY <1>2 DEF Login, vars, hvars, form, line
    <3>2. TellWhoIsAlone \/ UNCHANGED alone
      BY <1>2 DEF Login, vars
    <3> QED
      BY <3>1, <3>2, AloneBefore DEF PortalInv
  <2> QED
    BY <2>1 DEF PortalInv, StoredInv, Stored, InFile, AddressIn, Names, Kind, Current
<1>3. CASE Crash
  BY <1>3 DEF Crash
<1> QED
  BY <1>1, <1>2, <1>3 DEF Next, StepOf

-----------------------------------------------------------------------------
\* The third layer: what the row is.

\* A handler whose user's row is not touched stays settled.
LEMMA StaysSettled ==
    ASSUME NEW k \in Handlers, UNCHANGED <<queue[k], user[k]>>,
           UNCHANGED app[Lower[user[k].email]],
           UNCHANGED strays[Lower[user[k].email]], Settled(k)
    PROVE  Settled(k)'
  BY DEF Settled, RowAgrees, RowOf, Stray, Kind, Current

\* The step of another handler leaves the row of one that is alone.
LEMMA OthersSettled ==
    ASSUME PortalInv, HandlerInv', NEW h \in Handlers, NEW k \in Handlers, h # k,
           TellWhoIsAlone, Touches(h), step'[k] \in {"welcome", "audit"},
           alone'[k], ~warned'[k], user'[k] # NoUser
    PROVE  Settled(k)'
<1>1. UNCHANGED <<queue[k], step[k], user[k], warned[k]>>
  BY DEF Touches
<1>2. Settled(k)
  BY <1>1, AloneBefore DEF PortalInv, RowInv
<1>3. user[k] \in Entry
  BY <1>1 DEF PortalInv, HandlerInv, PortalTypeOK
<1>4. CASE rows' = rows
  BY <1>1, <1>2, <1>4, StaysSettled
<1>5. CASE /\ user[h] \in Entry /\ user' = user
           /\ step[h] # "idle" /\ queue' = queue
           /\ OnlyRowOf(user[h], app') /\ OnlyMarkOf(user[h], strays')
  <2>1. queue'[h] # <<>> /\ user'[h] # NoUser
    BY <1>5, CurrentTyped, PortalAssumption DEF PortalInv
  <2>2. Fold[user[h].email] # Fold[user[k].email]
    BY <1>5, <2>1, MeetsNobody
  <2>3. Lower[user[h].email] # Lower[user[k].email]
    BY <1>3, <1>5, <2>2, RowsApart
  <2>4. Lower[user[k].email] \in Emails
    BY <1>3, LowerAssumption DEF Entry
  <2>5. UNCHANGED <<app[Lower[user[k].email]], strays[Lower[user[k].email]]>>
    BY <1>5, <2>3, <2>4, <1>1 DEF OnlyRowOf, OnlyMarkOf
  <2> QED
    BY <1>1, <1>2, <2>5, StaysSettled
<1> QED
  BY <1>4, <1>5 DEF Touches

\* A handler that arrives at its last steps without a warning has settled the row.
LEMMA OwnSettled ==
    ASSUME PortalInv, HandlerInv', NEW h \in Handlers, StepOf(h), TellWhoIsAlone,
           step'[h] \in {"welcome", "audit"},
           alone'[h], ~warned'[h], user'[h] # NoUser
    PROVE  Settled(h)'
<1> USE DEF PortalInv, HandlerInv, PortalTypeOK
<1>1. CASE Begin(h) \/ FailLine(h) \/ FailRequest(h) \/ Audit(h)
  <2>1. step'[h] \in {"idle", "invite", "setgroups", "lookup"}
    BY <1>1
    DEF Begin, PostInvite, PostGroups, PostDelete, FailLine, FailRequest, Audit,
        NextLine, Goto
  <2> QED
    BY <2>1
<1>2. CASE \/ InviteLine(h) \/ SetGroups(h) \/ Delete(h) \/ Get(h) \/ Lookup(h)
  <2>1. step'[h] \in {"provision", "get", "deprovision", "sync", "delete"}
    BY <1>2 DEF InviteLine, SetGroups, Delete, Get, Lookup, Goto
  <2> QED
    BY <2>1
<1>3. CASE GetFails(h)
  BY <1>3 DEF GetFails, At, line, StepInv, StepInvOf
<1>4. CASE Provision(h)
  <2>1. /\ RoleFor(user[h].groups) = NoRole /\ UNCHANGED <<queue, user>>
        /\ Kind(h) = "add"
    BY <1>4 DEF Provision, Goto, form, At, StepInv, StepInvOf
  <2> QED
    BY <2>1 DEF Settled, Kind, Current
<1>5. CASE Insert(h)
  <2>1. /\ user[h] \in Entry /\ RoleFor(user[h].groups) # NoRole
        /\ Kind(h) = "add" /\ UNCHANGED <<queue, user>>
    BY <1>5 DEF Insert, At, form, StepInv, StepInvOf
  <2>2. RowOf(user[h]) = Absent /\ app' = Inserted(user[h])
    BY <1>5 DEF Insert, Run, Statement
  <2>3. /\ app'[Lower[user[h].email]] =
              [role |-> RoleFor(user[h].groups), active |-> TRUE]
        /\ app'[Lower[user[h].email]] # Absent
    BY <2>1, <2>2, InsertedRow, FullRow, RulesAssumption
  <2> QED
    BY <2>1, <2>3 DEF Settled, RowAgrees, RowOf, Kind, Current
<1>6. CASE Welcome(h)
  <2>1. /\ UNCHANGED <<rows, queue, user>> /\ step[h] = "welcome" /\ ~warned[h]
    BY <1>6 DEF Welcome, form, At
  <2>2. Settled(h)
    BY <2>1, AloneBefore DEF RowInv
  <2> QED
    BY <2>1, <2>2, StaysSettled
<1>7. CASE Sync(h)
  <2>1. user[h] \in Entry /\ Kind(h) = "groups" /\ UNCHANGED <<queue, user>>
    BY <1>7 DEF Sync, At, form, StepInv, StepInvOf
  <2>2. app' = Synced(user[h])
    BY <1>7 DEF Sync, Run, Statement
  <2>3. RowAgrees(user[h])'
    BY <2>1, <2>2, SyncedRow DEF RowAgrees, RowOf
  <2> QED
    BY <2>1, <2>3 DEF Settled, Kind, Current
<1>8. CASE Deprovision(h)
  <2>1. user[h] \in Entry /\ Kind(h) = "delete" /\ UNCHANGED <<queue, user>>
    BY <1>8 DEF Deprovision, At, form, StepInv, StepInvOf
  <2>2. app' = Deactivated(user[h])
    BY <1>8 DEF Deprovision, Run, Statement
  <2> QED
    BY <2>1, <2>2, DeactivatedRow DEF Settled, RowOf, Kind, Current
<1> QED
  BY <1>1, <1>2, <1>3, <1>4, <1>5, <1>6, <1>7, <1>8
  DEF StepOf, InviteStep, AccessStep, RemoveStep

\* Whoever signs in as the file has them agrees with what the handler settled;
\* of an old session the row says so, and after a removal it can only be one
\* that found no row.
LEMMA LoginSettled ==
    ASSUME PortalInv, NEW u \in sessions, Login(u), NEW k \in Handlers,
           step[k] \in {"welcome", "audit"}, alone[k], user[k] # NoUser, Settled(k)
    PROVE  Settled(k)'
<1> DEFINE e == Lower[u.email]
<1>1. user[k] \in Entry /\ UNCHANGED <<queue, user>> /\ UNCHANGED Kind(k)
  BY DEF PortalInv, HandlerInv, PortalTypeOK, Login, hvars, form, line, Kind, Current
<1>2. Lower[user[k].email] \in Emails
  BY <1>1, LowerAssumption DEF Entry
<1>3. /\ u \in Entry /\ OnlyRowOf(u, app') /\ OnlyMarkOf(u, strays')
      /\ app'[e] = [role |-> RoleFor(u.groups), active |-> TRUE]
      /\ app'[e] # Absent /\ RoleFor(u.groups) # NoRole
      /\ strays'[e] = IF u \in Range(db) THEN "none"
                      ELSE IF RowOf(u) = Absent \/ strays[e] = "made"
                      THEN "made" ELSE "changed"
  BY LoginWrites DEF PortalInv
<1>4. Kind(k) \in {"add", "groups", "delete"}
  BY CurrentTyped DEF PortalInv, Kind, Request
<1>5. CASE e # Lower[user[k].email]
  BY <1>1, <1>2, <1>3, <1>5, StaysSettled DEF OnlyRowOf, OnlyMarkOf
<1>6. CASE e = Lower[user[k].email] /\ u \in Range(db)
  <2>1. PICK i \in DOMAIN db : db[i] = u
    BY <1>6 DEF Range
  <2>2. Fold[u.email] = Fold[user[k].email]
    BY <1>1, <1>3, <1>6, RowsApart
  <2>3. ~(step[k] = "audit" /\ Kind(k) = "delete")
    BY <2>1, <2>2 DEF PortalInv, StoredInv, Stored, AddressIn
  <2>4. InFile(user[k])
    BY <2>3 DEF PortalInv, StoredInv, Stored
  <2>5. user[k] = u
    BY <2>1, <2>2, <2>4 DEF InFile, PortalInv, UniqueIdentities
  <2>6. Kind(k) # "delete"
    BY <2>3 DEF PortalInv, HandlerInv, StepInv, StepInvOf
  <2>7. RowOf(user[k])' # Absent /\ RowAgrees(user[k])'
    BY <1>1, <1>3, <2>5 DEF RowAgrees, RowOf
  <2> QED
    BY <1>1, <1>4, <2>6, <2>7 DEF Settled
<1>7. CASE e = Lower[user[k].email] /\ u \notin Range(db)
  <2>1. RowOf(user[k])' # Absent /\ Stray(user[k])' # "none"
    BY <1>1, <1>3, <1>7 DEF RowOf, Stray
  <2>2. CASE Kind(k) # "delete"
    BY <1>1, <1>4, <2>1, <2>2 DEF Settled
  <2>3. CASE Kind(k) = "delete"
    <3>1. RowOf(u) = RowOf(user[k]) /\ strays[e] = Stray(user[k])
      BY <1>7 DEF RowOf, Stray
    <3>2. RowOf(u) = Absent \/ RowOf(u).active
      BY DEF Login, MayUse
    <3>3. RowOf(u) = Absent \/ strays[e] = "made"
      BY <2>3, <3>1, <3>2 DEF Settled
    <3>4. Stray(user[k])' = "made"
      BY <1>1, <1>3, <1>7, <3>3 DEF Stray
    <3> QED
      BY <1>1, <2>3, <3>4 DEF Settled
  <2> QED
    BY <2>2, <2>3
<1> QED
  BY <1>5, <1>6, <1>7

\* Every step keeps the rows as the handlers that are alone left them.
LEMMA RowStep ==
    ASSUME PortalInv, HandlerInv', [Next]_vars
    PROVE  RowInv'
<1> SUFFICES ASSUME NEW k \in Handlers, step'[k] \in {"welcome", "audit"},
                    alone'[k], ~warned'[k], user'[k] # NoUser
             PROVE  Settled(k)'
  BY DEF RowInv
<1>1. ASSUME NEW h \in Handlers, StepOf(h) PROVE Settled(k)'
  BY <1>1, StepTouches, OthersSettled, OwnSettled DEF PortalInv
<1>2. ASSUME NEW u \in sessions, Login(u) PROVE Settled(k)'
  <2>1. UNCHANGED <<step, queue, user, warned>> /\ TellWhoIsAlone
    BY <1>2 DEF Login, hvars, form, line
  <2>2. alone[k] /\ Settled(k)
    BY <2>1, AloneBefore DEF PortalInv, RowInv
  <2> QED
    BY <1>2, <2>1, <2>2, LoginSettled
<1>3. CASE Crash
  BY <1>3 DEF Crash
<1>4. CASE UNCHANGED vars
  BY <1>4, StaysSettled DEF vars, hvars, form, line, PortalInv, RowInv
<1> QED
  BY <1>1, <1>2, <1>3, <1>4 DEF Next, StepOf

-----------------------------------------------------------------------------
\* The file stays one Authelia loads.
LEMMA IdentitiesStep ==
    ASSUME PortalInv, [Next]_vars
    PROVE  UniqueIdentities(db')
<1>1. ASSUME NEW h \in Handlers, StoreCommits(h), step[h] # "idle"
      PROVE  UniqueIdentities(db')
  BY <1>1, CommitTyped, EditedKeepsIdentities DEF PortalInv
<1>2. ASSUME NEW h \in Handlers, StepOf(h) PROVE UniqueIdentities(db')
  BY <1>1, <1>2, StepTouches DEF Touches, PortalInv
<1>3. (\E u \in sessions : Login(u)) \/ Crash \/ UNCHANGED vars => db' = db
  BY DEF Login, Crash, vars
<1> QED
  BY <1>2, <1>3 DEF Next, StepOf, PortalInv

\* The invariant holds in every state, whoever posts what and whatever fails.
THEOREM Invariance == Spec => []PortalInv
<1>1. Init => PortalInv
  BY PortalInitInv
<1>2. PortalInv /\ [Next]_vars => PortalInv'
  <2> SUFFICES ASSUME PortalInv, [Next]_vars PROVE PortalInv'
    OBVIOUS
  <2>1. HandlerInv'
    BY HandlerStep DEF PortalInv
  <2>2. UniqueIdentities(db)'
    BY IdentitiesStep DEF UniqueIdentities
  <2> QED
    BY <2>1, <2>2, StoredStep, RowStep DEF PortalInv
<1> QED
  BY <1>1, <1>2, PTL DEF Spec

\* Every request, row and mark of a handler stays in its type: the page's
\* forms, the users read back from the file and the statements' results.
THEOREM TypeCorrect == Spec => []PortalTypeOK
<1>1. PortalInv => PortalTypeOK
  BY DEF PortalInv, HandlerInv
<1> QED
  BY <1>1, Invariance, PTL

\* Every change of the users file is on its way to the audit log, in the
\* handler that made it, until the log has it (server.go: store, app, audit).
THEOREM EveryCommitIsAudited == Spec => []NoUnauditedCommit
<1>1. PortalInv => NoUnauditedCommit
  BY DEF PortalInv, HandlerInv
<1> QED
  BY <1>1, Invariance, PTL

\* For as long as nobody else is about the same person, what a handler tells
\* the app is what the users file says, however many requests run beside it.
THEOREM AppIsToldWhatIsStored == Spec => []ActsOnWhatIsStored
<1>1. PortalInv => ActsOnWhatIsStored
  <2> SUFFICES ASSUME PortalInv, NEW h \in Handlers, Underway(h), alone[h]
               PROVE  IF Kind(h) = "delete" THEN user[h].name \notin Names(db)
                      ELSE user[h] # NoUser => InFile(user[h])
    BY DEF ActsOnWhatIsStored, InFile
  <2>1. CASE Kind(h) = "delete"
    <3>1. step[h] \in {"deprovision", "audit"} /\ user[h] # NoUser
      BY <2>1 DEF Underway, PortalInv, HandlerInv, StepInv, StepInvOf
    <3> QED
      BY <2>1, <3>1 DEF PortalInv, StoredInv, Stored
  <2>2. CASE Kind(h) # "delete"
    <3>1. step[h] # "deprovision"
      BY <2>2 DEF PortalInv, HandlerInv, StepInv, StepInvOf
    <3> QED
      BY <2>2, <3>1 DEF PortalInv, StoredInv, Stored
  <2> QED
    BY <2>1, <2>2
<1> QED
  BY <1>1, Invariance, PTL

\* A handler that nobody met and that shows no warning has brought the app in
\* line with the users file, up to what sessions older than the last change of
\* the user did to the row since: after a removal that is to create a row that
\* was not there, never to make an existing one active again.
THEOREM NoWarningMeansDone == Spec => []QuietMeansDone
<1>1. PortalInv => QuietMeansDone
  BY DEF QuietMeansDone, At, PortalInv, RowInv, Settled
<1> QED
  BY <1>1, Invariance, PTL

\* No line of an invite is about the person of another line, where addresses
\* that are one to EqualFold are one in lower case (as ASCII addresses are).
THEOREM NoLineTwice ==
    ASSUME \A a, b \in Emails : Fold[a] = Fold[b] => Lower[a] = Lower[b]
    PROVE  Spec => []LinesDistinct
<1>1. PortalInv => LinesDistinct
  <2> SUFFICES ASSUME PortalInv, NEW h \in Handlers,
                      NEW i \in DOMAIN queue[h], NEW j \in DOMAIN queue[h],
                      Fold[queue[h][i].user.email] = Fold[queue[h][j].user.email]
               PROVE  i = j
    BY DEF LinesDistinct
  <2> DEFINE q == queue[h]
  <2>1. q \in Seq(Request) /\ LinesFit(q)
    BY DEF PortalInv, HandlerInv, PortalTypeOK, QueueInv
  <2>2. Len(q) \in Nat /\ DOMAIN q = 1..Len(q) /\ q[i] \in Request /\ q[j] \in Request
    BY <2>1, LenProperties, ElementOfSeq
  <2>3. Lower[q[i].user.email] = Lower[q[j].user.email]
    BY <2>2 DEF Request, Entry
  <2>4. CASE Len(q) > 1
    BY <2>1, <2>3, <2>4 DEF LinesFit
  <2>5. CASE ~(Len(q) > 1)
    BY <2>2, <2>5
  <2> QED
    BY <2>4, <2>5
<1> QED
  BY <1>1, Invariance, PTL
=============================================================================
