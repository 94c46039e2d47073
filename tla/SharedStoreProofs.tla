-------------------------- MODULE SharedStoreProofs --------------------------
(***************************************************************************)
(* SharedStore for any number of portal writers, any file and any users:   *)
(* Authelia writes the file at any moment, in place and without the lock.  *)
(***************************************************************************)
EXTENDS SharedStore, UserStoreProofs

\* What Authelia holds are users it could load.
MemInv ==
    /\ mem \in Seq(Entry) /\ UniqueIdentities(mem)
    /\ saving \in BOOLEAN /\ linked \in BOOLEAN
    /\ notified \in BOOLEAN /\ touched \in BOOLEAN

\* The file is in order unless Authelia has just truncated it.
FileInv ==
    /\ file # Unreadable => UniqueIdentities(file)
    /\ file = Unreadable => saving /\ linked

\* What an attempt has read was in order: the beginning of a file Authelia is
\* still writing is in order too.
ReadOrderInv == \A w \in Writers : pc[w] \in PastRead => UniqueIdentities(snap[w])

SharedInv ==
    CallsInv /\ MemInv /\ FileInv /\ ReadOrderInv /\ CommitOnFresh

-----------------------------------------------------------------------------
\* Authelia's edits keep its users in order: a password is not an identity ...
LEMMA ResetKeepsOrder ==
    ASSUME NEW c \in Seq(Entry), UniqueIdentities(c), NEW i \in DOMAIN c,
           NEW d \in Digests
    PROVE  /\ [c EXCEPT ![i].pw = d] \in Seq(Entry)
           /\ UniqueIdentities([c EXCEPT ![i].pw = d])
<1> DEFINE e == [c[i] EXCEPT !.pw = d]
           f == [c EXCEPT ![i].pw = d]
<1>1. DOMAIN c = 1..Len(c) /\ c[i] \in Entry
  BY LenProperties, ElementOfSeq
<1>2. e \in Entry /\ e.name = c[i].name /\ e.email = c[i].email
  <2>1. \A x \in Entry : /\ [x EXCEPT !.pw = d] \in Entry
                         /\ [x EXCEPT !.pw = d].name = x.name
                         /\ [x EXCEPT !.pw = d].email = x.email
    BY DEF Entry
  <2> QED
    BY <1>1, <2>1
<1>3. f = [c EXCEPT ![i] = e]
  OBVIOUS
<1> HIDE DEF e
<1>4. /\ f \in Seq(Entry) /\ Len(f) = Len(c)
      /\ \A j \in 1..Len(c) : f[j] = IF i = j THEN e ELSE c[j]
  <2>1. /\ [c EXCEPT ![i] = e] \in Seq(Entry)
        /\ Len([c EXCEPT ![i] = e]) = Len(c)
        /\ \A j \in 1..Len(c) :
              [c EXCEPT ![i] = e][j] = IF j = i THEN e ELSE c[j]
    BY <1>1, <1>2, ExceptSeq
  <2> QED
    BY <1>3, <2>1
<1> HIDE DEF f
<1>5. DOMAIN f = DOMAIN c
  BY <1>1, <1>4, LenProperties
<1>6. \A j \in DOMAIN c : f[j].name = c[j].name /\ f[j].email = c[j].email
  BY <1>1, <1>2, <1>4
<1>7. UniqueIdentities(f)
  BY <1>5, <1>6 DEF UniqueIdentities
<1> QED
  BY <1>4, <1>7 DEF f

\* ... and a beginning of a file in order is in order.
LEMMA PrefixKeepsOrder ==
    ASSUME NEW c \in Seq(Entry), UniqueIdentities(c), NEW part \in Prefixes(c)
    PROVE  part \in Seq(Entry) /\ UniqueIdentities(part)
<1>1. PICK l \in 0..Len(c) : part = SubSeq(c, 1, l)
  BY DEF Prefixes
<1>2. Len(c) \in Nat /\ DOMAIN c = 1..Len(c) /\ \A i \in 1..Len(c) : c[i] \in Entry
  BY LenProperties, ElementOfSeq
<1>3. \A i \in 1..l : c[i] \in Entry /\ i \in DOMAIN c
  BY <1>2
<1>4. part \in Seq(Entry) /\ Len(part) = l /\ \A i \in 1..l : part[i] = c[i]
  <2>1. /\ SubSeq(c, 1, l) \in Seq(Entry)
        /\ Len(SubSeq(c, 1, l)) = IF 1 <= l THEN l - 1 + 1 ELSE 0
        /\ \A i \in 1..(l - 1 + 1) : SubSeq(c, 1, l)[i] = c[1 + i - 1]
    BY <1>2, <1>3, SubSeqProperties
  <2>2. l \in Nat /\ \A i \in 1..l : i \in 1..(l - 1 + 1) /\ 1 + i - 1 = i
    BY <1>2
  <2> QED
    BY <1>1, <2>1, <2>2
<1>5. DOMAIN part = 1..l
  BY <1>4, LenProperties
<1> QED
  BY <1>3, <1>4, <1>5 DEF UniqueIdentities

-----------------------------------------------------------------------------
\* The invariant holds at the start.
LEMMA SharedInitInv == SharedInit => SharedInv
<1> SUFFICES ASSUME SharedInit PROVE SharedInv
  OBVIOUS
<1>1. CallsInv /\ file \in InitFiles
  BY InitIInv DEF SharedInit, Init, IInv
<1>2. InOrder(file) /\ file \in Content
  BY <1>1, LoadedAssumption, InitFilesAssumption
<1>3. MemInv /\ FileInv
  BY <1>2 DEF SharedInit, MemInv, FileInv, InOrder, Content
<1>4. ReadOrderInv /\ CommitOnFresh
  BY DEF SharedInit, Init, ReadOrderInv, CommitOnFresh, PastRead, PastReread
<1> QED
  BY <1>1, <1>3, <1>4 DEF SharedInv

\* Of the portal's steps, only the rename touches the file.
LEMMA QuietLeavesFile ==
    ASSUME NEW w \in Writers, Call(w) \/ Progress(w) \/ Disturbed(w) \/ Fault(w)
    PROVE  file' = file
BY DEF storeVars, Call, Progress, Disturbed, Fault, RefuseName, FailLock,
       RefuseEarly, Sweep, SkipSweep, ReadAndEdit, ReadAndRefuse, Reread, Retry,
       GiveUp, OpenBackup, FillBackup, CreateTemp, WriteTemp, SyncTemp, SyncDir,
       IOError, Unlock, Return

\* A step of w moves w alone, and changes what w has read alone.
LEMMA QuietMovesOne ==
    ASSUME TypeOK, NEW w \in Writers, NEW v \in Writers, v # w,
           Call(w) \/ Progress(w) \/ Disturbed(w) \/ Fault(w)
    PROVE  pc'[v] = pc[v] /\ snap'[v] = snap[v]
BY DEF TypeOK, Goto, attemptVars, Call, Progress, Disturbed, Fault, Finish,
       RefuseName, FailLock,
       RefuseEarly, Sweep, SkipSweep, ReadAndEdit, ReadAndRefuse, Reread, Retry,
       GiveUp, OpenBackup, FillBackup, CreateTemp, WriteTemp, SyncTemp, SyncDir,
       IOError, Unlock, Return

\* How w gets to, or stays, between the first read and the rename.
LEMMA QuietReads ==
    ASSUME TypeOK, NEW w \in Writers,
           Call(w) \/ Progress(w) \/ Disturbed(w) \/ Fault(w), pc'[w] \in PastRead
    PROVE  \/ ReadAndEdit(w)
           \/ Reread(w)
           \/ pc[w] \in PastReread /\ snap'[w] = snap[w]
<1> USE DEF TypeOK, Goto, At, attemptVars, PastRead, PastReread, Finish
<1>1. Disturbed(w) \/ Fault(w) \/ Call(w) => FALSE
  BY DEF Call, Disturbed, Fault, FailLock, RefuseEarly, SkipSweep, IOError, Retry,
         GiveUp
<1>2. RefuseName(w) \/ Sweep(w) \/ ReadAndRefuse(w) \/ SyncDir(w) \/ Unlock(w)
      \/ Return(w) => FALSE
  BY DEF RefuseName, RefuseEarly, Sweep, ReadAndRefuse, SyncDir, Unlock, Return
<1>3. OpenBackup(w) \/ FillBackup(w) \/ CreateTemp(w) \/ WriteTemp(w) \/ SyncTemp(w)
         => pc[w] \in PastReread /\ snap'[w] = snap[w]
  BY DEF OpenBackup, FillBackup, CreateTemp, WriteTemp, SyncTemp
<1> QED
  BY <1>1, <1>2, <1>3 DEF Progress

\* Every step keeps the invariant.
LEMMA SharedStepInv == SharedInv /\ [SharedNext]_svars => SharedInv'
<1> SUFFICES ASSUME SharedInv, [SharedNext]_svars PROVE SharedInv'
  OBVIOUS
<1>0. TypeOK /\ CallsInv /\ file \in Content /\ LockInv
  BY DEF SharedInv, CallsInv, TypeOK
<1>1. ASSUME NEW w \in Writers, PortalQuiet(w) PROVE SharedInv'
  <2>1. Call(w) \/ Progress(w) \/ Disturbed(w) \/ Fault(w)
    BY <1>1 DEF PortalQuiet
  <2>2. CallsInv'
    BY <2>1, <1>0, StepCallsInv DEF Next
  <2>3. file' = file /\ UNCHANGED autheliaVars
    BY <1>1, <2>1, QuietLeavesFile DEF PortalQuiet
  <2>4. MemInv' /\ FileInv'
    BY <1>1, <2>3 DEF PortalQuiet, SharedInv, MemInv, FileInv, autheliaVars
  <2>5. ReadOrderInv'
    <3> SUFFICES ASSUME NEW v \in Writers, pc'[v] \in PastRead
                 PROVE  UniqueIdentities(snap'[v])
      BY DEF ReadOrderInv
    <3>1. CASE v # w
      BY <1>0, <2>1, <3>1, QuietMovesOne DEF SharedInv, ReadOrderInv
    <3>2. CASE v = w /\ ReadAndEdit(w)
      <4>1. snap'[w] = file /\ file # Unreadable
        BY <1>0, <3>2 DEF ReadAndEdit, Accepted, TypeOK
      <4> QED
        BY <3>2, <4>1 DEF SharedInv, FileInv
    <3>3. CASE v = w /\ Reread(w)
      BY <3>3 DEF Reread, At, attemptVars, SharedInv, ReadOrderInv, PastRead
    <3>4. CASE v = w /\ pc[w] \in PastReread /\ snap'[w] = snap[w]
      BY <3>4 DEF SharedInv, ReadOrderInv, PastRead, PastReread
    <3> QED
      BY <1>0, <2>1, <3>1, <3>2, <3>3, <3>4, QuietReads
  <2>6. CommitOnFresh'
    <3> SUFFICES ASSUME NEW v \in Writers, pc'[v] \in PastReread, ~touched'
                 PROVE  snap'[v] = file
      BY <2>3 DEF CommitOnFresh
    <3>0. pc'[v] \in PastRead
      BY DEF PastRead, PastReread
    <3>1. CASE v # w
      <4>1. pc[v] \in PastReread /\ snap'[v] = snap[v]
        BY <1>0, <2>1, <3>1, QuietMovesOne
      <4>2. pc[w] # "reread"
        BY <1>0, <3>1, <4>1 DEF LockInv, PastReread, Locked, Attempting
      <4>3. ~touched
        BY <1>1, <4>2 DEF PortalQuiet, At
      <4> QED
        BY <4>1, <4>3 DEF SharedInv, CommitOnFresh
    <3>2. CASE v = w /\ ReadAndEdit(w)
      BY <1>0, <3>2 DEF ReadAndEdit, Goto, PastReread, TypeOK
    <3>3. CASE v = w /\ Reread(w)
      BY <3>3 DEF Reread, attemptVars
    <3>4. CASE v = w /\ pc[w] \in PastReread /\ snap'[w] = snap[w]
      <4>1. pc[w] # "reread"
        BY <3>4 DEF PastReread
      <4>2. ~touched
        BY <1>1, <4>1 DEF PortalQuiet, At
      <4> QED
        BY <3>4, <4>2 DEF SharedInv, CommitOnFresh
    <3> QED
      BY <1>0, <2>1, <3>0, <3>1, <3>2, <3>3, <3>4, QuietReads
  <2> QED
    BY <2>2, <2>4, <2>5, <2>6 DEF SharedInv
<1>2. ASSUME NEW w \in Writers, PortalAcquire(w) PROVE SharedInv'
  <2>1. CallsInv'
    BY <1>0, <1>2, StepCallsInv DEF PortalAcquire, Next
  <2> QED
    BY <1>0, <1>2, <2>1
    DEF PortalAcquire, Acquire, Goto, At, storeVars, callVars, attemptVars, TypeOK,
        SharedInv, MemInv, FileInv, ReadOrderInv, CommitOnFresh, autheliaVars,
        PastRead, PastReread
<1>3. ASSUME NEW w \in Writers, PortalRename(w) PROVE SharedInv'
  <2>0. Rename(w) /\ pc[w] = "rename"
    BY <1>3 DEF PortalRename, Rename, At
  <2>1. CallsInv'
    BY <1>0, <2>0, StepCallsInv DEF Next
  <2>2. /\ op[w] \in Request /\ snap[w] \in Seq(Entry) /\ Editable(op[w], snap[w])
        /\ UniqueIdentities(snap[w])
        /\ file' = Edited(op[w], snap[w])
    <3>1. snap[w] \in Content /\ Accepted(op[w], snap[w]) /\ temp[w] = "synced"
          /\ UniqueIdentities(snap[w])
      BY <1>0, <2>0
      DEF CallsInv, ReadInv, TempInv, SharedInv, ReadOrderInv, PastRead
    <3>2. op[w] \in Request
      BY <1>0, <2>0, RequestsAssumption DEF CallsInv, CallInv
    <3> QED
      BY <2>0, <3>1, <3>2 DEF Rename, TempContent, Accepted, Content
  <2>3. file' \in Seq(Entry) /\ UniqueIdentities(file')
    BY <2>2, EditedIsReadable, EditedKeepsIdentities
  <2>4. FileInv'
    BY <2>3, UnreadableAssumption DEF FileInv
  <2>5. MemInv'
    BY <1>3 DEF PortalRename, SharedInv, MemInv
  <2>6. ASSUME NEW v \in Writers, pc'[v] \in PastRead PROVE FALSE
    <3>1. v # w /\ pc[v] \in PastRead
      BY <1>0, <2>0, <2>6 DEF Rename, Goto, TypeOK, PastRead
    <3> QED
      BY <1>0, <2>0, <3>1 DEF LockInv, PastRead, Locked, Attempting
  <2>7. ReadOrderInv' /\ CommitOnFresh'
    BY <2>6 DEF ReadOrderInv, CommitOnFresh, PastRead, PastReread
  <2> QED
    BY <2>1, <2>4, <2>5, <2>7 DEF SharedInv
<1>4. CASE PortalCrash
  <2>1. CallsInv'
    BY <1>0, <1>4, StepCallsInv DEF PortalCrash, Next
  <2> QED
    BY <1>4, <2>1
    DEF PortalCrash, Crash, SharedInv, MemInv, FileInv, ReadOrderInv, CommitOnFresh,
        autheliaVars, PastRead, PastReread
<1>5. ASSUME UNCHANGED <<bak, lock, stale, pc, callVars, attemptVars>>,
             file' \in Content
      PROVE  CallsInv' /\ (SharedInv => ReadOrderInv')
  BY <1>0, <1>5
  DEF callVars, attemptVars, CallsInv, TypeOK, LockInv, CallInv, ReadInv, TempInv,
      BackupInv, SharedInv, ReadOrderInv
<1>6. mem \in Seq(Entry) /\ UniqueIdentities(mem)
  BY DEF SharedInv, MemInv
<1>7. CASE ResetPassword
  <2>1. CallsInv' /\ ReadOrderInv'
    BY <1>5, <1>7 DEF ResetPassword, Content
  <2>2. mem' \in Seq(Entry) /\ UniqueIdentities(mem')
    BY <1>6, <1>7, ResetKeepsOrder DEF ResetPassword
  <2> QED
    BY <1>7, <2>1, <2>2
    DEF ResetPassword, SharedInv, MemInv, FileInv, CommitOnFresh
<1>8. CASE WritePart
  <2>1. file' \in Seq(Entry) /\ UniqueIdentities(file')
    BY <1>6, <1>8, PrefixKeepsOrder DEF WritePart
  <2>2. CallsInv' /\ ReadOrderInv'
    BY <1>5, <1>8, <2>1 DEF WritePart, Content
  <2> QED
    BY <1>8, <2>1, <2>2, UnreadableAssumption
    DEF WritePart, SharedInv, MemInv, FileInv, CommitOnFresh, autheliaVars
<1>9. CASE FinishSave
  <2>1. file' \in Content
    BY <1>0, <1>6, <1>9 DEF FinishSave, Content
  <2>2. CallsInv' /\ ReadOrderInv'
    BY <1>5, <1>9, <2>1 DEF FinishSave
  <2>3. MemInv'
    BY <1>9 DEF FinishSave, SharedInv, MemInv
  <2>4. FileInv'
    BY <1>6, <1>9, UnreadableAssumption DEF FinishSave, SharedInv, FileInv
  <2>5. CommitOnFresh'
    BY <1>9 DEF FinishSave, SharedInv, CommitOnFresh, attemptVars
  <2> QED
    BY <2>2, <2>3, <2>4, <2>5 DEF SharedInv
<1>10. CASE Reload
  <2>1. CallsInv' /\ ReadOrderInv'
    BY <1>0, <1>5, <1>10 DEF Reload, vars, callVars, attemptVars
  <2>2. InOrder(file) => file \in Seq(Entry) /\ UniqueIdentities(file)
    BY <1>0 DEF InOrder, Content
  <2>3. MemInv'
    BY <1>10, <2>2 DEF Reload, SharedInv, MemInv
  <2> QED
    BY <1>10, <2>1, <2>3 DEF Reload, vars, SharedInv, FileInv, CommitOnFresh
<1>11. CASE UNCHANGED svars
  <2>1. CallsInv' /\ ReadOrderInv'
    BY <1>0, <1>5, <1>11 DEF svars, vars, callVars, attemptVars
  <2> QED
    BY <1>11, <2>1
    DEF svars, vars, autheliaVars, SharedInv, MemInv, FileInv, CommitOnFresh
<1> QED
  BY <1>1, <1>2, <1>3, <1>4, <1>7, <1>8, <1>9, <1>10, <1>11 DEF SharedNext, Authelia

\* The invariant holds in every reachable state.
LEMMA SharedInvariance == SharedSpec => []SharedInv
  BY SharedInitInv, SharedStepInv, PTL DEF SharedSpec

-----------------------------------------------------------------------------
\* Types: neither writer can make the other hold or write anything but a
\* users file.
THEOREM SharedTypeCorrect == SharedSpec => []SharedTypeOK
<1>1. SharedInv => SharedTypeOK
  BY UnreadableAssumption
  DEF SharedInv, CallsInv, MemInv, SharedTypeOK, Content
<1> QED
  BY SharedInvariance, <1>1, PTL

\* The portal never leaves a file that cannot be loaded: there is one only
\* while Authelia is writing it.
THEOREM OnlyAutheliaTears == SharedSpec => []TornIsTransient
<1>1. SharedInv => TornIsTransient
  BY DEF SharedInv, FileInv, TornIsTransient, InOrder
<1> QED
  BY SharedInvariance, <1>1, PTL

\* The second read works: an attempt that goes on is based on what the file
\* holds until Authelia writes again.
THEOREM WindowIsTheOnlyOne == SharedSpec => []CommitOnFresh
<1>1. SharedInv => CommitOnFresh
  BY DEF SharedInv
<1> QED
  BY SharedInvariance, <1>1, PTL

\* Whatever is renamed is the output of the edit of what was read.
LEMMA RenamesIsRename ==
    ASSUME SharedInv, [SharedNext]_svars, NEW w \in Writers, Renames(w)
    PROVE  Rename(w)
<1>0. TypeOK /\ pc[w] = "rename" /\ pc'[w] = "syncdir"
  BY DEF SharedInv, CallsInv, Renames, At
<1>1. ASSUME NEW v \in Writers, PortalQuiet(v) PROVE FALSE
  <2>1. Call(v) \/ Progress(v) \/ Disturbed(v) \/ Fault(v)
    BY <1>1 DEF PortalQuiet
  <2>2. v = w
    BY <1>0, <2>1, QuietMovesOne
  <2> QED
    BY <1>0, <2>1, <2>2
    DEF TypeOK, At, Goto, Call, Progress, Disturbed, Fault, Finish, RefuseName,
        FailLock, RefuseEarly, Sweep, SkipSweep, ReadAndEdit, ReadAndRefuse, Reread,
        Retry, GiveUp, OpenBackup, FillBackup, CreateTemp, WriteTemp, SyncTemp,
        SyncDir, IOError, Unlock, Return
<1>2. ASSUME NEW v \in Writers, PortalAcquire(v) PROVE FALSE
  BY <1>0, <1>2 DEF PortalAcquire, Acquire, At, Goto, TypeOK
<1>3. ASSUME NEW v \in Writers, PortalRename(v) PROVE Rename(w)
  BY <1>0, <1>3 DEF PortalRename, Rename, At, Goto, TypeOK
<1>4. CASE PortalCrash \/ Authelia \/ UNCHANGED svars
  BY <1>0, <1>4
  DEF PortalCrash, Crash, Authelia, ResetPassword, WritePart, FinishSave, Reload,
      svars, vars
<1> QED
  BY <1>1, <1>2, <1>3, <1>4 DEF SharedNext

\* An edit of a file in order loses nobody but the user to delete, and nobody's
\* password.
LEMMA EditLosesNobody ==
    ASSUME NEW c \in Seq(Entry), NEW r \in Request, Editable(r, c), DistinctKeys(c),
           NEW n \in Names(c), ~(r.kind = "delete" /\ r.user.name = n)
    PROVE  /\ n \in Names(Edited(r, c))
           /\ Snapshot(Edited(r, c))[n].pw = Snapshot(c)[n].pw
<1> DEFINE d == Edited(r, c)
<1>1. d \in Seq(Entry) /\ DistinctKeys(d)
  BY EditedIsReadable, EditedEntries
<1>2. PICK i \in DOMAIN c : c[i].name = n
  BY DEF Names
<1>3. Snapshot(c)[n] = c[i]
  BY <1>2, SnapshotOfDistinct
<1>4. \E j \in DOMAIN d : d[j].name = n /\ d[j].pw = c[i].pw
  <2>1. CASE r.user.name # n
    BY <1>2, <2>1, EditedEntries
  <2>2. CASE r.user.name = n
    <3>1. r.kind \in {"add", "groups", "delete"}
      BY DEF Request
    <3>2. r.kind = "groups"
      BY <1>2, <2>2, <3>1 DEF Editable, Taken
    <3>3. PICK j \in DOMAIN d, k \in DOMAIN c :
             c[k].name = r.user.name /\ d[j] = [c[k] EXCEPT !.groups = r.user.groups]
      BY <3>2, EditedEntries
    <3>4. k = i
      BY <1>2, <2>2, <3>3 DEF DistinctKeys
    <3>5. c[k] \in Entry
      BY ElementOfSeq, LenProperties
    <3>6. d[j].name = c[k].name /\ d[j].pw = c[k].pw
      BY <3>3, <3>5 DEF Entry
    <3> QED
      BY <1>2, <3>4, <3>6
  <2> QED
    BY <2>1, <2>2
<1>5. PICK j \in DOMAIN d : d[j].name = n /\ d[j].pw = c[i].pw
  BY <1>4
<1>6. Snapshot(d)[n] = d[j] /\ n \in DOMAIN Snapshot(d)
  BY <1>1, <1>5, SnapshotOfDistinct
<1> QED
  BY <1>3, <1>5, <1>6, SnapshotDomain

\* Outside the window a rename loses nobody and nobody's password.
THEOREM RenameLosesNobody == SharedSpec => NobodyLost
<1> DEFINE Kept == \A w \in Writers : (Renames(w) /\ ~touched /\ file # Unreadable) =>
                      \A n \in Names(file) :
                         \/ /\ op[w].kind = "delete"
                            /\ op[w].user.name = n
                         \/ /\ n \in Names(file')
                            /\ Snapshot(file')[n].pw = Snapshot(file)[n].pw
<1>1. ASSUME SharedInv, [SharedNext]_svars PROVE Kept
  <2> SUFFICES ASSUME NEW w \in Writers, Renames(w), ~touched, file # Unreadable,
                      NEW n \in Names(file),
                      ~(op[w].kind = "delete" /\ op[w].user.name = n)
               PROVE  /\ n \in Names(file')
                      /\ Snapshot(file')[n].pw = Snapshot(file)[n].pw
    OBVIOUS
  <2>1. Rename(w) /\ pc[w] = "rename"
    BY <1>1, RenamesIsRename DEF Rename, At
  <2>2. snap[w] = file
    BY <1>1, <2>1 DEF SharedInv, CommitOnFresh, PastReread
  <2>3. /\ op[w] \in Requests /\ Editable(op[w], file)
        /\ file' = Edited(op[w], file)
    BY <1>1, <2>1, <2>2
    DEF Rename, TempContent, SharedInv, CallsInv, CallInv, ReadInv, TempInv, PastRead,
        Accepted
  <2>4. file \in Seq(Entry) /\ DistinctKeys(file)
    BY <1>1, InOrderIsDistinct DEF SharedInv, CallsInv, TypeOK, Content, FileInv
  <2> QED
    BY <2>3, <2>4, EditLosesNobody, RequestsAssumption
<1>2. SharedInv /\ [SharedNext]_svars => [Kept]_svars
  BY <1>1
<1> QED
  BY SharedInvariance, <1>2, PTL DEF SharedSpec, NobodyLost
=============================================================================
