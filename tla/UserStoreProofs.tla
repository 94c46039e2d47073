-------------------------- MODULE UserStoreProofs ---------------------------
(***************************************************************************)
(* UserStore for any number of writers, any requests and any file: the     *)
(* inductive invariant of mutate, and what follows from it.                *)
(***************************************************************************)
EXTENDS UserStore, UserFileProofs

\* The flock is held by the writer that is past flock(LOCK_EX), and by no
\* other.
LockInv == \A w \in Writers : pc[w] \in Locked <=> lock = w

\* A call in progress has its request, and its result says how far it is.
CallInv ==
    \A w \in Writers :
        /\ IF pc[w] = "idle" THEN op[w] = NoRequest ELSE op[w] \in Requests
        /\ res[w] \in CASE pc[w] = "idle"                           -> {"none"}
                        [] pc[w] \in Attempting \union {"start", "sweep"} -> {"pending"}
                        [] pc[w] = "syncdir"                        -> {"ok"}
                        [] pc[w] \in {"unlock", "return"}           ->
                              {"ok", "duplicate", "notfound", "error"}

\* The steps of an attempt that has read the file.
PastRead == {"reread", "backup", "fill", "create", "write", "sync", "rename"}

\* What an attempt has read is a file on which its request goes through.
ReadInv ==
    \A w \in Writers :
        pc[w] \in PastRead => snap[w] \in Content /\ Accepted(op[w], snap[w])

\* The temporary file exists from its creation to the rename, is filled
\* before it is synced, and synced before it is renamed.
TempInv ==
    \A w \in Writers :
        temp[w] = CASE pc[w] = "write"  -> "empty"
                    [] pc[w] = "sync"   -> "written"
                    [] pc[w] = "rename" -> "synced"
                    [] OTHER            -> "none"

\* By the time there is a temporary file the backup is complete.
BackupInv ==
    \A w \in Writers :
        pc[w] \in {"create", "write", "sync", "rename"} => bak = snap[w]

\* The part of the invariant that does not depend on who else writes the
\* file: SharedStore and DurableStore keep it too.
CallsInv == TypeOK /\ LockInv /\ CallInv /\ ReadInv /\ TempInv /\ BackupInv

\* With the flock held by nobody else, what was read is what the file holds.
FreshInv == \A w \in Writers : pc[w] \in PastRead => snap[w] = file

IInv == CallsInv /\ FreshInv

-----------------------------------------------------------------------------
\* A request that goes through makes a readable file of a readable file.
LEMMA AcceptedEdit ==
    ASSUME NEW c \in Content, NEW r \in Request, Accepted(r, c)
    PROVE  c \in Seq(Entry) /\ Edited(r, c) \in Seq(Entry)
BY EditedIsReadable DEF Accepted, Content

\* The invariant holds at the start.
LEMMA InitIInv == Init => IInv
<1> SUFFICES ASSUME Init PROVE IInv
  OBVIOUS
<1> USE DEF Init
<1>1. TypeOK
  BY InitFilesAssumption, NoFileAssumption, MaxAttemptsAssumption
  DEF TypeOK, Steps, Locked, Attempting, Results
<1>2. LockInv
  BY WritersAssumption DEF LockInv, Locked, Attempting
<1>3. CallInv /\ ReadInv /\ TempInv /\ BackupInv /\ FreshInv
  BY DEF CallInv, ReadInv, TempInv, BackupInv, FreshInv, PastRead, Attempting
<1> QED
  BY <1>1, <1>2, <1>3 DEF IInv, CallsInv

\* The end of an attempt keeps the types of what it changes.
LEMMA FinishTyped ==
    ASSUME TypeOK, NEW w \in Writers, NEW r \in Results, Finish(w, r)
    PROVE  /\ pc' \in [Writers -> Steps]
           /\ res' \in [Writers -> Results]
           /\ snap' \in [Writers -> Content \union {NoFile}]
           /\ temp' \in [Writers -> {"none", "empty", "written", "synced"}]
           /\ attempt' \in [Writers -> 0..(MaxAttempts - 1)]
           /\ stale' \in BOOLEAN
<1>1. 0 \in 0..(MaxAttempts - 1)
  BY MaxAttemptsAssumption
<1>2. stale' \in BOOLEAN
  BY DEF Finish, TypeOK
<1> QED
  BY <1>1, <1>2 DEF Finish, Goto, TypeOK, Steps, Locked

\* Every step keeps it, those of an attempt that finds the file changed
\* included; the steps are those of one writer w.
LEMMA StepCallsInv ==
    CallsInv /\ [Next \/ \E w \in Writers : Disturbed(w)]_vars => CallsInv'
<1> SUFFICES ASSUME CallsInv, [Next \/ \E w \in Writers : Disturbed(w)]_vars
             PROVE  CallsInv'
  OBVIOUS
<1> USE DEF CallsInv, Goto, At, storeVars, callVars, attemptVars
<1>1. ASSUME NEW w \in Writers, Call(w) PROVE CallsInv'
  <2>1. TypeOK'
    BY <1>1 DEF Call, TypeOK, Steps, Locked, Attempting, Results
  <2>2. LockInv'
    BY <1>1, WritersAssumption DEF Call, TypeOK, LockInv, Locked, Attempting
  <2>3. CallInv'
    BY <1>1 DEF Call, TypeOK, CallInv, Attempting
  <2>4. ReadInv'
    BY <1>1 DEF Call, TypeOK, ReadInv, PastRead
  <2>5. TempInv'
    BY <1>1 DEF Call, TypeOK, LockInv, TempInv, Locked, Attempting
  <2>6. BackupInv'
    BY <1>1 DEF Call, TypeOK, LockInv, BackupInv, Locked, Attempting
  <2> QED
    BY <2>1, <2>2, <2>3, <2>4, <2>5, <2>6
<1>2. ASSUME NEW w \in Writers, RefuseName(w) PROVE CallsInv'
  <2>1. TypeOK'
    BY <1>2 DEF RefuseName, RefuseEarly, TypeOK, Steps, Locked, Attempting, Results
  <2>2. LockInv'
    BY <1>2, WritersAssumption DEF RefuseName, RefuseEarly, TypeOK, LockInv, Locked, Attempting
  <2>3. CallInv'
    BY <1>2 DEF RefuseName, RefuseEarly, TypeOK, CallInv, Attempting
  <2>4. ReadInv'
    BY <1>2 DEF RefuseName, RefuseEarly, TypeOK, ReadInv, PastRead
  <2>5. TempInv'
    BY <1>2 DEF RefuseName, RefuseEarly, TypeOK, LockInv, TempInv, Locked, Attempting
  <2>6. BackupInv'
    BY <1>2 DEF RefuseName, RefuseEarly, TypeOK, LockInv, BackupInv, Locked, Attempting
  <2> QED
    BY <2>1, <2>2, <2>3, <2>4, <2>5, <2>6
<1>3. ASSUME NEW w \in Writers, FailLock(w) PROVE CallsInv'
  <2>1. TypeOK'
    BY <1>3 DEF FailLock, RefuseEarly, TypeOK, Steps, Locked, Attempting, Results
  <2>2. LockInv'
    BY <1>3, WritersAssumption DEF FailLock, RefuseEarly, TypeOK, LockInv, Locked, Attempting
  <2>3. CallInv'
    BY <1>3 DEF FailLock, RefuseEarly, TypeOK, CallInv, Attempting
  <2>4. ReadInv'
    BY <1>3 DEF FailLock, RefuseEarly, TypeOK, ReadInv, PastRead
  <2>5. TempInv'
    BY <1>3 DEF FailLock, RefuseEarly, TypeOK, LockInv, TempInv, Locked, Attempting
  <2>6. BackupInv'
    BY <1>3 DEF FailLock, RefuseEarly, TypeOK, LockInv, BackupInv, Locked, Attempting
  <2> QED
    BY <2>1, <2>2, <2>3, <2>4, <2>5, <2>6
<1>4. ASSUME NEW w \in Writers, Acquire(w) PROVE CallsInv'
  <2>1. TypeOK'
    BY <1>4 DEF Acquire, TypeOK, Steps, Locked, Attempting, Results
  <2>2. LockInv'
    BY <1>4, WritersAssumption DEF Acquire, TypeOK, LockInv, Locked, Attempting
  <2>3. CallInv'
    BY <1>4 DEF Acquire, TypeOK, CallInv, Attempting
  <2>4. ReadInv'
    BY <1>4 DEF Acquire, TypeOK, ReadInv, PastRead
  <2>5. TempInv'
    BY <1>4 DEF Acquire, TypeOK, LockInv, TempInv, Locked, Attempting
  <2>6. BackupInv'
    BY <1>4 DEF Acquire, TypeOK, LockInv, BackupInv, Locked, Attempting
  <2> QED
    BY <2>1, <2>2, <2>3, <2>4, <2>5, <2>6
<1>5. ASSUME NEW w \in Writers, Sweep(w) PROVE CallsInv'
  <2>1. TypeOK'
    BY <1>5 DEF Sweep, TypeOK, Steps, Locked, Attempting, Results
  <2>2. LockInv'
    BY <1>5, WritersAssumption DEF Sweep, TypeOK, LockInv, Locked, Attempting
  <2>3. CallInv'
    BY <1>5 DEF Sweep, TypeOK, CallInv, Attempting
  <2>4. ReadInv'
    BY <1>5 DEF Sweep, TypeOK, ReadInv, PastRead
  <2>5. TempInv'
    BY <1>5 DEF Sweep, TypeOK, LockInv, TempInv, Locked, Attempting
  <2>6. BackupInv'
    BY <1>5 DEF Sweep, TypeOK, LockInv, BackupInv, Locked, Attempting
  <2> QED
    BY <2>1, <2>2, <2>3, <2>4, <2>5, <2>6
<1>6. ASSUME NEW w \in Writers, SkipSweep(w) PROVE CallsInv'
  <2>1. TypeOK'
    BY <1>6 DEF SkipSweep, TypeOK, Steps, Locked, Attempting, Results
  <2>2. LockInv'
    BY <1>6, WritersAssumption DEF SkipSweep, TypeOK, LockInv, Locked, Attempting
  <2>3. CallInv'
    BY <1>6 DEF SkipSweep, TypeOK, CallInv, Attempting
  <2>4. ReadInv'
    BY <1>6 DEF SkipSweep, TypeOK, ReadInv, PastRead
  <2>5. TempInv'
    BY <1>6 DEF SkipSweep, TypeOK, LockInv, TempInv, Locked, Attempting
  <2>6. BackupInv'
    BY <1>6 DEF SkipSweep, TypeOK, LockInv, BackupInv, Locked, Attempting
  <2> QED
    BY <2>1, <2>2, <2>3, <2>4, <2>5, <2>6
<1>7. ASSUME NEW w \in Writers, ReadAndEdit(w) PROVE CallsInv'
  <2>1. TypeOK'
    BY <1>7 DEF ReadAndEdit, TypeOK, Steps, Locked, Attempting, Results
  <2>2. LockInv'
    BY <1>7, WritersAssumption DEF ReadAndEdit, TypeOK, LockInv, Locked, Attempting
  <2>3. CallInv'
    BY <1>7 DEF ReadAndEdit, TypeOK, CallInv, Attempting
  <2>4. ReadInv'
    BY <1>7 DEF ReadAndEdit, TypeOK, ReadInv, PastRead
  <2>5. TempInv'
    BY <1>7 DEF ReadAndEdit, TypeOK, LockInv, TempInv, Locked, Attempting
  <2>6. BackupInv'
    BY <1>7 DEF ReadAndEdit, TypeOK, LockInv, BackupInv, Locked, Attempting
  <2> QED
    BY <2>1, <2>2, <2>3, <2>4, <2>5, <2>6
<1>8. ASSUME NEW w \in Writers, ReadAndRefuse(w) PROVE CallsInv'
  <2>1. TypeOK'
    BY <1>8, FinishTyped DEF ReadAndRefuse, Refusal, TypeOK, Results
  <2>2. LockInv'
    BY <1>8, WritersAssumption DEF ReadAndRefuse, Finish, Refusal, TypeOK, LockInv, Locked, Attempting
  <2>3. CallInv'
    BY <1>8 DEF ReadAndRefuse, Finish, Refusal, TypeOK, CallInv, Attempting
  <2>4. ReadInv'
    BY <1>8 DEF ReadAndRefuse, Finish, Refusal, TypeOK, ReadInv, PastRead
  <2>5. TempInv'
    BY <1>8 DEF ReadAndRefuse, Finish, Refusal, TypeOK, LockInv, TempInv, Locked, Attempting
  <2>6. BackupInv'
    BY <1>8 DEF ReadAndRefuse, Finish, Refusal, TypeOK, LockInv, BackupInv, Locked, Attempting
  <2> QED
    BY <2>1, <2>2, <2>3, <2>4, <2>5, <2>6
<1>9. ASSUME NEW w \in Writers, Reread(w) PROVE CallsInv'
  <2>1. TypeOK'
    BY <1>9 DEF Reread, TypeOK, Steps, Locked, Attempting, Results
  <2>2. LockInv'
    BY <1>9, WritersAssumption DEF Reread, TypeOK, LockInv, Locked, Attempting
  <2>3. CallInv'
    BY <1>9 DEF Reread, TypeOK, CallInv, Attempting
  <2>4. ReadInv'
    BY <1>9 DEF Reread, TypeOK, ReadInv, PastRead
  <2>5. TempInv'
    BY <1>9 DEF Reread, TypeOK, LockInv, TempInv, Locked, Attempting
  <2>6. BackupInv'
    BY <1>9 DEF Reread, TypeOK, LockInv, BackupInv, Locked, Attempting
  <2> QED
    BY <2>1, <2>2, <2>3, <2>4, <2>5, <2>6
<1>10. ASSUME NEW w \in Writers, Retry(w) PROVE CallsInv'
  <2>1. TypeOK'
    <3>1. attempt[w] + 1 \in 0..(MaxAttempts - 1)
      BY <1>10, MaxAttemptsAssumption DEF Retry, TypeOK
    <3> QED
      BY <1>10, <3>1 DEF Retry, TypeOK, Steps, Locked, Attempting
  <2>2. LockInv'
    BY <1>10, WritersAssumption DEF Retry, TypeOK, LockInv, Locked, Attempting
  <2>3. CallInv'
    BY <1>10 DEF Retry, TypeOK, CallInv, Attempting
  <2>4. ReadInv'
    BY <1>10 DEF Retry, TypeOK, ReadInv, PastRead
  <2>5. TempInv'
    BY <1>10 DEF Retry, TypeOK, LockInv, TempInv, Locked, Attempting
  <2>6. BackupInv'
    BY <1>10 DEF Retry, TypeOK, LockInv, BackupInv, Locked, Attempting
  <2> QED
    BY <2>1, <2>2, <2>3, <2>4, <2>5, <2>6
<1>11. ASSUME NEW w \in Writers, GiveUp(w) PROVE CallsInv'
  <2>1. TypeOK'
    BY <1>11, FinishTyped DEF GiveUp, TypeOK, Results
  <2>2. LockInv'
    BY <1>11, WritersAssumption DEF GiveUp, Finish, TypeOK, LockInv, Locked, Attempting
  <2>3. CallInv'
    BY <1>11 DEF GiveUp, Finish, TypeOK, CallInv, Attempting
  <2>4. ReadInv'
    BY <1>11 DEF GiveUp, Finish, TypeOK, ReadInv, PastRead
  <2>5. TempInv'
    BY <1>11 DEF GiveUp, Finish, TypeOK, LockInv, TempInv, Locked, Attempting
  <2>6. BackupInv'
    BY <1>11 DEF GiveUp, Finish, TypeOK, LockInv, BackupInv, Locked, Attempting
  <2> QED
    BY <2>1, <2>2, <2>3, <2>4, <2>5, <2>6
<1>12. ASSUME NEW w \in Writers, OpenBackup(w) PROVE CallsInv'
  <2>1. TypeOK'
    BY <1>12 DEF OpenBackup, TypeOK, Content, Steps, Locked, Attempting, Results
  <2>2. LockInv'
    BY <1>12, WritersAssumption DEF OpenBackup, TypeOK, LockInv, Locked, Attempting
  <2>3. CallInv'
    BY <1>12 DEF OpenBackup, TypeOK, CallInv, Attempting
  <2>4. ReadInv'
    BY <1>12 DEF OpenBackup, TypeOK, ReadInv, PastRead
  <2>5. TempInv'
    BY <1>12 DEF OpenBackup, TypeOK, LockInv, TempInv, Locked, Attempting
  <2>6. BackupInv'
    BY <1>12 DEF OpenBackup, TypeOK, LockInv, BackupInv, Locked, Attempting
  <2> QED
    BY <2>1, <2>2, <2>3, <2>4, <2>5, <2>6
<1>13. ASSUME NEW w \in Writers, FillBackup(w) PROVE CallsInv'
  <2>1. TypeOK'
    BY <1>13 DEF FillBackup, TypeOK, Steps, Locked, Attempting, Results
  <2>2. LockInv'
    BY <1>13, WritersAssumption DEF FillBackup, TypeOK, LockInv, Locked, Attempting
  <2>3. CallInv'
    BY <1>13 DEF FillBackup, TypeOK, CallInv, Attempting
  <2>4. ReadInv'
    BY <1>13 DEF FillBackup, TypeOK, ReadInv, PastRead
  <2>5. TempInv'
    BY <1>13 DEF FillBackup, TypeOK, LockInv, TempInv, Locked, Attempting
  <2>6. BackupInv'
    BY <1>13 DEF FillBackup, TypeOK, LockInv, BackupInv, Locked, Attempting
  <2> QED
    BY <2>1, <2>2, <2>3, <2>4, <2>5, <2>6
<1>14. ASSUME NEW w \in Writers, CreateTemp(w) PROVE CallsInv'
  <2>1. TypeOK'
    BY <1>14 DEF CreateTemp, SetTemp, TypeOK, Steps, Locked, Attempting, Results
  <2>2. LockInv'
    BY <1>14, WritersAssumption DEF CreateTemp, SetTemp, TypeOK, LockInv, Locked, Attempting
  <2>3. CallInv'
    BY <1>14 DEF CreateTemp, SetTemp, TypeOK, CallInv, Attempting
  <2>4. ReadInv'
    BY <1>14 DEF CreateTemp, SetTemp, TypeOK, ReadInv, PastRead
  <2>5. TempInv'
    BY <1>14 DEF CreateTemp, SetTemp, TypeOK, LockInv, TempInv, Locked, Attempting
  <2>6. BackupInv'
    BY <1>14 DEF CreateTemp, SetTemp, TypeOK, LockInv, BackupInv, Locked, Attempting
  <2> QED
    BY <2>1, <2>2, <2>3, <2>4, <2>5, <2>6
<1>15. ASSUME NEW w \in Writers, WriteTemp(w) PROVE CallsInv'
  <2>1. TypeOK'
    BY <1>15 DEF WriteTemp, SetTemp, TypeOK, Steps, Locked, Attempting, Results
  <2>2. LockInv'
    BY <1>15, WritersAssumption DEF WriteTemp, SetTemp, TypeOK, LockInv, Locked, Attempting
  <2>3. CallInv'
    BY <1>15 DEF WriteTemp, SetTemp, TypeOK, CallInv, Attempting
  <2>4. ReadInv'
    BY <1>15 DEF WriteTemp, SetTemp, TypeOK, ReadInv, PastRead
  <2>5. TempInv'
    BY <1>15 DEF WriteTemp, SetTemp, TypeOK, LockInv, TempInv, Locked, Attempting
  <2>6. BackupInv'
    BY <1>15 DEF WriteTemp, SetTemp, TypeOK, LockInv, BackupInv, Locked, Attempting
  <2> QED
    BY <2>1, <2>2, <2>3, <2>4, <2>5, <2>6
<1>16. ASSUME NEW w \in Writers, SyncTemp(w) PROVE CallsInv'
  <2>1. TypeOK'
    BY <1>16 DEF SyncTemp, SetTemp, TypeOK, Steps, Locked, Attempting, Results
  <2>2. LockInv'
    BY <1>16, WritersAssumption DEF SyncTemp, SetTemp, TypeOK, LockInv, Locked, Attempting
  <2>3. CallInv'
    BY <1>16 DEF SyncTemp, SetTemp, TypeOK, CallInv, Attempting
  <2>4. ReadInv'
    BY <1>16 DEF SyncTemp, SetTemp, TypeOK, ReadInv, PastRead
  <2>5. TempInv'
    BY <1>16 DEF SyncTemp, SetTemp, TypeOK, LockInv, TempInv, Locked, Attempting
  <2>6. BackupInv'
    BY <1>16 DEF SyncTemp, SetTemp, TypeOK, LockInv, BackupInv, Locked, Attempting
  <2> QED
    BY <2>1, <2>2, <2>3, <2>4, <2>5, <2>6
<1>17. ASSUME NEW w \in Writers, Rename(w) PROVE CallsInv'
  <2>1. TypeOK'
    <3>1. temp[w] = "synced" /\ op[w] \in Request /\ snap[w] \in Content
          /\ Accepted(op[w], snap[w])
      BY <1>17, RequestsAssumption DEF Rename, TempInv, CallInv, ReadInv, PastRead
    <3>2. TempContent(w) \in Content
      BY <3>1, AcceptedEdit DEF TempContent, Content
    <3> QED
      BY <1>17, <3>2 DEF Rename, SetTemp, TypeOK, Steps, Locked, Attempting, Results
  <2>2. LockInv'
    BY <1>17, WritersAssumption DEF Rename, SetTemp, TypeOK, LockInv, Locked, Attempting
  <2>3. CallInv'
    BY <1>17 DEF Rename, SetTemp, TypeOK, CallInv, Attempting
  <2>4. ReadInv'
    BY <1>17 DEF Rename, SetTemp, TypeOK, ReadInv, PastRead
  <2>5. TempInv'
    BY <1>17 DEF Rename, SetTemp, TypeOK, LockInv, TempInv, Locked, Attempting
  <2>6. BackupInv'
    BY <1>17 DEF Rename, SetTemp, TypeOK, LockInv, BackupInv, Locked, Attempting
  <2> QED
    BY <2>1, <2>2, <2>3, <2>4, <2>5, <2>6
<1>18. ASSUME NEW w \in Writers, SyncDir(w) PROVE CallsInv'
  <2>1. TypeOK'
    BY <1>18, FinishTyped DEF SyncDir, TypeOK, Results
  <2>2. LockInv'
    BY <1>18, WritersAssumption DEF SyncDir, Finish, TypeOK, LockInv, Locked, Attempting
  <2>3. CallInv'
    BY <1>18 DEF SyncDir, Finish, TypeOK, CallInv, Attempting
  <2>4. ReadInv'
    BY <1>18 DEF SyncDir, Finish, TypeOK, ReadInv, PastRead
  <2>5. TempInv'
    BY <1>18 DEF SyncDir, Finish, TypeOK, LockInv, TempInv, Locked, Attempting
  <2>6. BackupInv'
    BY <1>18 DEF SyncDir, Finish, TypeOK, LockInv, BackupInv, Locked, Attempting
  <2> QED
    BY <2>1, <2>2, <2>3, <2>4, <2>5, <2>6
<1>19. ASSUME NEW w \in Writers, IOError(w) PROVE CallsInv'
  <2>1. TypeOK'
    BY <1>19, FinishTyped DEF IOError, TypeOK, Results
  <2>2. LockInv'
    BY <1>19, WritersAssumption DEF IOError, Finish, TypeOK, LockInv, Locked, Attempting
  <2>3. CallInv'
    BY <1>19 DEF IOError, Finish, TypeOK, CallInv, Attempting
  <2>4. ReadInv'
    BY <1>19 DEF IOError, Finish, TypeOK, ReadInv, PastRead
  <2>5. TempInv'
    BY <1>19 DEF IOError, Finish, TypeOK, LockInv, TempInv, Locked, Attempting
  <2>6. BackupInv'
    BY <1>19 DEF IOError, Finish, TypeOK, LockInv, BackupInv, Locked, Attempting
  <2> QED
    BY <2>1, <2>2, <2>3, <2>4, <2>5, <2>6
<1>20. ASSUME NEW w \in Writers, Unlock(w) PROVE CallsInv'
  <2>1. TypeOK'
    BY <1>20 DEF Unlock, TypeOK, Steps, Locked, Attempting, Results
  <2>2. LockInv'
    BY <1>20, WritersAssumption DEF Unlock, TypeOK, LockInv, Locked, Attempting
  <2>3. CallInv'
    BY <1>20 DEF Unlock, TypeOK, CallInv, Attempting
  <2>4. ReadInv'
    BY <1>20 DEF Unlock, TypeOK, ReadInv, PastRead
  <2>5. TempInv'
    BY <1>20 DEF Unlock, TypeOK, LockInv, TempInv, Locked, Attempting
  <2>6. BackupInv'
    BY <1>20 DEF Unlock, TypeOK, LockInv, BackupInv, Locked, Attempting
  <2> QED
    BY <2>1, <2>2, <2>3, <2>4, <2>5, <2>6
<1>21. ASSUME NEW w \in Writers, Return(w) PROVE CallsInv'
  <2>1. TypeOK'
    BY <1>21 DEF Return, TypeOK, Steps, Locked, Attempting, Results
  <2>2. LockInv'
    BY <1>21, WritersAssumption DEF Return, TypeOK, LockInv, Locked, Attempting
  <2>3. CallInv'
    BY <1>21 DEF Return, TypeOK, CallInv, Attempting
  <2>4. ReadInv'
    BY <1>21 DEF Return, TypeOK, ReadInv, PastRead
  <2>5. TempInv'
    BY <1>21 DEF Return, TypeOK, LockInv, TempInv, Locked, Attempting
  <2>6. BackupInv'
    BY <1>21 DEF Return, TypeOK, LockInv, BackupInv, Locked, Attempting
  <2> QED
    BY <2>1, <2>2, <2>3, <2>4, <2>5, <2>6
<1>22. CASE Crash
  <2>1. TypeOK'
    BY <1>22, MaxAttemptsAssumption DEF Crash, TypeOK, Steps, Locked, Attempting, Results
  <2>2. LockInv' /\ CallInv' /\ ReadInv' /\ TempInv' /\ BackupInv'
    BY <1>22, WritersAssumption
    DEF Crash, TypeOK, LockInv, CallInv, ReadInv, PastRead, TempInv, BackupInv, Locked,
        Attempting
  <2> QED
    BY <2>1, <2>2
<1>23. CASE UNCHANGED vars
  BY <1>23 DEF vars, TypeOK, LockInv, CallInv, ReadInv, TempInv, BackupInv
<1> QED
  BY <1>1, <1>2, <1>3, <1>4, <1>5, <1>6, <1>7, <1>8, <1>9, <1>10, <1>11,
     <1>12, <1>13, <1>14, <1>15, <1>16, <1>17, <1>18, <1>19, <1>20, <1>21,
     <1>22, <1>23
  DEF Next, Progress, Disturbed, Fault

\* Nobody writes the file between the read and the rename of an attempt: only
\* the rename of a writer does, and that one holds the flock.
LEMMA StepIInv == IInv /\ [Next]_vars => IInv'
<1> SUFFICES ASSUME IInv, [Next]_vars PROVE IInv'
  OBVIOUS
<1>1. CallsInv'
  BY StepCallsInv DEF IInv
<1> SUFFICES FreshInv'
  BY <1>1 DEF IInv
<1> USE DEF IInv, CallsInv, Goto, At, storeVars, callVars, attemptVars
<1>2. ASSUME NEW w \in Writers, Call(w) PROVE FreshInv'
  BY <1>2 DEF Call, TypeOK, FreshInv, PastRead
<1>3. ASSUME NEW w \in Writers, RefuseName(w) PROVE FreshInv'
  BY <1>3 DEF RefuseName, RefuseEarly, TypeOK, FreshInv, PastRead
<1>4. ASSUME NEW w \in Writers, FailLock(w) PROVE FreshInv'
  BY <1>4 DEF FailLock, RefuseEarly, TypeOK, FreshInv, PastRead
<1>5. ASSUME NEW w \in Writers, Acquire(w) PROVE FreshInv'
  BY <1>5 DEF Acquire, TypeOK, FreshInv, PastRead
<1>6. ASSUME NEW w \in Writers, Sweep(w) PROVE FreshInv'
  BY <1>6 DEF Sweep, TypeOK, FreshInv, PastRead
<1>7. ASSUME NEW w \in Writers, SkipSweep(w) PROVE FreshInv'
  BY <1>7 DEF SkipSweep, TypeOK, FreshInv, PastRead
<1>8. ASSUME NEW w \in Writers, ReadAndEdit(w) PROVE FreshInv'
  BY <1>8 DEF ReadAndEdit, TypeOK, FreshInv, PastRead
<1>9. ASSUME NEW w \in Writers, ReadAndRefuse(w) PROVE FreshInv'
  BY <1>9 DEF ReadAndRefuse, Finish, TypeOK, FreshInv, PastRead
<1>10. ASSUME NEW w \in Writers, Reread(w) PROVE FreshInv'
  BY <1>10 DEF Reread, TypeOK, FreshInv, PastRead
<1>11. ASSUME NEW w \in Writers, OpenBackup(w) PROVE FreshInv'
  BY <1>11 DEF OpenBackup, TypeOK, FreshInv, PastRead
<1>12. ASSUME NEW w \in Writers, FillBackup(w) PROVE FreshInv'
  BY <1>12 DEF FillBackup, TypeOK, FreshInv, PastRead
<1>13. ASSUME NEW w \in Writers, CreateTemp(w) PROVE FreshInv'
  BY <1>13 DEF CreateTemp, SetTemp, TypeOK, FreshInv, PastRead
<1>14. ASSUME NEW w \in Writers, WriteTemp(w) PROVE FreshInv'
  BY <1>14 DEF WriteTemp, SetTemp, TypeOK, FreshInv, PastRead
<1>15. ASSUME NEW w \in Writers, SyncTemp(w) PROVE FreshInv'
  BY <1>15 DEF SyncTemp, SetTemp, TypeOK, FreshInv, PastRead
<1>16. ASSUME NEW w \in Writers, Rename(w) PROVE FreshInv'
  BY <1>16 DEF Rename, SetTemp, TypeOK, LockInv, FreshInv, PastRead, Locked, Attempting
<1>17. ASSUME NEW w \in Writers, SyncDir(w) PROVE FreshInv'
  BY <1>17 DEF SyncDir, Finish, TypeOK, FreshInv, PastRead
<1>18. ASSUME NEW w \in Writers, IOError(w) PROVE FreshInv'
  BY <1>18 DEF IOError, Finish, TypeOK, FreshInv, PastRead
<1>19. ASSUME NEW w \in Writers, Unlock(w) PROVE FreshInv'
  BY <1>19 DEF Unlock, TypeOK, FreshInv, PastRead
<1>20. ASSUME NEW w \in Writers, Return(w) PROVE FreshInv'
  BY <1>20 DEF Return, TypeOK, FreshInv, PastRead
<1>21. CASE Crash
  BY <1>21 DEF Crash, FreshInv, PastRead
<1>22. CASE UNCHANGED vars
  BY <1>22 DEF vars, FreshInv
<1> QED
  BY <1>1, <1>2, <1>3, <1>4, <1>5, <1>6, <1>7, <1>8, <1>9, <1>10, <1>11,
     <1>12, <1>13, <1>14, <1>15, <1>16, <1>17, <1>18, <1>19, <1>20, <1>21,
     <1>22
  DEF Next, Progress, Fault

\* The inductive invariant holds in every reachable state.
LEMMA Invariance == Spec => []IInv
<1> QED
  BY InitIInv, StepIInv, PTL DEF Spec

-----------------------------------------------------------------------------
\* Types: whatever the requests and however the calls interleave, fail or
\* die, every variable keeps its type; the portal never renames anything but
\* a readable file into place, unless the file was unreadable from the start.
THEOREM TypeCorrect == Spec => []TypeOK
<1>1. IInv => TypeOK
  BY DEF IInv, CallsInv
<1> QED
  BY Invariance, <1>1, PTL

\* Mutual exclusion: no two writers are past flock(LOCK_EX) at once.
THEOREM MutualExclusion ==
    Spec => [](\A v, w \in Writers :
                   (pc[v] \in Locked /\ pc[w] \in Locked) => v = w)
<1>1. IInv => \A v, w \in Writers :
                  (pc[v] \in Locked /\ pc[w] \in Locked) => v = w
  BY DEF IInv, CallsInv, LockInv
<1> QED
  BY Invariance, <1>1, PTL

\* The sweep never takes the temporary file of a running attempt.
THEOREM SweepIsSafe == Spec => []SweepSparesLive
<1>1. IInv => SweepSparesLive
  BY DEF IInv, CallsInv, TempInv, SweepSparesLive
<1> QED
  BY Invariance, <1>1, PTL

-----------------------------------------------------------------------------
\* Only the rename changes the users file.
LEMMA OnlyRenameChangesFile ==
    [Next]_vars => (file' = file \/ \E w \in Writers : Rename(w))
BY DEF Next, vars, storeVars, Call, Acquire, Progress, Fault, Crash, RefuseName,
       FailLock, RefuseEarly, Sweep, SkipSweep, ReadAndEdit, ReadAndRefuse, Reread,
       OpenBackup, FillBackup, CreateTemp, WriteTemp, SyncTemp,
       SyncDir, IOError, Unlock, Return

\* What a rename does, given the invariant: it applies the writer's request to
\* the file as it is.
LEMMA RenameEdits ==
    ASSUME IInv, NEW w \in Writers, Rename(w)
    PROVE  /\ op[w] \in Requests /\ op[w] \in Request
           /\ res[w] = "pending"
           /\ Accepted(op[w], file)
           /\ file' = Edited(op[w], file)
           /\ bak = file
<1>1. pc[w] = "rename"
  BY DEF Rename, At
<1>2. snap[w] = file /\ Accepted(op[w], file) /\ temp[w] = "synced"
  BY <1>1 DEF IInv, CallsInv, FreshInv, ReadInv, PastRead, TempInv
<1>3. op[w] \in Requests /\ res[w] = "pending"
  BY <1>1 DEF IInv, CallsInv, CallInv, Attempting
<1> QED
  BY <1>1, <1>2, <1>3, RequestsAssumption
  DEF Rename, TempContent, IInv, CallsInv, BackupInv

\* The backup holds what a rename replaces.
THEOREM BackupCorrect == Spec => BackupIsPrevious
<1>1. IInv /\ [Next]_vars => [file' # file => bak = file]_vars
  BY OnlyRenameChangesFile, RenameEdits
<1> QED
  BY Invariance, <1>1, PTL DEF Spec, BackupIsPrevious

\* A rename is an edit of a file in order, and gives one.
LEMMA StepKeepsOrder ==
    ASSUME IInv, [Next]_vars, InOrder(file)
    PROVE  InOrder(file')
<1>1. ASSUME NEW w \in Writers, Rename(w)
      PROVE  InOrder(file')
  <2>1. op[w] \in Request /\ Accepted(op[w], file) /\ file' = Edited(op[w], file)
    BY <1>1, RenameEdits
  <2>2. file \in Seq(Entry) /\ Editable(op[w], file)
    BY <2>1 DEF IInv, CallsInv, TypeOK, Content, Accepted
  <2>3. Edited(op[w], file) \in Seq(Entry)
    BY <2>1, <2>2, EditedIsReadable
  <2>4. UniqueIdentities(Edited(op[w], file))
    BY <2>1, <2>2, EditedKeepsIdentities DEF InOrder
  <2> QED
    BY <2>1, <2>3, <2>4, UnreadableAssumption DEF InOrder
<1> QED
  BY <1>1, OnlyRenameChangesFile

\* A file in order stays in order: readable, with no name and no address
\* twice, case aside.
THEOREM FileStaysInOrder == Spec => KeepsFileInOrder
<1>1. IInv /\ [Next]_vars => [InOrder(file) => InOrder(file')]_vars
  BY StepKeepsOrder
<1> QED
  BY Invariance, <1>1, PTL DEF Spec, KeepsFileInOrder

-----------------------------------------------------------------------------
\* The instance's copies of the file operators are the same operators.
LEMMA AtomicReads ==
    ASSUME NEW r, NEW c
    PROVE  /\ Atomic!Names(c) = Names(c)
           /\ Atomic!Taken(r.user, c) = Taken(r.user, c)
           /\ Atomic!Editable(r, c) = Editable(r, c)
<1>1. Atomic!Names(c) = Names(c) /\ Atomic!Taken(r.user, c) = Taken(r.user, c)
  BY Zenon DEF Names, Atomic!Names, Taken, Atomic!Taken
<1> QED
  BY <1>1, Zenon DEF Editable, Atomic!Editable

\* The abstract store's operators on files are those of the store.
LEMMA AtomicFirst ==
    ASSUME NEW n, NEW c
    PROVE  Atomic!FirstPosition(c, n) = FirstPosition(c, n)
BY Zenon DEF FirstPosition, Atomic!FirstPosition, Positions, Atomic!Positions

\* The snapshots too.
LEMMA AtomicSnapshot ==
    ASSUME NEW c
    PROVE  Atomic!Snapshot(c) = Snapshot(c)
BY Zenon DEF Snapshot, Atomic!Snapshot, LastPosition, Atomic!LastPosition,
   Positions, Atomic!Positions, Names, Atomic!Names

\* The edits too.
LEMMA AtomicEdits ==
    ASSUME NEW r, NEW c
    PROVE  Atomic!Edited(r, c) = Edited(r, c)
<1>1. Atomic!Regrouped(r.user, c) = Regrouped(r.user, c)
  BY AtomicFirst, Zenon DEF Regrouped, Atomic!Regrouped
<1>2. Atomic!Removed(r.user, c) = Removed(r.user, c)
  BY AtomicFirst, Zenon DEF Removed, Atomic!Removed, RemoveAt, Atomic!RemoveAt
<1>3. Atomic!Added(r.user, c) = Added(r.user, c)
  BY Zenon DEF Added, Atomic!Added
<1> QED
  BY <1>1, <1>2, <1>3 DEF Edited, Atomic!Edited

\* What is accepted too.
LEMMA AtomicAccepts ==
    ASSUME NEW r, NEW c
    PROVE  Atomic!Accepted(r, c) = Accepted(r, c)
<1>1. ASSUME NEW d
      PROVE  Atomic!Verify(r, c, d) = Verify(r, c, d)
  <2> DEFINE b == Snapshot(c)
             a == Snapshot(d)
             u == r.user
  <2>1. Atomic!UntouchedEqual(b, a, u.name) = UntouchedEqual(b, a, u.name)
    BY Zenon DEF UntouchedEqual, Atomic!UntouchedEqual
  <2>2. Atomic!VerifyAdd(u, b, a) = VerifyAdd(u, b, a)
    BY Zenon DEF VerifyAdd, Atomic!VerifyAdd
  <2>3. Atomic!VerifyGroups(u, b, a) = VerifyGroups(u, b, a)
    BY Zenon DEF VerifyGroups, Atomic!VerifyGroups
  <2>4. Atomic!VerifyDelete(u, b, a) = VerifyDelete(u, b, a)
    BY Zenon DEF VerifyDelete, Atomic!VerifyDelete
  <2> QED
    BY <2>1, <2>2, <2>3, <2>4, AtomicSnapshot DEF Verify, Atomic!Verify
<1> QED
  BY <1>1, AtomicReads, AtomicEdits DEF Accepted, Atomic!Accepted

\* Every step of the store is a step of AtomicStore, or leaves what the caller
\* can see alone.  The rename is the commit; the refusals keep their answers.
LEMMA StepRefines == IInv /\ [Next]_vars => [Atomic!Next]_<<file, op, res>>
<1> SUFFICES ASSUME IInv, [Next]_vars
             PROVE  Atomic!Next \/ UNCHANGED <<file, op, res>>
  OBVIOUS
<1> USE DEF Goto, At, storeVars, callVars, attemptVars
<1>1. ASSUME NEW w \in Writers, Call(w) PROVE Atomic!Call(w)
  <2>1. res[w] = "none"
    BY <1>1 DEF Call, IInv, CallsInv, CallInv, Attempting
  <2> QED
    BY <1>1, <2>1 DEF Call, Atomic!Call
<1>2. ASSUME NEW w \in Writers, Rename(w) PROVE Atomic!Commit(w)
  BY <1>2, RenameEdits, AtomicAccepts, AtomicEdits DEF Rename, Atomic!Commit
<1>3. ASSUME NEW w \in Writers, Return(w) PROVE Atomic!Return(w)
  <2>1. res[w] \notin {"none", "pending"}
    BY <1>3 DEF Return, IInv, CallsInv, CallInv, Attempting
  <2> QED
    BY <1>3, <2>1 DEF Return, Atomic!Return
<1>4. CASE Crash
  BY <1>4 DEF Crash, Atomic!Next, Atomic!Crash
<1>5. ASSUME NEW w \in Writers, NEW r \in {"duplicate", "notfound", "error"},
             res[w] = "pending", res' = [res EXCEPT ![w] = r],
             UNCHANGED <<file, op>>, Atomic!Truthful(op[w], r, file)
      PROVE  Atomic!Refuse(w)
  BY <1>5 DEF Atomic!Refuse
<1>6. ASSUME NEW w \in Writers, ReadAndRefuse(w) PROVE Atomic!Refuse(w)
  <2>1. res[w] = "pending" /\ op[w] \in Requests
    BY <1>6 DEF ReadAndRefuse, IInv, CallsInv, CallInv, Attempting
  <2>2. op[w].kind \in {"add", "groups", "delete"}
    BY <2>1, RequestsAssumption DEF Request
  <2> DEFINE r == Refusal(op[w], file)
  <2>3. r \in {"duplicate", "notfound", "error"}
    BY DEF Refusal
  <2>4. Atomic!Truthful(op[w], r, file)
    BY <2>2, AtomicReads DEF Refusal, Editable, Atomic!Truthful
  <2>5. res' = [res EXCEPT ![w] = r] /\ UNCHANGED <<file, op>>
    BY <1>6 DEF ReadAndRefuse, Finish
  <2> QED
    BY <1>5, <2>1, <2>3, <2>4, <2>5
<1>7. ASSUME NEW w \in Writers, RefuseEarly(w) \/ IOError(w)
      PROVE  Atomic!Refuse(w)
  <2>1. res[w] = "pending"
    BY <1>7 DEF RefuseEarly, IOError, IInv, CallsInv, CallInv, Attempting
  <2>2. res' = [res EXCEPT ![w] = "error"] /\ UNCHANGED <<file, op>>
    BY <1>7 DEF RefuseEarly, IOError, Finish
  <2>3. Atomic!Truthful(op[w], "error", file)
    BY DEF Atomic!Truthful
  <2> QED
    BY <1>5, <2>1, <2>2, <2>3
<1>8. ASSUME NEW w \in Writers, SyncDir(w) PROVE UNCHANGED <<file, op, res>>
  <2>1. res[w] = "ok" /\ res \in [Writers -> Results]
    BY <1>8 DEF SyncDir, IInv, CallsInv, CallInv, TypeOK, Attempting
  <2> QED
    BY <1>8, <2>1 DEF SyncDir, Finish
<1>9. ASSUME NEW w \in Writers,
             \/ Acquire(w) \/ Sweep(w) \/ SkipSweep(w) \/ ReadAndEdit(w)
             \/ Reread(w) \/ OpenBackup(w) \/ FillBackup(w)
             \/ CreateTemp(w) \/ WriteTemp(w) \/ SyncTemp(w) \/ Unlock(w)
      PROVE  UNCHANGED <<file, op, res>>
  BY <1>9 DEF Acquire, Sweep, SkipSweep, ReadAndEdit, Reread, OpenBackup,
     FillBackup, CreateTemp, WriteTemp, SyncTemp, Unlock
<1>10. CASE UNCHANGED vars
  BY <1>10 DEF vars
<1> QED
  BY <1>1, <1>2, <1>3, <1>4, <1>6, <1>7, <1>8, <1>9, <1>10
  DEF Next, Progress, Fault, RefuseName, FailLock, Atomic!Next

\* Whatever fails, and whenever the process dies, Add, SetGroups and Delete
\* are atomic: success means done, anything else means nothing happened.
THEOREM Refinement == Spec => ImplementsAtomicStore
<1>1. Init => Atomic!Init
  BY DEF Init, Atomic!Init
<1>2. IInv /\ [Next]_vars => [Atomic!Next]_<<file, op, res>>
  BY StepRefines
<1> QED
  BY Invariance, <1>1, <1>2, PTL DEF Spec, ImplementsAtomicStore, Atomic!Spec,
     Atomic!avars
=============================================================================
