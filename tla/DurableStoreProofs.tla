------------------------- MODULE DurableStoreProofs --------------------------
(***************************************************************************)
(* What a power loss can do to the users file, for any number of writers   *)
(* and any requests: every step but the power loss itself is a step of     *)
(* UserStore, whose invariant is used as it is.                            *)
(***************************************************************************)
EXTENDS DurableStore, UserStoreProofs

\* The file in use and every file the disk may come back with are in order.
DiskInv ==
    /\ InOrder(file)
    /\ onDisk \in SUBSET Content
    /\ NeverTornOnDisk
    /\ overdue \in BOOLEAN

DurableInv == IInv /\ DiskInv /\ AnsweredIsDurable

\* The invariant holds at the start.
LEMMA DurableInitInv == DurableInit => DurableInv
<1> SUFFICES ASSUME DurableInit PROVE DurableInv
  OBVIOUS
<1>1. IInv /\ file \in InitFiles
  BY InitIInv DEF DurableInit, Init
<1>2. InOrder(file) /\ file \in Content
  BY <1>1, LoadedAssumption, InitFilesAssumption
<1> QED
  BY <1>1, <1>2
  DEF DurableInit, DurableInv, DiskInv, NeverTornOnDisk, AnsweredIsDurable

\* A step of UserStore leaves the disk what it is when the file is left alone
\* and nobody leaves the sync of the directory.
LEMMA ElsewhereKeeps ==
    ASSUME DurableInv, NEW w \in Writers, Elsewhere(w)
    PROVE  /\ [Next]_vars /\ file' = file
           /\ \A v \in Writers : At(v, "syncdir") => pc'[v] = "syncdir"
<1> USE DEF Elsewhere, Progress, Fault
<1>1. [Next]_vars
  BY DEF Next
<1> USE DEF Call, Acquire, RefuseName, FailLock, RefuseEarly, Sweep,
        SkipSweep, ReadAndEdit, ReadAndRefuse, Reread, OpenBackup, FillBackup,
        CreateTemp, WriteTemp, SyncTemp, SyncDir, IOError, Unlock, Return, storeVars
<1>2. file' = file
  OBVIOUS
<1>3. ASSUME NEW v \in Writers, At(v, "syncdir") PROVE pc'[v] = "syncdir"
  BY <1>3
  DEF DurableInv, IInv, CallsInv, TypeOK, At, Goto, Finish, Attempting
<1> QED
  BY <1>1, <1>2, <1>3

\* Every step keeps the invariant.
LEMMA DurableStepInv == DurableInv /\ [DurableNext]_dvars => DurableInv'
<1> SUFFICES ASSUME DurableInv, [DurableNext]_dvars PROVE DurableInv'
  OBVIOUS
<1>0. IInv /\ DiskInv /\ AnsweredIsDurable /\ TypeOK /\ file \in Content
  BY DEF DurableInv, IInv, CallsInv, TypeOK
<1>1. ASSUME NEW w \in Writers, Elsewhere(w) PROVE DurableInv'
  <2>1. /\ [Next]_vars /\ file' = file
        /\ \A v \in Writers : At(v, "syncdir") => pc'[v] = "syncdir"
    BY <1>1, ElsewhereKeeps
  <2>2. IInv'
    BY <1>0, <2>1, StepIInv
  <2>3. UNCHANGED <<onDisk, overdue>>
    BY <1>1 DEF Elsewhere
  <2>4. DiskInv'
    BY <1>0, <2>1, <2>3 DEF DiskInv, NeverTornOnDisk, InOrder
  <2>5. AnsweredIsDurable'
    BY <1>0, <2>1, <2>3 DEF AnsweredIsDurable, At
  <2> QED
    BY <2>2, <2>4, <2>5 DEF DurableInv
<1>2. ASSUME NEW w \in Writers, RenameOnDisk(w) PROVE DurableInv'
  <2>1. Rename(w) /\ [Next]_vars
    BY <1>2 DEF RenameOnDisk, Next
  <2>2. IInv' /\ InOrder(file')
    BY <1>0, <2>1, StepIInv, StepKeepsOrder DEF DiskInv
  <2>3. file' \in Content
    BY <2>2 DEF IInv, CallsInv, TypeOK
  <2>4. temp[w] = "synced" /\ file' = TempContent(w)
    BY <1>0, <2>1 DEF Rename, At, IInv, CallsInv, TempInv
  <2>5. onDisk' = onDisk \union {file'} /\ overdue' = overdue
    BY <1>2, <2>4 DEF RenameOnDisk
  <2>6. DiskInv'
    BY <1>0, <2>2, <2>3, <2>5 DEF DiskInv, NeverTornOnDisk
  <2>7. pc'[w] = "syncdir"
    BY <1>0, <2>1 DEF Rename, Goto, TypeOK
  <2>8. AnsweredIsDurable'
    BY <2>7 DEF AnsweredIsDurable, At
  <2> QED
    BY <2>2, <2>6, <2>8 DEF DurableInv
<1>3. ASSUME NEW w \in Writers, SyncDirOnDisk(w) \/ SyncDirFails(w) PROVE DurableInv'
  <2>1. [Next]_vars /\ file' = file
    BY <1>3 DEF SyncDirOnDisk, SyncDirFails, SyncDir, Next, Progress
  <2>2. IInv'
    BY <1>0, <2>1, StepIInv
  <2>3. \/ onDisk' = {file} /\ overdue' = FALSE
        \/ onDisk' = onDisk /\ overdue' = TRUE
    BY <1>3 DEF SyncDirOnDisk, SyncDirFails
  <2>4. DiskInv' /\ AnsweredIsDurable'
    BY <1>0, <2>1, <2>3 DEF DiskInv, NeverTornOnDisk, InOrder, AnsweredIsDurable
  <2> QED
    BY <2>2, <2>4 DEF DurableInv
<1>4. CASE ProcessCrash
  <2>1. [Next]_vars /\ file' = file /\ onDisk' = onDisk
    BY <1>4 DEF ProcessCrash, Crash, Next
  <2>2. IInv'
    BY <1>0, <2>1, StepIInv
  <2>3. overdue' \in BOOLEAN /\ (~overdue' =>
            ~overdue /\ \A w \in Writers : ~At(w, "syncdir"))
    BY <1>0, <1>4 DEF ProcessCrash, DiskInv
  <2>4. DiskInv' /\ AnsweredIsDurable'
    BY <1>0, <2>1, <2>3 DEF DiskInv, NeverTornOnDisk, InOrder, AnsweredIsDurable
  <2> QED
    BY <2>2, <2>4 DEF DurableInv
<1>5. CASE PowerLoss
  <2>1. file' \in Content /\ InOrder(file')
    BY <1>0, <1>5 DEF PowerLoss, DiskInv, NeverTornOnDisk
  <2>2. TypeOK'
    BY <1>0, <1>5, <2>1, MaxAttemptsAssumption
    DEF PowerLoss, TypeOK, Content, Steps, Locked, Attempting, Results
  <2>3. LockInv' /\ CallInv' /\ ReadInv' /\ TempInv' /\ BackupInv' /\ FreshInv'
    BY <1>5, WritersAssumption
    DEF PowerLoss, LockInv, CallInv, ReadInv, PastRead, TempInv, BackupInv, FreshInv,
        Locked, Attempting
  <2>4. IInv'
    BY <2>2, <2>3 DEF IInv, CallsInv
  <2>5. DiskInv' /\ AnsweredIsDurable'
    BY <1>5, <2>1 DEF PowerLoss, DiskInv, NeverTornOnDisk, AnsweredIsDurable
  <2> QED
    BY <2>4, <2>5 DEF DurableInv
<1>6. CASE UNCHANGED dvars
  <2>1. [Next]_vars /\ UNCHANGED <<file, pc, onDisk, overdue>>
    BY <1>6 DEF dvars, vars
  <2>2. IInv'
    BY <1>0, <2>1, StepIInv
  <2> QED
    BY <1>0, <2>1, <2>2
    DEF DurableInv, DiskInv, NeverTornOnDisk, InOrder, AnsweredIsDurable, At
<1> QED
  BY <1>1, <1>2, <1>3, <1>4, <1>5, <1>6 DEF DurableNext

\* The invariant holds in every reachable state.
LEMMA DurableInvariance == DurableSpec => []DurableInv
  BY DurableInitInv, DurableStepInv, PTL DEF DurableSpec

-----------------------------------------------------------------------------
\* Types, across any number of power losses.
THEOREM DurableTypeCorrect == DurableSpec => []DurableTypeOK
<1>1. DurableInv => DurableTypeOK
  BY DEF DurableInv, IInv, CallsInv, DiskInv, DurableTypeOK
<1> QED
  BY DurableInvariance, <1>1, PTL

\* Whenever the power goes, Authelia finds a file it can load.
THEOREM PowerLossIsHarmless == DurableSpec => []NeverTornOnDisk
<1>1. DurableInv => NeverTornOnDisk
  BY DEF DurableInv, DiskInv
<1> QED
  BY DurableInvariance, <1>1, PTL

\* Between calls the disk holds what the portal reads, unless a sync of the
\* directory failed unnoticed.
THEOREM AnswersAreDurable == DurableSpec => []AnsweredIsDurable
<1>1. DurableInv => AnsweredIsDurable
  BY DEF DurableInv
<1> QED
  BY DurableInvariance, <1>1, PTL
=============================================================================
