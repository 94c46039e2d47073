----------------------------- MODULE UserStore ------------------------------
(***************************************************************************)
(* userstore.Store.mutate, system call by system call.  Writers are the    *)
(* goroutines of the portal's HTTP handlers; they share the users file,    *)
(* its backup, the temporary files of the directory and the flock on       *)
(* .portal.lock, and any system call may fail.  The process may die at any *)
(* point and start again: its goroutines and the lock they held are gone,  *)
(* the files stay.  Nobody else writes the file here (see SharedStore).    *)
(***************************************************************************)
EXTENDS UserFile

CONSTANTS
    Writers,
    Requests,      \* the requests the writers may make
    MaxAttempts,   \* const attempts in mutate
    InitFiles,     \* the contents the file may have when the portal starts
    NoWriter,
    NoRequest,
    NoFile         \* the backup before the first mutation; no snapshot

ASSUME WritersAssumption == NoWriter \notin Writers
ASSUME RequestsAssumption == Requests \subseteq Request /\ NoRequest \notin Requests
ASSUME MaxAttemptsAssumption == MaxAttempts \in Nat \ {0}
ASSUME InitFilesAssumption == InitFiles \subseteq Content
ASSUME NoFileAssumption == NoFile \notin Content

VARIABLES
    file,          \* users_database.yml
    bak,           \* users_database.yml.bak
    lock,          \* the writer holding the flock
    stale,         \* temporary files whose writer is gone exist
    pc,            \* the next step of each writer's call
    op,            \* the request of the call
    res,           \* what the call returns
    snap,          \* original: the content the attempt read
    temp,          \* the attempt's temporary file
    attempt        \* attempts made before this one

storeVars == <<file, bak, stale>>
callVars == <<op, res>>
attemptVars == <<snap, temp, attempt>>
vars == <<file, bak, lock, stale, pc, op, res, snap, temp, attempt>>

\* The steps taken with the flock held, in the order of the code.
Attempting == {"read", "reread", "backup", "fill", "create", "write", "sync",
               "rename"}
Locked == Attempting \union {"sweep", "syncdir", "unlock"}
Steps == Locked \union {"idle", "start", "return"}

Results == {"none", "pending", "ok", "duplicate", "notfound", "error"}

TypeOK ==
    /\ file \in Content
    /\ bak \in Content \union {NoFile}
    /\ lock \in Writers \union {NoWriter}
    /\ stale \in BOOLEAN
    /\ pc \in [Writers -> Steps]
    /\ op \in [Writers -> Requests \union {NoRequest}]
    /\ res \in [Writers -> Results]
    /\ snap \in [Writers -> Content \union {NoFile}]
    /\ temp \in [Writers -> {"none", "empty", "written", "synced"}]
    /\ attempt \in [Writers -> 0..(MaxAttempts - 1)]

Init ==
    /\ file \in InitFiles
    /\ bak = NoFile
    /\ lock = NoWriter
    /\ stale \in BOOLEAN
    /\ pc = [w \in Writers |-> "idle"]
    /\ op = [w \in Writers |-> NoRequest]
    /\ res = [w \in Writers |-> "none"]
    /\ snap = [w \in Writers |-> NoFile]
    /\ temp = [w \in Writers |-> "none"]
    /\ attempt = [w \in Writers |-> 0]

Goto(w, step) == pc' = [pc EXCEPT ![w] = step]

\* w is about to take the given step of its call.
At(w, step) == pc[w] = step

-----------------------------------------------------------------------------
\* Before and after the attempts.

Call(w) ==
    /\ At(w, "idle")
    /\ Goto(w, "start")
    /\ \E r \in Requests : op' = [op EXCEPT ![w] = r]
    /\ res' = [res EXCEPT ![w] = "pending"]
    /\ UNCHANGED <<storeVars, lock, attemptVars>>

\* Add looks at the username before it takes the lock.
InvalidName(w) == op[w].kind = "add" /\ op[w].user.name \notin ValidNames

\* The call ends before the lock is taken: the username is not valid ...
RefuseEarly(w) ==
    /\ At(w, "start")
    /\ Goto(w, "return")
    /\ res' = [res EXCEPT ![w] = "error"]
    /\ UNCHANGED <<storeVars, lock, op, attemptVars>>

RefuseName(w) == RefuseEarly(w) /\ InvalidName(w)

\* ... or the lock file cannot be opened or locked.
FailLock(w) == RefuseEarly(w) /\ ~InvalidName(w)

\* Faulty variant: the file is locked for reading (LOCK_SH).
AcquireShared(w) ==
    /\ At(w, "start")
    /\ ~InvalidName(w)
    /\ lock' = w
    /\ Goto(w, "sweep")
    /\ UNCHANGED <<storeVars, callVars, attemptVars>>

\* flock(LOCK_EX) blocks until no other descriptor holds the lock.
Acquire(w) ==
    /\ At(w, "start")
    /\ ~InvalidName(w)
    /\ lock = NoWriter
    /\ lock' = w
    /\ Goto(w, "sweep")
    /\ UNCHANGED <<storeVars, callVars, attemptVars>>

\* sweepStaleTemps removes every temporary file it finds, whoever made it.
Sweep(w) ==
    /\ At(w, "sweep")
    /\ stale' = FALSE
    /\ temp' = [v \in Writers |-> "none"]
    /\ Goto(w, "read")
    /\ UNCHANGED <<file, bak, lock, callVars, snap, attempt>>

\* The sweep is best effort: its errors are ignored.
SkipSweep(w) ==
    /\ At(w, "sweep")
    /\ Goto(w, "read")
    /\ UNCHANGED <<storeVars, lock, callVars, attemptVars>>

\* Faulty variant: the lock file is never closed.
UnlockForgotten(w) ==
    /\ At(w, "unlock")
    /\ Goto(w, "return")
    /\ UNCHANGED <<storeVars, lock, callVars, attemptVars>>

Unlock(w) ==
    /\ At(w, "unlock")
    /\ lock' = NoWriter
    /\ Goto(w, "return")
    /\ UNCHANGED <<storeVars, callVars, attemptVars>>

Return(w) ==
    /\ At(w, "return")
    /\ Goto(w, "idle")
    /\ op' = [op EXCEPT ![w] = NoRequest]
    /\ res' = [res EXCEPT ![w] = "none"]
    /\ UNCHANGED <<storeVars, lock, attemptVars>>

-----------------------------------------------------------------------------
\* mutateOnce.

\* The attempt ends and mutate returns r.  The deferred os.Remove of the
\* temporary file, where there is one, may fail and leave it behind.
Finish(w, r) ==
    /\ Goto(w, "unlock")
    /\ res' = [res EXCEPT ![w] = r]
    /\ snap' = [snap EXCEPT ![w] = NoFile]
    /\ attempt' = [attempt EXCEPT ![w] = 0]
    /\ temp' = [temp EXCEPT ![w] = "none"]
    /\ stale' \in IF temp[w] = "none" THEN {stale} ELSE {stale, TRUE}

\* What an attempt that cannot go on answers for a file with content c.
Refusal(r, c) ==
    IF c = Unreadable \/ Editable(r, c) THEN "error"
    ELSE IF r.kind = "add" THEN "duplicate" ELSE "notfound"

\* Read the file, apply the edit in memory, check the output.
ReadAndEdit(w) ==
    /\ At(w, "read")
    /\ Accepted(op[w], file)
    /\ snap' = [snap EXCEPT ![w] = file]
    /\ Goto(w, "reread")
    /\ UNCHANGED <<storeVars, lock, callVars, temp, attempt>>

ReadAndRefuse(w) ==
    /\ At(w, "read")
    /\ ~Accepted(op[w], file)
    /\ Finish(w, Refusal(op[w], file))
    /\ UNCHANGED <<file, bak, lock, op>>

\* Faulty variant: the file is not read again.
RereadSkipped(w) ==
    /\ At(w, "reread")
    /\ Goto(w, "backup")
    /\ UNCHANGED <<storeVars, lock, callVars, attemptVars>>

\* The file still holds what the attempt was computed from.
Reread(w) ==
    /\ At(w, "reread")
    /\ file = snap[w]
    /\ Goto(w, "backup")
    /\ UNCHANGED <<storeVars, lock, callVars, attemptVars>>

\* Faulty variant: one attempt too many.
RetryOnceMore(w) ==
    /\ At(w, "reread")
    /\ file # snap[w]
    /\ attempt[w] < MaxAttempts
    /\ attempt' = [attempt EXCEPT ![w] = @ + 1]
    /\ snap' = [snap EXCEPT ![w] = NoFile]
    /\ Goto(w, "read")
    /\ UNCHANGED <<storeVars, lock, callVars, temp>>

\* Faulty variant: the attempts are never counted.
RetryForever(w) ==
    /\ At(w, "reread")
    /\ file # snap[w]
    /\ snap' = [snap EXCEPT ![w] = NoFile]
    /\ Goto(w, "read")
    /\ UNCHANGED <<storeVars, lock, callVars, temp, attempt>>

\* Somebody wrote the file meanwhile: the next attempt starts from scratch.
Retry(w) ==
    /\ At(w, "reread")
    /\ file # snap[w]
    /\ attempt[w] + 1 < MaxAttempts
    /\ attempt' = [attempt EXCEPT ![w] = @ + 1]
    /\ snap' = [snap EXCEPT ![w] = NoFile]
    /\ Goto(w, "read")
    /\ UNCHANGED <<storeVars, lock, callVars, temp>>

GiveUp(w) ==
    /\ At(w, "reread")
    /\ file # snap[w]
    /\ attempt[w] + 1 >= MaxAttempts
    /\ Finish(w, "error")
    /\ UNCHANGED <<file, bak, lock, op>>

\* os.WriteFile of the backup truncates it first and fills it after.
OpenBackup(w) ==
    /\ At(w, "backup")
    /\ bak' = Unreadable
    /\ Goto(w, "fill")
    /\ UNCHANGED <<file, stale, lock, callVars, attemptVars>>

\* Faulty variant: the backup gets the new content.
FillBackupWithOutput(w) ==
    /\ At(w, "fill")
    /\ bak' = Edited(op[w], snap[w])
    /\ Goto(w, "create")
    /\ UNCHANGED <<file, stale, lock, callVars, attemptVars>>

FillBackup(w) ==
    /\ At(w, "fill")
    /\ bak' = snap[w]
    /\ Goto(w, "create")
    /\ UNCHANGED <<file, stale, lock, callVars, attemptVars>>

SetTemp(w, t) == temp' = [temp EXCEPT ![w] = t]

CreateTemp(w) ==
    /\ At(w, "create")
    /\ SetTemp(w, "empty")
    /\ Goto(w, "write")
    /\ UNCHANGED <<storeVars, lock, callVars, snap, attempt>>

\* Faulty variant: a write that stopped half way goes unnoticed.
WriteTempShort(w) ==
    /\ At(w, "write")
    /\ SetTemp(w, "short")
    /\ Goto(w, "sync")
    /\ UNCHANGED <<storeVars, lock, callVars, snap, attempt>>

WriteTemp(w) ==
    /\ At(w, "write")
    /\ SetTemp(w, IF temp[w] = "none" THEN "none" ELSE "written")
    /\ Goto(w, "sync")
    /\ UNCHANGED <<storeVars, lock, callVars, snap, attempt>>

\* Faulty variant: the file is not synced before it is renamed.
SyncTempLeftOut(w) ==
    /\ At(w, "sync")
    /\ Goto(w, "rename")
    /\ UNCHANGED <<storeVars, lock, callVars, attemptVars>>

SyncTemp(w) ==
    /\ At(w, "sync")
    /\ SetTemp(w, IF temp[w] = "written" THEN "synced" ELSE temp[w])
    /\ Goto(w, "rename")
    /\ UNCHANGED <<storeVars, lock, callVars, snap, attempt>>

\* What w's temporary file holds.
TempContent(w) ==
    IF temp[w] \in {"written", "synced"} THEN Edited(op[w], snap[w])
                                         ELSE Unreadable

\* Atomic replace: the temporary file takes the users file's name.
Rename(w) ==
    /\ At(w, "rename")
    /\ temp[w] # "none"
    /\ file' = TempContent(w)
    /\ SetTemp(w, "none")
    /\ res' = [res EXCEPT ![w] = "ok"]
    /\ Goto(w, "syncdir")
    /\ UNCHANGED <<bak, stale, lock, op, snap, attempt>>

\* Faulty variant: an error of the directory's sync is returned.
SyncDirReported(w) ==
    /\ At(w, "syncdir")
    /\ \E r \in {"ok", "error"} : Finish(w, r)
    /\ UNCHANGED <<file, bak, lock, op>>

\* The directory is synced, or that fails and nobody is told.
SyncDir(w) ==
    /\ At(w, "syncdir")
    /\ Finish(w, "ok")
    /\ UNCHANGED <<file, bak, lock, op>>

\* A system call of the attempt fails (a rename of a file that is gone must).
IOError(w) ==
    /\ pc[w] \in Attempting
    /\ Finish(w, "error")
    /\ UNCHANGED <<file, bak, lock, op>>

-----------------------------------------------------------------------------
\* The process dies and starts again.
Crash ==
    /\ stale' = (stale \/ \E w \in Writers : temp[w] # "none")
    /\ lock' = NoWriter
    /\ pc' = [w \in Writers |-> "idle"]
    /\ op' = [w \in Writers |-> NoRequest]
    /\ res' = [w \in Writers |-> "none"]
    /\ snap' = [w \in Writers |-> NoFile]
    /\ temp' = [w \in Writers |-> "none"]
    /\ attempt' = [w \in Writers |-> 0]
    /\ UNCHANGED <<file, bak>>

\* The steps a call goes through by itself once it has what it waits for.
Progress(w) ==
    \/ RefuseName(w) \/ Sweep(w)
    \/ ReadAndEdit(w) \/ ReadAndRefuse(w)
    \/ Reread(w) \/ OpenBackup(w) \/ FillBackup(w)
    \/ CreateTemp(w) \/ WriteTemp(w) \/ SyncTemp(w)
    \/ SyncDir(w) \/ Unlock(w) \/ Return(w)

\* Its steps when somebody else has written the file, which is nobody's doing
\* in this module: SharedStore has the other writer, and takes them.
Disturbed(w) == Retry(w) \/ GiveUp(w)

\* The steps that something around the portal makes happen.
Fault(w) == FailLock(w) \/ SkipSweep(w) \/ IOError(w)

Next ==
    \/ \E w \in Writers : Call(w) \/ Acquire(w) \/ Progress(w) \/ Rename(w)
                         \/ Fault(w)
    \/ Crash

Spec == Init /\ [][Next]_vars

\* A goroutine that can run does, faults are never due, and the kernel hands
\* the flock to every waiter in the end.
Fairness ==
    \A w \in Writers :
        /\ WF_vars(Progress(w))
        /\ WF_vars(Rename(w))
        /\ SF_vars(Acquire(w))

LiveSpec == Spec /\ Fairness

-----------------------------------------------------------------------------
\* Every call is atomic: the steps of the calls, whatever fails or crashes in
\* between, are the steps of AtomicStore.  The commit is the rename.
Atomic == INSTANCE AtomicStore WITH db <- file, req <- op

ImplementsAtomicStore == Atomic!Spec

\* Authelia never finds two accounts it cannot tell apart, nor a file it
\* cannot load, that the portal made: no step breaks a file that is in order.
InOrder(c) == c # Unreadable /\ UniqueIdentities(c)

KeepsFileInOrder == [][InOrder(file) => InOrder(file')]_vars

\* Whenever the portal replaces the file, the backup holds what it replaces,
\* so a bad change can be undone by hand (userstore.go:16, README.md:48).
BackupIsPrevious == [][file' # file => bak = file]_vars

\* Every call returns: whoever waits for the flock gets it, whatever fails.
CallReturns ==
    \A w \in Writers : res[w] = "pending" ~> res[w] # "pending"

\* The sweep for leftovers never takes a running attempt's temporary file,
\* although it cannot tell the two apart: the flock keeps them apart.
SweepSparesLive ==
    \A w \in Writers :
        pc[w] \in {"write", "sync", "rename"} => temp[w] # "none"
=============================================================================
