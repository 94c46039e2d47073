---------------------------- MODULE DurableStore ----------------------------
(***************************************************************************)
(* UserStore on a disk that may lose power.  What the file system has      *)
(* written back by itself is never known: a rename reaches the disk at any *)
(* time, and surely only when the directory is synced; the data of a file  *)
(* that was not synced may be missing from it.                             *)
(***************************************************************************)
EXTENDS UserStore

\* Authelia was running on the file before the power went.
ASSUME LoadedAssumption == \A c \in InitFiles : InOrder(c)

VARIABLES
    onDisk,        \* what the users file may turn out to be after a power loss
    overdue        \* history: the last rename was not followed by a sync of
                   \* the directory before its call went on or died

dvars == <<vars, onDisk, overdue>>

DurableTypeOK ==
    /\ TypeOK
    /\ onDisk \in SUBSET Content
    /\ overdue \in BOOLEAN

DurableInit ==
    /\ Init
    /\ onDisk = {file}
    /\ overdue = FALSE

-----------------------------------------------------------------------------
\* Steps that leave the users file and its directory alone.  The backup is
\* not among what is asked about, and is never synced.
Elsewhere(w) ==
    /\ \/ Call(w)
       \/ Acquire(w)
       \/ Progress(w) /\ ~At(w, "syncdir")
       \/ Fault(w)
    /\ UNCHANGED <<onDisk, overdue>>

\* The new name points to data that is on the disk if it was synced.
RenameOnDisk(w) ==
    /\ Rename(w)
    /\ onDisk' = onDisk \union
                    {IF temp[w] = "synced" THEN TempContent(w) ELSE Unreadable}
    /\ UNCHANGED overdue

\* Faulty variant: the directory is not synced.
SyncDirOnDiskLeftOut(w) ==
    /\ SyncDir(w)
    /\ overdue' = FALSE
    /\ UNCHANGED onDisk

SyncDirOnDisk(w) ==
    /\ SyncDir(w)
    /\ onDisk' = {file}
    /\ overdue' = FALSE

\* The directory cannot be opened or synced; mutateOnce goes on all the same.
SyncDirFails(w) ==
    /\ SyncDir(w)
    /\ overdue' = TRUE
    /\ UNCHANGED onDisk

ProcessCrash ==
    /\ Crash
    /\ overdue' = (overdue \/ \E w \in Writers : At(w, "syncdir"))
    /\ UNCHANGED onDisk

\* The machine loses power and starts again.  What is found is durable from
\* then on; of an unsynced backup and of leftovers anything may be found.
PowerLoss ==
    /\ file' \in onDisk
    /\ onDisk' = {file'}
    /\ overdue' = FALSE
    /\ bak' \in {bak, Unreadable}
    /\ stale' \in BOOLEAN
    /\ lock' = NoWriter
    /\ pc' = [w \in Writers |-> "idle"]
    /\ op' = [w \in Writers |-> NoRequest]
    /\ res' = [w \in Writers |-> "none"]
    /\ snap' = [w \in Writers |-> NoFile]
    /\ temp' = [w \in Writers |-> "none"]
    /\ attempt' = [w \in Writers |-> 0]

DurableNext ==
    \/ \E w \in Writers : Elsewhere(w) \/ RenameOnDisk(w) \/ SyncDirOnDisk(w)
                          \/ SyncDirFails(w)
    \/ ProcessCrash
    \/ PowerLoss

DurableSpec == DurableInit /\ [][DurableNext]_dvars

-----------------------------------------------------------------------------
\* No power loss, whenever it comes, leaves Authelia a users file it cannot
\* load: the data is synced before the name points to it.
NeverTornOnDisk == \A c \in onDisk : InOrder(c)

\* An invite or a removal the caller was told is done survives a power loss,
\* unless the sync of the directory failed without anybody being told: between
\* calls the disk holds what the portal reads.
AnsweredIsDurable ==
    (~overdue /\ \A w \in Writers : ~At(w, "syncdir")) => onDisk = {file}
=============================================================================
