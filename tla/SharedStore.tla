---------------------------- MODULE SharedStore -----------------------------
(***************************************************************************)
(* UserStore with the other writer of the file.  When a user completes a   *)
(* password reset, Authelia saves its own copy of the users over the file, *)
(* in place and without the portal's lock: the file is truncated, then     *)
(* grows, then is whole.  Authelia keeps writing to the inode it opened,   *)
(* even after the portal has renamed another one over it.  The portal's    *)
(* rename makes it read the file again, some time later.                   *)
(***************************************************************************)
EXTENDS UserStore

\* Authelia is running: it has loaded the file, and it loads none in which two
\* entries share a name or an address.
ASSUME LoadedAssumption == \A c \in InitFiles : InOrder(c)

VARIABLES
    mem,           \* the users Authelia has in memory
    saving,        \* Authelia is in the middle of writing the file
    linked,        \* ... and the inode it writes to is still the users file
    notified,      \* Authelia has yet to react to a rename
    touched        \* history: Authelia wrote the file since the last Reread

autheliaVars == <<mem, saving, linked, notified>>
svars == <<vars, autheliaVars, touched>>

SharedTypeOK ==
    /\ TypeOK
    /\ mem \in Content \ {Unreadable}
    /\ saving \in BOOLEAN
    /\ linked \in BOOLEAN
    /\ notified \in BOOLEAN
    /\ touched \in BOOLEAN

SharedInit ==
    /\ Init
    /\ mem = file
    /\ saving = FALSE
    /\ linked = FALSE
    /\ notified = FALSE
    /\ touched = FALSE

-----------------------------------------------------------------------------
\* The portal's steps, as Authelia sees them.

PortalQuiet(w) ==
    /\ Call(w) \/ Progress(w) \/ Disturbed(w) \/ Fault(w)
    /\ touched' = (touched /\ ~(At(w, "reread") /\ pc'[w] = "backup"))
    /\ UNCHANGED autheliaVars

PortalAcquire(w) == Acquire(w) /\ UNCHANGED <<autheliaVars, touched>>

\* The rename unlinks the inode Authelia may be writing to, and is the Create
\* event its watcher waits for.
PortalRename(w) ==
    /\ Rename(w)
    /\ linked' = FALSE
    /\ notified' = TRUE
    /\ UNCHANGED <<mem, saving, touched>>

PortalCrash == Crash /\ UNCHANGED <<autheliaVars, touched>>

-----------------------------------------------------------------------------
\* Authelia, as the comments of userstore.go describe it.

\* A user sets a new password; the file is opened and truncated.
ResetPassword ==
    /\ ~saving
    /\ \E i \in DOMAIN mem, d \in Digests :
          /\ mem[i].pw # d
          /\ mem' = [mem EXCEPT ![i].pw = d]
    /\ saving' = TRUE
    /\ linked' = TRUE
    /\ file' = Unreadable
    /\ touched' = TRUE
    /\ UNCHANGED <<bak, lock, stale, pc, callVars, attemptVars, notified>>

\* Some of the entries have reached the file, which may parse already.
WritePart ==
    /\ saving /\ linked
    /\ \E part \in Prefixes(mem) \ {mem} :
          /\ file # Unreadable => IsStrictPrefix(file, part)
          /\ file' = part
    /\ touched' = TRUE
    /\ UNCHANGED <<bak, lock, stale, pc, callVars, attemptVars, autheliaVars>>

FinishSave ==
    /\ saving
    /\ saving' = FALSE
    /\ linked' = FALSE
    /\ IF linked THEN file' = mem /\ touched' = TRUE
                 ELSE UNCHANGED <<file, touched>>
    /\ UNCHANGED <<bak, lock, stale, pc, callVars, attemptVars, mem, notified>>

\* The watcher reads the file again; one it cannot use is ignored.
Reload ==
    /\ notified /\ ~saving
    /\ notified' = FALSE
    /\ mem' = IF InOrder(file) THEN file ELSE mem
    /\ UNCHANGED <<vars, saving, linked, touched>>

Authelia == ResetPassword \/ WritePart \/ FinishSave \/ Reload

SharedNext ==
    \/ \E w \in Writers : PortalQuiet(w) \/ PortalAcquire(w) \/ PortalRename(w)
    \/ PortalCrash
    \/ Authelia

\* As in UserStore; nothing is asked of Authelia, whose writes may go on for
\* ever: a call returns because its attempts run out.
SharedFairness ==
    \A w \in Writers :
        /\ WF_svars((Progress(w) \/ Disturbed(w)) /\ PortalQuiet(w))
        /\ WF_svars(PortalRename(w))
        /\ SF_svars(PortalAcquire(w))

SharedSpec == SharedInit /\ [][SharedNext]_svars /\ SharedFairness

-----------------------------------------------------------------------------
PastReread == {"backup", "fill", "create", "write", "sync", "rename"}

\* The window the comment on mutate (userstore.go:216-222) leaves open is the
\* only one: unless Authelia writes after the last read, the attempt is still
\* based on what the file holds, up to and including the rename.
CommitOnFresh ==
    \A w \in Writers :
        (pc[w] \in PastReread /\ ~touched) => snap[w] = file

Renames(w) == At(w, "rename") /\ pc'[w] = "syncdir"

\* Outside that window, a rename loses nobody and nobody's password: only
\* the user to delete goes, and everybody else keeps all the fields the
\* portal does not edit, the user whose groups change included.
NobodyLost ==
    [][\A w \in Writers : (Renames(w) /\ ~touched /\ file # Unreadable) =>
          \A n \in Names(file) :
              \/ /\ op[w].kind = "delete"
                 /\ op[w].user.name = n
              \/ /\ n \in Names(file')
                 /\ Snapshot(file')[n].pw = Snapshot(file)[n].pw]_svars

\* The file is out of order only while Authelia is writing it: no step, no
\* failure and no crash of the portal leaves a file that cannot be loaded.
TornIsTransient == ~InOrder(file) => saving /\ linked

\* What README.md:168-170 promises of the window: the backup covers recovery,
\* so the version a rename replaces is in the backup.
BackupCoversWindow == [][\A w \in Writers : Renames(w) => bak = file]_svars
=============================================================================
