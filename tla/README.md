# A TLA+ model of vps-user-portal

The portal edits the users file of Authelia (YAML, shared with Authelia itself)
and keeps the accounts of connected apps, here Planka, in step with it. This
directory models that as TLA+ modules, checks them with TLC on small instances,
and proves the central properties with TLAPS for instances of any size. Line
numbers are those of the repository; `README.md` with a line number is the
repository's own.

## Inventory

| Component | State it keeps | Operations | Hard behaviour | What makes it correct |
|---|---|---|---|---|
| User store, edits (`internal/userstore/userstore.go` 78-207, 360-528) | the parsed users file | Add, SetGroups, Delete, List, Get; the check of the own output | repeated keys, case-folded twins, an encoder that gets something wrong | identities stay unique; an accepted output changes nobody else |
| User store, `mutate` (223-358) | users file, `.bak`, temporary files, flock | one call per mutation, up to 4 attempts | two handlers at once, Authelia writing without a lock, any system call failing, process death, power loss | a call happens wholly or not at all and answers truthfully; the backup is what was replaced; the file can always be loaded; every call returns |
| Handlers (`internal/server/server.go` 272-503) | what each request has done so far | invite (a form of several users), change of groups, removal | store, app and mail are changed one after the other with no transaction; requests about one person interleave; sign-ins meanwhile | a request that ends without a warning leaves store and app in agreement, sessions older than the change aside; every stored change is audited |
| Gate, CSRF tokens and the forms on the pages (`server.go` 123-181, 400-442, 509-521, `csrf.go`, `templates.go`) | none; the open pages hold it | open a page, post its form | hours between the two: admins change, other forms are posted, the portal is restarted with other settings | a form works for its own admin for its whole time and for nobody else; nobody is invited without a group that is offered now |
| Planka provisioner (`internal/provision/planka/planka.go`) | rows of `user_account`, in Planka's database | Check, Provision, Sync, Deprovision, Status | lost answers, check-then-insert, a changed schema or grant | the row's role and `is_deactivated` follow the groups; Check passes exactly the databases that the statements work on |
| Registry and configuration (`provision.go` 81-155, `config.go`) | read at start | Load | an entry that is wrong in one of several ways, an entry without a name | nothing half-configured serves; provisioners have different names |
| Checks and `/healthz` (`server.go` 48-79, 185-198, `main.go`) | `checkErr` | fail-fast start, a round of checks every 5 minutes, `/healthz` | drift between rounds and within one, several apps, crash loops | green only after a clean round; lasting drift turns it red; it recovers by itself |
| Audit log and ntfy, welcome mail | none | one call each | failures; a backend that sends nothing | every stored change is logged; the page tells the truth about mails |
| Throwaway password hash | none | one call | - | not modelled |

Interaction: a handler calls the store (which blocks on the flock), then the
provisioner, then the mailer, then the audit log, all in its own goroutine.
Handlers share only the files on disk and Planka's database. Authelia reads the
users file after each rename (fsnotify) and writes it, in place and unlocked,
when somebody resets a password. `CheckLoop` is the only other goroutine that
keeps state (`checkErr`, under a mutex).

## Modules

| Module | What it is |
|---|---|
| `UserFile` | operators: the file as a sequence of entries, the three edits, the snapshot and `verify` |
| `OutputCheck` | the re-parse and `verify` of mutateOnce against an encoder with one fault of any kind |
| `AtomicStore` | abstract specification: what the store promises a caller |
| `UserStore` | `mutate` and `mutateOnce`, one action per system call; shown to implement `AtomicStore` |
| `SharedStore` | `UserStore` composed with Authelia, the writer that takes no lock |
| `DurableStore` | `UserStore` on a disk that loses power |
| `Planka` | operators: what the provisioner's statements do to `user_account` |
| `Portal` | the three POST handlers over the store (atomic, as proved), Planka and the mailer, several requests at a time |
| `Forms` | pages, tokens and the forms posted from them, over time, people, restarts |
| `Registry` | operators: what config.Load, provision.Load and newFromConfig accept and return |
| `PlankaCheck` | operators: the two queries of Check, and what the statements need of a database |
| `Health` | start-up gate, rounds of checks, restarts, `/healthz`, over `Registry` and `PlankaCheck` |
| `UserFileProofs` | lemmas about the edits and the check, for files of any length |
| `OutputCheckProofs`, `UserStoreProofs`, `SharedStoreProofs`, `DurableStoreProofs`, `PortalProofs`, `HealthProofs`, `FormsProofs` | the theorems about the module of that name, checked by TLAPS |
| `MCUsers`, `MC...` | values of the constants for TLC |

Definitions introduced by "Faulty variant" are not part of any specification.
Each is an operation as a plausible bug would make it, kept beside the right
one; replacing the one by the other breaks the property that guards it
(`PROJECT.json`, "mutants").

### How the state corresponds to the code

`UserFile`. A readable file is the sequence of its entries in file order.
Whatever `parseBytes`, `usersMap` or `snapshot` refuses (empty, cut off, several
documents, no `users` mapping) is the one content `Unreadable`. An entry keeps
name, email, groups, and `pw` for every field the portal must carry over (digest,
display name, unknown fields). `Fold` is `strings.EqualFold`, `Lower` is
`strings.ToLower`. `FirstPosition` is the entry `findUser` and the loop of
`Delete` stop at; `LastPosition` is the one that survives in `snapshot`, where
entries are put into a Go map; the two differ for a repeated key, and the file's
check then refuses what it would otherwise half do. Comments, key order and
indentation are not modelled.

`UserStore`. Per writer (a handler's goroutine): `pc`, the request, the result,
`snap` (`original`), the temporary file and the number of the attempt; shared:
the users file, the backup, the flock holder and whether leftover temporary
files exist. `ReadAndEdit` reads the file, edits, encodes and checks the output:
these touch nothing shared after the read, so they are one step. `OpenBackup` and
`FillBackup` are the two moments of `os.WriteFile`. `Retry` and `GiveUp` need
somebody else to have written the file between the two reads: `UserStore` defines
them, its own `Next` cannot take them, and `SharedStore` does. `IOError` may end
an attempt at every system call; the deferred `os.Remove` may fail too. `SyncDir`
drops its errors as the code does. `Crash` is the death of the process: files
stay, the kernel releases the flock.

`SharedStore`. Authelia's copy of the users, its write (truncate, parts, whole)
and its reload are external, taken from the comments at `userstore.go` 1-22 and
216-222 and from `README.md` 65-66 and 168-170. It writes to the inode it opened:
after a portal rename what it still writes is lost.

`DurableStore`. `onDisk` is the set of contents the users file may turn out to
have after a power loss: a rename adds the new content (or an unreadable one, if
its data was not synced), a sync of the directory leaves only the current one.

`Portal`. A store call is one step, justified by the theorem `Refinement`; a
statement to Postgres is one step that succeeds, fails unexecuted, or fails
although executed (answer lost, request cancelled). `queue` holds the rest of an
invite form and `mailing` its box for welcome mails; `mailed` says whether a mail
left the house for the line, which depends on `Backend` (`EMAIL_BACKEND`).
`owed` and `alone` are history variables: a stored change is not audited yet;
nobody else has worked on the same person since the line began. A death of the
process clears `owed`: the log entry of a change stored before it is lost, and
no property says otherwise. The forms of a user's page may name a user who is not
in the file, as a page that is older than a removal does.
`Login` is external: Planka takes the role from the groups at sign-in
(`planka.go` 60-65), and a deactivated row is not revived by it. Who may sign in is
not who is in the file: a session at Authelia outlives a change of groups and a
removal by up to an hour (`README.md` 171-172, `server.go` 500), so `sessions` holds
everybody who ever was in the file with a group of the app, with the groups of
then, and each of them may sign in at any time (a session that has ended is one
that is not used any more). `strays` is history: whether the present row of an address
was `made`, or an existing one `changed`, by a session that the file does not
agree with, since the last statement about it. One provisioner is modelled; the
code's loop over several repeats the same step. Authelia's own writes of the file
are not in `Portal` but in `SharedStore`.

`Forms`. `pages` is what the browser windows show: the page's subject and its
token, and, kept only to state properties with, whom it was rendered for, when
and under which settings. What is posted is any set of groups, whatever boxes
the page had (`server.go` 507-508), one that was never offered among them.
Time is in instants, `Resolution` of them to a second, because tokens hold whole
seconds (`csrf.go` 27-47) and both ends of the comparison are cut off. The HMAC is
an ideal one: the tuple of what it was made of. A request is one step at the time
of its checks. `Open` is every page with a form; `Save`, `Remove`, `Invite` and
`Reshow` are the posts, and a window keeps its page after them, as a browser
does. `SetAdmins` and `Reconfigure` are what happens in the hours between.

`Registry`. `Load` is the list of provisioners or `Nothing`. A name that is not
given is the type (`provision.go` 136-138) before names are compared.

`PlankaCheck`. A database is the shape of its columns, the privileges of the
role, and what else the statements depend on (superuser, reachable, the sequence's
name, the unique index). `SchemaFits` and `GrantsFit` are the code's two queries,
`CanStatus`, `CanSync` and `CanInsert` are the reference: what the SQL of the other
methods needs. The eleven columns that are only ever inserted are one,
"preferences". `Shown` is the rule of `information_schema.columns` that a role sees
the columns it has a privilege on.

`Health`. `conf` is what there is to read at the next start and `provs` what Load
returned; `db` is the state of each app's database, and changes at any time.
`next` is the loop variable of `RunChecks`, `query` which of the two queries is
due, `tick` the channel of the ticker, which holds one tick and drops the others;
`last` is history: who complained when last asked. The process may be killed, and
docker starts it again, perhaps with another configuration.

## Runs

All constants are named in the `.cfg` files; `MCUsers`, `MCPortal` etc. define
the larger ones. Deadlock is checked in every run.

| Run | Bounds | Properties | Shows |
|---|---|---|---|
| `output_check` | every file of at most 2 entries over 2 names, 3 addresses, 1 group, 2 digests; every request; every single drop, repetition or replacement of an entry, or garbage | `TypeOK`, `VerifySound`, `VerifyComplete`, `RepeatedKeyFailsClosed` | the check accepts exactly the outputs in which nobody but the edited user is touched and that user has the email or the groups asked for, a faithful output always |
| `user_store` | 2 writers, 4 attempts, 5 requests (a collision of each kind among them), 5 initial files | `ImplementsAtomicStore`, `KeepsFileInOrder`, `BackupIsPrevious`, `SweepSparesLive`, `CallReturns` | atomicity under failures and crashes; no way out of mutate keeps the flock |
| `shared_store` | 1 writer, the code's 4 attempts, 3 requests, 2 digests | `SharedTypeOK`, `CommitOnFresh`, `NobodyLost`, `TornIsTransient`, `CallReturns` | what the second read buys, exactly which window is left, and that a call ends however often Authelia writes |
| `durable_store` | 2 writers, 3 requests | `DurableTypeOK`, `NeverTornOnDisk`, `AnsweredIsDurable` | power loss at any time |
| `portal` | 2 requests at a time (symmetric), 2 names, a form of 3 lines (one address in two spellings, one of a user who is in the file at first), with and without mails, 2 groups with a role each and one with none; sessions of everybody the file ever had | `PortalTypeOK`, `ActsOnWhatIsStored`, `QuietMeansDone`, `NoUnauditedCommit`, `LinesDistinct` | store, app, mail and log stay in step when no other request is about the same person; what an old session can undo |
| `health` | every database at most two changes away from the documented one, a second one up or down; 9 configurations: valid with 0, 1 and 2 provisioners, and six that end the start in different ways | `HealthTypeOK`, `HealthIsLastRound`, `StartsOnlyIfAllPass`, `CheckIsSound`, `NoFalseAlarm`, `DriftTurnsRed`, `RecoversByItself` | the gate, the queries and `/healthz` |
| `forms` | 2 people, 2 windows, 2 users, 3 groups of which one is never offered, 4 settings, 2 instants to a second, tokens good for 1 second, 5 instants | `FormsTypeOK`, `FreshFormsAccepted`, `OnlyOwnFreshForms`, `InvitedHaveAccess` | what a form that was open for long can still do |
| `shared_backup` | as `shared_store` | `BackupCoversWindow` is violated | finding 1 |
| `portal_reinvite`, `portal_removed` | as `portal` | `FailedProvisionSelfHeals`, `OnlyUsersAreActivated` are violated | findings 2, 3 |
| `portal_mail` | as `portal`, with the backend `none` | `MailedAsSaid` is violated | finding 4 |
| `health_schema` | as `health` | `ColumnsAsserted` is violated | finding 5 |

Why the bounds are enough. The interactions of the store are between one attempt
and one other actor: a second writer (2 writers), or Authelia (1 writer: the flock
keeps others out, which `user_store` shows and `MutualExclusion` proves). One
entry that a request is about and one bystander are needed to lose somebody, so
files of two entries are. In `Portal` every race is between two requests about
one person or one request and a sign-in, with a session of now or of before. In `Forms` two windows and two people
give a page that is posted by another than its owner while somebody else's form
changes the same user; 5 instants reach past the last at which a token of either
place within a second may live, and a second of two instants is the least in
which the cut-off matters; what the run cannot vary, TTL and resolution, the
proofs leave open. In `Health` two changes are what it takes for a second to
hide a first (a column that is not shown because no privilege is left); the
second database is only to make a round longer than one check. In `PlankaCheck`
the properties speak of one database at a time, so the theorems cover the rest.

Fairness. `LiveSpec` of `UserStore` and `SharedSpec`: a goroutine that can take its
next step does (WF), and the kernel grants a waiting `flock` in the end (SF: the
lock is taken and released by others in between); failures are never due, and
nothing is asked of Authelia, which may write for ever. `Health`: a query is
answered or fails, the ticker ticks, the loop goes on, and docker starts a
container that ended (`restart: unless-stopped`, `deploy/docker-compose.yml` 7); drift
and kills are never due, and `RecoversByItself` is about behaviours in which they
stop. The code sets no timeout on `Check`, so an answer is an assumption about
Postgres, listed among the hazards. `Portal` and `Forms` claim no liveness:
`smtp.SendMail` has no timeout, and nothing in the code bounds a handler.

## Findings

1. `BackupCoversWindow`. `README.md` 168-170 says the backup covers the race with a
   password reset. The backup is written from the content read before the
   window, so the reset that is overwritten is in neither file.
2. `FailedProvisionSelfHeals`. The page and `README.md` 124-126 say that a
   failed provisioning heals at first login. For a user who was removed and is
   invited again it does not: the deactivated row stays. A change of the groups
   in the portal (Sync) does bring it back.
3. `OnlyUsersAreActivated`. A removal can be overtaken: the handler of an invite
   or a change of groups that stored earlier reaches Planka later, and the removed
   user's row ends up active without a warning. Rows that the user's own old
   session makes or changes are not counted (`strays`): those the repository's
   README discloses.
4. `MailedAsSaid`. With `EMAIL_BACKEND=none`, the default, the invite form offers
   welcome mails and the result page says they were sent, and none is; the
   instructions that `email.go` 63 and `README.md` 141 promise on the page are
   shown nowhere.
5. `ColumnsAsserted`. `planka.go` 30-31 says that the columns the package writes are
   asserted. Check refuses a required column that is not written, never a written
   one that is missing, but for the three that `checkGrants` probes.

Seen while modelling, without a run of its own: of the edited user the check
of the output compares only the email (Add) or the groups (SetGroups), so
`AsIntended` leaves out that user's other fields, though the package comment
(`userstore.go` 13-15) and `README.md` 46-48 say that exactly the intended change
happened. A role with more privileges than documented passes `checkGrants` unless
it is a superuser, though the comment (`planka.go` 232-233) says "exactly". A group
that was given by hand and is not offered is dropped when the user's form is
saved. A user who is removed before having signed in to the app has no row that
Deprovision could touch; a session that is still alive then makes an active one, and
no page says so (`QuietMeansDone` makes this exception and no other of a removed
user). Handlers do not look at `checkErr`, so drift that is known does not keep
them from writing. Two addresses from which the same username is derived are
reported as a user that exists.

## Proofs

Every invariant and every action property that a passing run checks is a theorem
for all values of the constants: any sets of writers, requests at a time, users,
addresses, roles and forms, files of any length, any number of attempts. The
theorems bear the assumptions that the modules state about their constants, which
TLC evaluates in the runs:

- `LowerAssumption`, `FoldAssumption`: `Lower` of a lower-case address is itself, and
  an address and its lower case are one to `Fold`. That is so of `strings.ToLower` and
  `strings.EqualFold` but for a letter or two outside ASCII (U+0130, whose lower case
  folds otherwise than it does); `Emails` are the addresses without them. Add gets
  addresses in lower case from the handlers in any case.
- `LoadedAssumption` (`SharedStore`, `DurableStore`) and a part of `PortalAssumption`: the
  file that is there at the start is one Authelia loads. `UserStore` and `OutputCheck` do
  without.
- the rest say of what kind a constant is, and that a mark (`Unreadable`, `Absent`,
  `NoUser`, ...) is none of the values it marks the lack of.

**`UserFileProofs`** holds the lemmas about the edits: what `Append`, one changed
entry, and `RemoveAt` give; that an edit gives a readable file (`EditedIsReadable`) and
keeps names and addresses unique, case aside (`EditedKeepsIdentities`); which entries
the edited file has (`EditedEntries`); and that the check accepts the edit of a file with
distinct keys (`EditedIsAccepted`). `LeastExists` (a set of numbers has a least one)
stands in for induction: the least counterexample has a predecessor that is none.

**`OutputCheckProofs`**: `TypeCorrect`, `SoundVerdict` (`VerifySound`), `CompleteVerdict`
(`VerifyComplete`), `FailsClosed` (`RepeatedKeyFailsClosed`). The invariant says that the
verdict is the outcome of `Verify`. `Verify` compares the output with the file that was
read and `AsIntended` with the edited content; since the edited content passes
`Verify` too, the two come to the same (`VerifyIsAsIntended`), and the theorems are the
two directions: what is accepted is as intended, and what is as intended is accepted.
As intended means the users, all fields of those the request is not about, and of
the one it is about the email (Add), the groups (SetGroups) or the absence (Delete).
What the encoder did is used for the type of its output alone.

**`UserStoreProofs`**, about `Spec` of `UserStore`: `TypeCorrect`; `MutualExclusion` (two
writers are never both inside the lock); `SweepIsSafe` (`SweepSparesLive`);
`BackupCorrect` (`BackupIsPrevious`); `FileStaysInOrder` (`KeepsFileInOrder`);
`Refinement` (`Spec` implies `AtomicStore`'s `Spec` with the users file as `db`).

None of these is inductive by itself. The invariant is in two parts. `CallsInv` is
what holds whoever else writes the file: a writer inside the lock is the holder
(`LockInv`); a call in progress has a request, a pending result, and a valid name
once it is past the check (`CallInv`); after the first read the request is accepted
on what was read (`ReadInv`); the temporary file is what the step says (`TempInv`),
which gives the content that the rename installs; the backup is what was read, from
`FillBackup` to the rename (`BackupInv`). `FreshInv`, that what was read is still the
file, needs the lock and that nobody writes without it. `StepCallsInv` has one step
per action, those that only a foreign write enables included.
`OnlyRenameChangesFile` and `RenameEdits` then give the action properties, and
`StepRefines` maps the rename to `Commit`, the ends of attempts to `Refuse`, and every
other step to a stutter. `Refinement` restates the operators of the instance of
`AtomicStore` first (`Atomic...` lemmas), since it declares its own copy of `UserFile`.

**`SharedStoreProofs`**, about `SharedSpec`: `SharedTypeCorrect`, `OnlyAutheliaTears`
(`TornIsTransient`), `WindowIsTheOnlyOne` (`CommitOnFresh`), `RenameLosesNobody`
(`NobodyLost`). `FreshInv` does not hold here; `CallsInv` does, and `SharedInv` adds to it
what Authelia holds (`MemInv`), that the file is in order unless Authelia is writing
it (`FileInv`), and that what an attempt has read is in order (`ReadOrderInv`: the
beginning of a file in order is in order, so a read of a half-written file that
parses is no worse than a shorter file). `CommitOnFresh` is a conjunct of its own.

**`DurableStoreProofs`**, about `DurableSpec`: `DurableTypeCorrect`, `PowerLossIsHarmless`
(`NeverTornOnDisk`), `AnswersAreDurable` (`AnsweredIsDurable`). All steps but the power loss
are steps of `UserStore`, so `IInv` is used as it is; `TempInv` says that what is renamed
was synced, which is why the disk never gets a torn file.

**`PortalProofs`**, about `Spec` of `Portal`: `TypeCorrect` (`PortalTypeOK`),
`EveryCommitIsAudited` (`NoUnauditedCommit`), `AppIsToldWhatIsStored`
(`ActsOnWhatIsStored`), `NoWarningMeansDone` (`QuietMeansDone`), `NoLineTwice`
(`LinesDistinct`). The invariant `PortalInv` has three layers.

1. `HandlerInv`: what a handler knows at each step: the kind of its request, whether it
   has a user and that the user bears the request's name, that one who is about to be
   inserted has a role, and that the lines of a form are in lower case and distinct.
2. `StoredInv`, for handlers that nobody met: the file says what the handler passes on
   from the moment it knows the user (the property asks for it only later), and after a
   removal nobody has the name, nor, by `UniqueIdentities(db)`, the address. Commits of
   the others keep it because they are about another name and address
   (`CommitOfOthers`, `MeetsNobody`).
3. `RowInv`: once the app was told, the row is settled, already before the mail. A
   statement of another handler is about another row (`OnlyRowOf`, `RowsApart`). A
   sign-in is the interesting case (`LoginSettled`): a person who signs in as the file
   has them is by layer 2 either another one, or the very user the handler has
   settled; an old session leaves its mark in `strays`, and of a removed user it gets in
   only if there was no row, because a deactivated one is refused.

`ParseLoop` and `ParseProperties` are about the loop of `parseInviteLines` for a form of
any length; its function is defined by recursion, so that the first lemma shows that
there is one. `NoLineTwice` has a hypothesis: addresses that `Fold` makes one are one in
lower case. So it is for ASCII; U+017F folds with "s" and is its own lower case, and of two
lines that differ in it `parseInviteLines` keeps both, of which Add refuses the second.

**`HealthProofs`**, about `Spec` of `Health`: `HealthTypeCorrect`, `HealthReportsLastRound`
(`HealthIsLastRound`), `StartIsChecked` (`StartsOnlyIfAllPass`), and, from the definitions
of `PlankaCheck` and the type of `db`, `PassedCheckIsSound` and `CheckIsNoFalseAlarm`
(`CheckIsSound`, `NoFalseAlarm`). `CheckIsSound` is exact about inserts: a database that
passes takes them if and only if what Check takes for granted is so, and finding 5
is a database where it is not.

`HealthIsLastRound` says nothing of a round in progress, so `HealthInv` adds that
firstErr is the first complaint among those already asked (`RoundSoFar`): at the
end of the round that is everybody, and publishing makes it `checkErr`. `FreshStart`
gives that a round begins with nothing of the last process. `LoadedAreDistinct`
is the part of the start: two entries of which the later takes the earlier's name
make `Load` fail.

**`FormsProofs`**, about `Spec` of `Forms`: `FormsTypeCorrect`, `FreshFormsAreAccepted`
(`FreshFormsAccepted`), `OnlyOwnFreshFormsHold` (`OnlyOwnFreshForms`), `InvitedUsersHaveAccess`
(`InvitedHaveAccess`).

The invariant adds to the types that every token on a page is the one made for
its owner, its settings and the moment it was opened (`TokensFitPages`). From there
it is arithmetic of whole seconds: `Unix` is monotonic, so a token lives through
its TTL (`UnixMonotonic`), and two instants of one second are less than
`Resolution` apart, so it lives less than a second longer (`UnixWithinASecond`).
`ChangedByPost` reduces a changed user to an accepted post.

Only model-checked: liveness (`CallReturns`, `DriftTurnsRed`, `RecoversByItself`), which
is beyond this prover, and with it the absence of deadlock (ENABLED). The five
violated properties are counterexamples of TLC.

## Not modelled

The HTML of pages and the list page with its status columns, the text of mails,
the push to ntfy (a goroutine whose outcome nobody uses), the argon2id hash (one
call on random bytes), defaults of environment variables and `${VAR}` expansion in
`provisioners.yaml`, the spelling of derived usernames (`DeriveUsername` is the
function `NameOf` of `Portal`). `PROJECT.json` lists each with the reason, and the
hazards no property covers.

## Plan

Done: the store and its compositions, the handlers, the gate and the forms,
configuration, Check, start-up and health; the proofs of all safety properties.

Next, in this order:

1. Prove of `Portal` that its use of the store is that of a caller of `AtomicStore`, so
   that the two halves are joined by a theorem and not by the text above.
2. Prove what the safety part of `CallReturns` needs: that an attempt that goes on has
   a greater number, and that the lock is held by a writer who can go on.
3. Several provisioners in `Portal`.
