------------------------------- MODULE Portal -------------------------------
(***************************************************************************)
(* The POST handlers of internal/server: each takes the users file and     *)
(* then the connected app through a sequence of separate steps, while      *)
(* other requests are served, the app and the store fail, users sign in    *)
(* and the process dies.  A call of the store is one step: that is what    *)
(* UserStore is proved to implement (AtomicStore).                         *)
(***************************************************************************)
EXTENDS Planka

CONSTANTS
    Handlers,      \* the requests that may be in progress at once
    Forms,         \* the lists of email addresses posted to /invite
    GroupForms,    \* the sets of groups posted
    NameOf,        \* DeriveUsername: the username made of an email
    Allowed,       \* the emails of an allowed domain
    InitFiles,
    NoUser,
    Hash,          \* the throwaway password digest of a new user
    Backend        \* EMAIL_BACKEND

ASSUME PortalAssumption ==
    /\ Forms \subseteq Seq(Emails)
    /\ GroupForms \subseteq SUBSET Groups
    /\ Emails # {}
    /\ NameOf \in [Emails -> Usernames]
    /\ Allowed \subseteq Emails
    /\ InitFiles \subseteq Seq(Entry)
    /\ \A c \in InitFiles : UniqueIdentities(c)  \* or Authelia does not start
    /\ NoUser \notin Entry
    /\ Hash \in Digests
    /\ Backend \in {"smtp", "log", "none"}

VARIABLES
    db,            \* the content of the users file
    sessions,      \* whom Authelia may let into the app, as it once knew them
    step,          \* where each handler is
    queue,         \* the lines of the form still to do
    mailing,       \* the form asks for welcome mails
    user,          \* the user the handler is working on
    warned,        \* the page will carry a warning about that user
    mailed,        \* a welcome mail went out for this line
    owed,          \* the store was changed and the audit log does not say so yet
    alone,         \* history: no other request has been about the same person
    strays         \* history: which rows are the work of an old session

store == <<db, sessions>>
rows == <<app, strays>>
form == <<queue, mailing>>
line == <<user, warned, mailed>>
hvars == <<step, form, line, owed>>
vars == <<store, rows, hvars, alone>>

Steps == {"idle", "invite", "provision", "insert", "welcome", "setgroups", "get",
          "sync", "lookup", "delete", "deprovision", "audit"}

\* The users of a file who are let into the app.  Anybody the file has had may
\* have a session; that it ends is the sign-in that does not happen.
AppUsers(c) == {u \in Range(c) : RoleFor(u.groups) # NoRole}

PortalTypeOK ==
    /\ db \in Seq(Entry)
    /\ sessions \in SUBSET {u \in Entry : RoleFor(u.groups) # NoRole}
    /\ AppTypeOK
    /\ strays \in [Emails -> {"none", "made", "changed"}]
    /\ step \in [Handlers -> Steps]
    /\ queue \in [Handlers -> Seq(Request)]
    /\ user \in [Handlers -> Entry \union {NoUser}]
    /\ mailing \in [Handlers -> BOOLEAN]
    /\ warned \in [Handlers -> BOOLEAN]
    /\ mailed \in [Handlers -> BOOLEAN]
    /\ owed \in [Handlers -> BOOLEAN]
    /\ alone \in [Handlers -> BOOLEAN]

Init ==
    /\ db \in InitFiles
    /\ sessions = AppUsers(db)
    /\ app = [e \in Emails |-> Absent]
    /\ strays = [e \in Emails |-> "none"]
    /\ step = [h \in Handlers |-> "idle"]
    /\ queue = [h \in Handlers |-> <<>>]
    /\ user = [h \in Handlers |-> NoUser]
    /\ mailing = [h \in Handlers |-> FALSE]
    /\ warned = [h \in Handlers |-> FALSE]
    /\ mailed = [h \in Handlers |-> FALSE]
    /\ owed = [h \in Handlers |-> FALSE]
    /\ alone = [h \in Handlers |-> TRUE]

-----------------------------------------------------------------------------
\* The forms.

At(h, s) == step[h] = s
Goto(h, s) == step' = [step EXCEPT ![h] = s]
Current(h) == Head(queue[h])

\* Who a handler is working on: the name, and the address once it is known.
Concerns(h) ==
    IF queue[h] = <<>> THEN {}
    ELSE {Fold[Current(h).user.name]}
         \union (IF Current(h).kind = "add" THEN {Fold[Current(h).user.email]} ELSE {})
         \union (IF user[h] = NoUser THEN {} ELSE {Fold[user[h].email]})

\* No two handlers meet over a person: then each is alone with its own.
Undisturbed(h) ==
    \A k \in Handlers \ {h} : Concerns(h) \intersect Concerns(k) = {}

\* A handler is alone from the start of a line until somebody meets it.
TellWhoIsAlone ==
    alone' = [h \in Handlers |->
                 (alone[h] \/ queue'[h] # queue[h]) /\ Undisturbed(h)']

\* Faulty variant: the addresses are compared as they are typed.
ParseAsTyped(lines) ==
    LET out[n \in 0..Len(lines)] ==
            IF n = 0 THEN <<>>
            ELSE IF Contains(out[n - 1], lines[n]) THEN out[n - 1]
            ELSE Append(out[n - 1], lines[n])
    IN  out[Len(lines)]

\* A form's lines in lower case, each address once: out[n] is what the loop
\* has after n lines.
ParseInviteLines(lines) ==
    LET out[n \in 0..Len(lines)] ==
            IF n = 0 THEN <<>>
            ELSE IF Contains(out[n - 1], Lower[lines[n]]) THEN out[n - 1]
            ELSE Append(out[n - 1], Lower[lines[n]])
    IN  out[Len(lines)]

\* The user an address stands for; its name may not be valid.
InviteUser(e, gs) == [name |-> NameOf[e], email |-> e, groups |-> gs, pw |-> Hash]

Valid(u) == u.email \in Allowed /\ u.name \in ValidNames

AddRequest(u) == [kind |-> "add", user |-> u]

\* A form without lines or groups is shown again and changes nothing.
PostInvite(h) ==
    /\ At(h, "idle")
    /\ \E lines \in Forms, gs \in GroupForms \ {{}} :
          LET entries == ParseInviteLines(lines)
          IN  /\ entries # <<>>
              /\ queue' = [queue EXCEPT ![h] =
                    [i \in DOMAIN entries |-> AddRequest(InviteUser(entries[i], gs))]]
    /\ \E send \in BOOLEAN : mailing' = [mailing EXCEPT ![h] = send]
    /\ Goto(h, "invite")
    /\ UNCHANGED <<store, rows, line, owed>>
    /\ TellWhoIsAlone

\* The forms of a user's page name the user by username.
About(kind, n, gs) ==
    [kind |-> kind, user |-> [InviteUser(CHOOSE e \in Emails : TRUE, gs)
                                 EXCEPT !.name = n]]

PostGroups(h) ==
    /\ At(h, "idle")
    /\ \E n \in Usernames, gs \in GroupForms :
          queue' = [queue EXCEPT ![h] = <<About("groups", n, gs)>>]
    /\ Goto(h, "setgroups")
    /\ UNCHANGED <<store, rows, mailing, line, owed>>
    /\ TellWhoIsAlone

PostDelete(h) ==
    /\ At(h, "idle")
    /\ \E n \in Usernames :
          queue' = [queue EXCEPT ![h] = <<About("delete", n, {})>>]
    /\ Goto(h, "lookup")
    /\ UNCHANGED <<store, rows, mailing, line, owed>>
    /\ TellWhoIsAlone

-----------------------------------------------------------------------------
\* The store's part of a request.

\* The entry of a user in the file now.
EntryOf(n) == db[FirstPosition(db, n)]

StoreCommits(h) ==
    /\ Accepted(Current(h), db)
    /\ db' = Edited(Current(h), db)
    /\ sessions' = sessions \union AppUsers(db')
    /\ owed' = [owed EXCEPT ![h] = TRUE]

\* Go on with the rest of the form, if there is a rest.
NextLine(h) ==
    /\ queue' = [queue EXCEPT ![h] = Tail(@)]
    /\ user' = [user EXCEPT ![h] = NoUser]
    /\ warned' = [warned EXCEPT ![h] = FALSE]
    /\ mailed' = [mailed EXCEPT ![h] = FALSE]
    /\ mailing' = [mailing EXCEPT ![h] = @ /\ Len(queue[h]) > 1]
    /\ Goto(h, IF Len(queue[h]) > 1 THEN "invite" ELSE "idle")

\* Faulty variant: the handler goes on after Add refused the user.
InviteLineDespiteError(h) ==
    /\ At(h, "invite")
    /\ Valid(Current(h).user)
    /\ \/ StoreCommits(h)
       \/ ~Accepted(Current(h), db) /\ UNCHANGED <<store, owed>>
    /\ user' = [user EXCEPT ![h] = Current(h).user]
    /\ Goto(h, "provision")
    /\ UNCHANGED <<rows, form, warned, mailed>>
    /\ TellWhoIsAlone

InviteLine(h) ==
    /\ At(h, "invite")
    /\ Valid(Current(h).user)
    /\ StoreCommits(h)
    /\ user' = [user EXCEPT ![h] = Current(h).user]
    /\ Goto(h, "provision")
    /\ UNCHANGED <<rows, form, warned, mailed>>
    /\ TellWhoIsAlone

\* The line is not valid, no hash can be made, the user exists, or the store
\* fails; the result page says so and the other lines are not affected.
FailLine(h) ==
    /\ At(h, "invite")
    /\ NextLine(h)
    /\ UNCHANGED <<store, rows, owed>>
    /\ TellWhoIsAlone

SetGroups(h) ==
    /\ At(h, "setgroups")
    /\ StoreCommits(h)
    /\ Goto(h, "get")
    /\ UNCHANGED <<rows, form, line>>
    /\ TellWhoIsAlone

\* handleSetGroups reads the user back to know the email.
Get(h) ==
    /\ At(h, "get")
    /\ Current(h).user.name \in Names(db)
    /\ user' = [user EXCEPT ![h] = EntryOf(Current(h).user.name)]
    /\ Goto(h, "sync")
    /\ UNCHANGED <<store, rows, form, warned, mailed, owed>>
    /\ TellWhoIsAlone

\* The user cannot be read back: the app is left alone and nobody is told.
GetFails(h) ==
    /\ At(h, "get")
    /\ Goto(h, "audit")
    /\ UNCHANGED <<store, rows, form, line, owed>>
    /\ TellWhoIsAlone

Lookup(h) ==
    /\ At(h, "lookup")
    /\ Current(h).user.name \in Names(db)
    /\ user' = [user EXCEPT ![h] = EntryOf(Current(h).user.name)]
    /\ Goto(h, "delete")
    /\ UNCHANGED <<store, rows, form, warned, mailed, owed>>
    /\ TellWhoIsAlone

Delete(h) ==
    /\ At(h, "delete")
    /\ StoreCommits(h)
    /\ Goto(h, "deprovision")
    /\ UNCHANGED <<rows, form, line>>
    /\ TellWhoIsAlone

\* The page is an error page; nothing was changed.
FailRequest(h) ==
    /\ step[h] \in {"setgroups", "lookup", "delete"}
    /\ NextLine(h)
    /\ UNCHANGED <<store, rows, owed>>
    /\ TellWhoIsAlone

-----------------------------------------------------------------------------
\* The app's part: one statement after the other, failures become warnings.

Run(h, result) ==
    /\ \E ok \in BOOLEAN :
          /\ Statement(result, ok)
          /\ warned' = [warned EXCEPT ![h] = @ \/ ~ok]
    /\ strays' = [strays EXCEPT ![Lower[user[h].email]] = "none"]

\* Faulty variant: a user without a role is provisioned like any other.
ProvisionUnmapped(h) ==
    /\ At(h, "provision")
    /\ RowOf(user[h]) = Absent
    /\ Goto(h, "insert")
    /\ UNCHANGED <<store, rows, form, line, owed>>
    /\ TellWhoIsAlone

\* Provision asks whether the row exists before it inserts it.
Provision(h) ==
    /\ At(h, "provision")
    /\ \/ /\ RoleFor(user[h].groups) = NoRole
          /\ Goto(h, "welcome")
          /\ UNCHANGED warned
       \/ /\ RoleFor(user[h].groups) # NoRole
          /\ RowOf(user[h]) = Absent
          /\ Goto(h, "insert")
          /\ UNCHANGED warned
       \/ /\ RoleFor(user[h].groups) # NoRole
          /\ warned' = [warned EXCEPT ![h] = TRUE]
          /\ Goto(h, "welcome")
    /\ UNCHANGED <<store, rows, form, user, mailed, owed>>
    /\ TellWhoIsAlone

\* Nothing inserted is an error too: the row appeared after the question.
Insert(h) ==
    /\ At(h, "insert")
    /\ \/ RowOf(user[h]) = Absent /\ Run(h, Inserted(user[h]))
       \/ /\ RowOf(user[h]) # Absent
          /\ warned' = [warned EXCEPT ![h] = TRUE]
          /\ UNCHANGED rows
    /\ Goto(h, "welcome")
    /\ UNCHANGED <<store, form, user, mailed, owed>>
    /\ TellWhoIsAlone

\* Faulty variant: a mail that cannot be sent ends the line.
WelcomeOrNextLine(h) ==
    /\ At(h, "welcome")
    /\ \/ Goto(h, "audit") /\ UNCHANGED <<form, line>>
       \/ NextLine(h)
    /\ UNCHANGED <<store, rows, owed>>
    /\ TellWhoIsAlone

\* Whether a SendWelcome that returns nil has sent a mail: the log backend
\* prints it, the none backend does nothing.
Sent == Backend = "smtp"

\* The welcome mail, when the form asks for it, is sent or is a warning.
Welcome(h) ==
    /\ At(h, "welcome")
    /\ \/ ~mailing[h] /\ UNCHANGED <<warned, mailed>>
       \/ /\ mailing[h]
          /\ mailed' = [mailed EXCEPT ![h] = Sent]
          /\ UNCHANGED warned
       \/ /\ mailing[h]
          /\ Backend = "smtp"
          /\ warned' = [warned EXCEPT ![h] = TRUE]
          /\ UNCHANGED mailed
    /\ Goto(h, "audit")
    /\ UNCHANGED <<store, rows, form, user, owed>>
    /\ TellWhoIsAlone

Sync(h) ==
    /\ At(h, "sync")
    /\ Run(h, Synced(user[h]))
    /\ Goto(h, "audit")
    /\ UNCHANGED <<store, form, user, mailed, owed>>
    /\ TellWhoIsAlone

Deprovision(h) ==
    /\ At(h, "deprovision")
    /\ Run(h, Deactivated(user[h]))
    /\ Goto(h, "audit")
    /\ UNCHANGED <<store, form, user, mailed, owed>>
    /\ TellWhoIsAlone

\* The change goes to the audit log, then the next line or the answer.
Audit(h) ==
    /\ At(h, "audit")
    /\ owed' = [owed EXCEPT ![h] = FALSE]
    /\ NextLine(h)
    /\ UNCHANGED <<store, rows>>
    /\ TellWhoIsAlone

-----------------------------------------------------------------------------
\* What happens around the handlers.

\* External: somebody signs in to the app, which creates the row, or gives it
\* the role of the groups; a deactivated row is refused.  Authelia vouches for
\* a session that is older than the last change, or than the removal, of its
\* user (server.go:500: sessions go on for up to an hour).
Login(u) ==
    LET row == [role |-> RoleFor(u.groups), active |-> TRUE]
    IN  /\ MayUse(u) /\ RowOf(u) # row
        /\ app' = WithRow(u, row)
        /\ strays' = [strays EXCEPT ![Lower[u.email]] =
              IF u \in Range(db) THEN "none"
              ELSE IF RowOf(u) = Absent \/ @ = "made" THEN "made" ELSE "changed"]
        /\ UNCHANGED <<store, hvars>>
        /\ TellWhoIsAlone

\* The process dies: nobody takes the requests up again.
Crash ==
    /\ \E h \in Handlers : ~At(h, "idle")
    /\ step' = [h \in Handlers |-> "idle"]
    /\ queue' = [h \in Handlers |-> <<>>]
    /\ user' = [h \in Handlers |-> NoUser]
    /\ mailing' = [h \in Handlers |-> FALSE]
    /\ warned' = [h \in Handlers |-> FALSE]
    /\ mailed' = [h \in Handlers |-> FALSE]
    /\ owed' = [h \in Handlers |-> FALSE]
    /\ UNCHANGED <<store, rows>>
    /\ TellWhoIsAlone

Begin(h) == PostInvite(h) \/ PostGroups(h) \/ PostDelete(h)

InviteStep(h) ==
    InviteLine(h) \/ FailLine(h) \/ Provision(h) \/ Insert(h) \/ Welcome(h)

AccessStep(h) == SetGroups(h) \/ Get(h) \/ GetFails(h) \/ Sync(h)

RemoveStep(h) == Lookup(h) \/ Delete(h) \/ Deprovision(h)

Next ==
    \/ \E h \in Handlers : \/ Begin(h)
                            \/ InviteStep(h)
                            \/ AccessStep(h)
                            \/ RemoveStep(h)
                            \/ FailRequest(h)
                            \/ Audit(h)
    \/ \E u \in sessions : Login(u)
    \/ Crash

Spec == Init /\ [][Next]_vars

-----------------------------------------------------------------------------
\* Properties.

Kind(h) == Current(h).kind

\* Between the store and the audit log.
Underway(h) ==
    step[h] \in {"provision", "insert", "welcome", "sync", "deprovision", "audit"}

\* While a handler that nobody meets brings the app up to date, the users
\* file still says what the handler passes on: the invited user as invited,
\* the user with the groups given, no user by the removed name.  Every
\* statement of the handlers rests on this (server.go: store first).
ActsOnWhatIsStored ==
    \A h \in Handlers :
        Underway(h) /\ alone[h] =>
            IF Kind(h) = "delete" THEN user[h].name \notin Names(db)
            ELSE user[h] # NoUser => \E i \in DOMAIN db : db[i] = user[h]

\* The row that agrees with a user who is in the file.
RowAgrees(u) ==
    RowOf(u) # Absent =>
        IF RoleFor(u.groups) = NoRole
        THEN ~RowOf(u).active
        ELSE RowOf(u) = [role |-> RoleFor(u.groups), active |-> TRUE]

\* How a sign-in with an old session may have left the user's row, since the
\* last statement about it.
Stray(u) == strays[Lower[u.email]]

\* A handler that nobody met and that has no warning to show leaves the app
\* in agreement with the file: an invited user with a role can be assigned
\* at once, a change of groups has reached the row, a removed user's row is
\* not active.  (An invite without a role leaves the app alone.)  Old sessions
\* may undo what the handler did in between, but of a user who was removed
\* only one can whose row did not exist when it was to be deactivated.
QuietMeansDone ==
    \A h \in Handlers :
        At(h, "audit") /\ alone[h] /\ ~warned[h] /\ user[h] # NoUser =>
            CASE Kind(h) = "add"    ->
                    \/ RoleFor(user[h].groups) = NoRole
                    \/ /\ RowOf(user[h]) # Absent
                       /\ RowAgrees(user[h]) \/ Stray(user[h]) # "none"
              [] Kind(h) = "groups" ->
                    RowAgrees(user[h]) \/ Stray(user[h]) # "none"
              [] Kind(h) = "delete" ->
                    \/ RowOf(user[h]) = Absent
                    \/ ~RowOf(user[h]).active
                    \/ Stray(user[h]) = "made"

\* No handler goes on to another line or ends while a change it made to the
\* users file is not in the audit log (README: every mutation is logged).
NoUnauditedCommit ==
    \A h \in Handlers : owed[h] => Underway(h) \/ At(h, "get")

\* The lines of an invite that are left are about different people, however
\* the form spells them: nobody is created by one line of a form and then
\* reported as a duplicate by another (parseInviteLines).
LinesDistinct ==
    \A h \in Handlers :
        \A i, j \in DOMAIN queue[h] :
            Fold[queue[h][i].user.email] = Fold[queue[h][j].user.email] => i = j

\* What invite-result.html says below a form that asked for mails: each new
\* account has been sent one, unless its line carries a warning.
MailedAsSaid ==
    \A h \in Handlers :
        At(h, "audit") /\ mailing[h] /\ ~warned[h] => mailed[h]

\* What handleInvite's page and the README say of a provisioner that failed:
\* the app creates the user at first login.  So there is no row, or it is
\* one the user can sign in with.
FailedProvisionSelfHeals ==
    \A h \in Handlers :
        /\ At(h, "audit")
        /\ alone[h]
        /\ Kind(h) = "add"
        /\ RoleFor(user[h].groups) # NoRole
        => MayUse(user[h])

\* What the README says of a removal: the user's row is deactivated.  No row
\* becomes active while nobody in the users file has its address, unless a
\* removal of that user has yet to deactivate it or the person's session at
\* Authelia is not over (README.md:171-172).
OnlyUsersAreActivated ==
    [][\A e \in Emails :
          /\ app'[e] # Absent
          /\ app'[e].active
          /\ app[e] # app'[e]
          => \/ \E i \in DOMAIN db : Fold[db[i].email] = Fold[e]
             \/ \E h \in Handlers :
                   At(h, "deprovision") /\ Fold[user[h].email] = Fold[e]
             \/ strays'[e] # "none"]_vars
=============================================================================
