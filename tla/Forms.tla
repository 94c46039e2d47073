------------------------------- MODULE Forms -------------------------------
(***************************************************************************)
(* The pages of the portal and the forms on them, from the moment a page   *)
(* is rendered to the moment its form is posted, which may be hours later: *)
(* the gate (requireAdmin), the token that render puts into each form      *)
(* (csrf.go), and the groups a post may give (selectedGroups).  Meanwhile  *)
(* other forms are posted, the person at the browser changes or is no      *)
(* admin any more, and the portal is started again with other settings.    *)
(* A request is one step at the time of its checks: what it does between   *)
(* the store and the app is Portal's.                                      *)
(***************************************************************************)
EXTENDS Integers

CONSTANTS
    People,        \* those who may sign in at the gateway
    Usernames,     \* the users the portal may have in its file
    Groups,
    Tabs,          \* browser windows
    Configs,       \* the settings the portal may be started with
    Secrets,
    CaddySecret,   \* what Caddy sends in X-Portal-Auth
    Unset,
    TTL,           \* csrfTTL, in instants
    Resolution,    \* instants in a second
    MaxTime,       \* bound on the clock
    Inviting,      \* the page of the invite form
    NoPage,
    Gone           \* a username that is not in the file

Config == [csrf : Secrets, shared : Secrets \union {Unset}, groups : SUBSET Groups]

ASSUME FormsAssumption ==
    /\ Configs \subseteq Config
    /\ CaddySecret \in Secrets /\ Unset \notin Secrets
    /\ Inviting \notin Usernames
    /\ \A gs \in SUBSET Groups : Gone # gs
    /\ TTL \in Nat /\ Resolution \in Nat \ {0} /\ MaxTime \in Nat

VARIABLES
    now,           \* the time, in instants
    cfg,           \* the settings the portal runs with
    admins,        \* the people the gateway says are in the admin group
    stored,        \* the groups of the users in the file
    pages          \* what each window shows; it may have shown it for long

vars == <<now, cfg, admins, stored, pages>>

-----------------------------------------------------------------------------
\* Tokens.

Unix(t) == t \div Resolution

LastSecond == Unix(MaxTime + TTL)

Token == [exp : 0..LastSecond, sig : Secrets \X (0..LastSecond) \X People]

\* External: an HMAC tells apart what it was made of.
csrfMAC(secret, exp, actor) == <<secret, exp, actor>>

\* Faulty variant: the expiry is not in seconds.
csrfTokenFine(secret, actor) ==
    [exp |-> now + TTL, sig |-> csrfMAC(secret, now + TTL, actor)]

csrfToken(secret, actor) ==
    LET exp == Unix(now + TTL)
    IN  [exp |-> exp, sig |-> csrfMAC(secret, exp, actor)]

\* Faulty variants: a token is too old in its last second; it is anybody's.
csrfValidShort(secret, actor, token) ==
    /\ Unix(now) < token.exp
    /\ token.sig = csrfMAC(secret, token.exp, actor)

csrfValidForAll(secret, actor, token) ==
    /\ Unix(now) <= token.exp
    /\ \E p \in People : token.sig = csrfMAC(secret, token.exp, p)

csrfValid(secret, actor, token) ==
    /\ Unix(now) <= token.exp
    /\ token.sig = csrfMAC(secret, token.exp, actor)

-----------------------------------------------------------------------------
\* Pages.

\* about: the user of a user's page.  owner, opened and under (the settings
\* at the time) are kept to state properties with.  The check boxes are not
\* kept: the page binds nobody to them.
Page ==
    [about : Usernames \union {Inviting}, owner : People, opened : 0..MaxTime,
     under : Configs, token : Token]

\* What render makes for a person now.
Rendered(p, about) ==
    [about |-> about, owner |-> p, opened |-> now, under |-> cfg,
     token |-> csrfToken(cfg.csrf, p)]

FormsTypeOK ==
    /\ now \in 0..MaxTime
    /\ cfg \in Configs
    /\ admins \in SUBSET People
    /\ stored \in [Usernames -> {Gone} \union SUBSET Groups]
    /\ pages \in [Tabs -> {NoPage} \union Page]

\* The file may hold groups that the portal does not offer.
Init ==
    /\ now = 0
    /\ cfg \in Configs
    /\ admins = People
    /\ stored \in [Usernames -> {Groups, Gone}]
    /\ pages = [t \in Tabs |-> NoPage]

\* requireAdmin, for a request that comes through Caddy.
requireAdmin(p) == cfg.shared \in {Unset, CaddySecret} /\ p \in admins

\* handleUser and handleInviteForm.
Open(t, p, about) ==
    /\ requireAdmin(p)
    /\ about \in Usernames => stored[about] # Gone
    /\ pages' = [pages EXCEPT ![t] = Rendered(p, about)]
    /\ UNCHANGED <<now, cfg, admins, stored>>

-----------------------------------------------------------------------------
\* Posts.  A window keeps its page: the browser can go back and post again.

Posted(t, p) ==
    /\ pages[t] # NoPage
    /\ requireAdmin(p)
    /\ csrfValid(cfg.csrf, p, pages[t].token)

\* A client posts whatever groups it likes, those of the page's boxes or not
\* (server.go:507); the ones that are offered now are taken.
selectedGroups(posted) == posted \intersect cfg.groups

\* handleSetGroups; the user may have been removed since.
Save(t, p) ==
    /\ Posted(t, p)
    /\ pages[t].about \in Usernames
    /\ stored[pages[t].about] # Gone
    /\ \E posted \in SUBSET Groups :
          stored' = [stored EXCEPT ![pages[t].about] = selectedGroups(posted)]
    /\ UNCHANGED <<now, cfg, admins, pages>>

\* handleDelete, with the box ticked.
Remove(t, p) ==
    /\ Posted(t, p)
    /\ pages[t].about \in Usernames
    /\ stored[pages[t].about] # Gone
    /\ stored' = [stored EXCEPT ![pages[t].about] = Gone]
    /\ UNCHANGED <<now, cfg, admins, pages>>

\* Faulty variant: the form needs a group, whatever comes of it.
InvitePosted(t, p) ==
    /\ Posted(t, p)
    /\ pages[t].about = Inviting
    /\ \E posted \in SUBSET Groups, u \in Usernames :
          /\ posted # {}
          /\ stored[u] = Gone
          /\ stored' = [stored EXCEPT ![u] = selectedGroups(posted)]
    /\ UNCHANGED <<now, cfg, admins, pages>>

\* handleInvite of one line; a user who is there is skipped.
Invite(t, p) ==
    /\ Posted(t, p)
    /\ pages[t].about = Inviting
    /\ \E posted \in SUBSET Groups, u \in Usernames :
          /\ selectedGroups(posted) # {}
          /\ stored[u] = Gone
          /\ stored' = [stored EXCEPT ![u] = selectedGroups(posted)]
    /\ UNCHANGED <<now, cfg, admins, pages>>

\* No group is left, or no address was given: the form is shown again, with
\* a new token.
Reshow(t, p) ==
    /\ Posted(t, p)
    /\ pages[t].about = Inviting
    /\ pages' = [pages EXCEPT ![t] = Rendered(p, Inviting)]
    /\ UNCHANGED <<now, cfg, admins, stored>>

-----------------------------------------------------------------------------
\* Around the portal.

Tick ==
    /\ now < MaxTime
    /\ now' = now + 1
    /\ UNCHANGED <<cfg, admins, stored, pages>>

\* External: someone is put into the admin group, or taken out.
SetAdmins ==
    /\ admins' \in (SUBSET People) \ {admins}
    /\ UNCHANGED <<now, cfg, stored, pages>>

\* The portal is started with other settings; nothing of it is in memory.
Reconfigure ==
    /\ cfg' \in Configs \ {cfg}
    /\ UNCHANGED <<now, admins, stored, pages>>

Post(t, p) == Save(t, p) \/ Remove(t, p) \/ Invite(t, p) \/ Reshow(t, p)

Next ==
    \/ \E t \in Tabs, p \in People :
          \/ \E about \in Usernames \union {Inviting} : Open(t, p, about)
          \/ Post(t, p)
    \/ Tick
    \/ SetAdmins
    \/ Reconfigure

Spec == Init /\ [][Next]_vars

-----------------------------------------------------------------------------
\* Properties.

\* The page of a window was made for somebody who is an admin still, under
\* the secret the portal has now.
Current(t) ==
    /\ pages[t] # NoPage
    /\ pages[t].owner \in admins
    /\ pages[t].under.csrf = cfg.csrf

Age(t) == now - pages[t].opened

\* The form that may bring a user's groups from what they are to something
\* else: a user who is not in the file comes in by an invite alone.
IsAbout(t, u) == pages[t].about = IF stored[u] = Gone THEN Inviting ELSE u

\* Whatever happened since a page was made (another person at the browser,
\* an admin demoted, a restart with another secret, a user removed by another
\* form, hours), a user changes only by a form about this user that somebody
\* who is an admin now was given, under the present secret, no longer than
\* the TTL and the rest of a second ago.
OnlyOwnFreshForms ==
    [][\A u \in Usernames :
          stored'[u] # stored[u] =>
              \E t \in Tabs :
                  /\ Current(t)
                  /\ Age(t) < TTL + Resolution
                  /\ IsAbout(t, u)]_vars

\* A form is good for the whole of its TTL, up to the last instant and
\* whatever its place between two seconds, for the person it was made for.
FreshFormsAccepted ==
    \A t \in Tabs :
        Current(t) /\ Age(t) <= TTL =>
            csrfValid(cfg.csrf, pages[t].owner, pages[t].token)

\* Nobody is created who has access to nothing, also when all the groups that
\* are posted are no longer offered, or never were (handleInvite asks for a
\* group).
InvitedHaveAccess ==
    [][\A u \in Usernames :
          stored[u] = Gone /\ stored'[u] # Gone => stored'[u] # {}]_vars
=============================================================================
