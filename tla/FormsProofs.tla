---------------------------- MODULE FormsProofs ----------------------------
(***************************************************************************)
(* Proofs about Forms: a form is worth something for the whole of its TTL, *)
(* and never more than that, to anybody but the admin it was made for.     *)
(***************************************************************************)
EXTENDS Forms, TLAPS

\* What a window shows is no newer than now, and its token was made for the
\* person, under the secret and at the time that the page was.
TokensFitPages ==
    \A t \in Tabs :
        pages[t] # NoPage =>
            LET exp == Unix(pages[t].opened + TTL)
            IN  /\ pages[t].opened <= now
                /\ pages[t].token =
                      [exp |-> exp,
                       sig |-> csrfMAC(pages[t].under.csrf, exp, pages[t].owner)]

\* The inductive invariant of Forms.
FormsInv == FormsTypeOK /\ TokensFitPages

-----------------------------------------------------------------------------
\* Seconds.

\* A second begins at a multiple of Resolution, and lasts Resolution instants.
LEMMA UnixBounds ==
    ASSUME NEW t \in Nat
    PROVE  /\ Unix(t) \in Nat
           /\ Resolution * Unix(t) <= t
           /\ t < Resolution * Unix(t) + Resolution
  BY FormsAssumption, SMT DEF Unix

\* What is in a later second is at least a whole second on.
LEMMA SecondsApart ==
    ASSUME NEW x \in Nat, NEW y \in Nat, x < y
    PROVE  Resolution * x + Resolution <= Resolution * y
<1>1. x + 1 <= y
  OBVIOUS
<1>2. Resolution * (x + 1) <= Resolution * y
  BY <1>1, FormsAssumption, SMT
<1>3. Resolution * (x + 1) = Resolution * x + Resolution
  BY FormsAssumption, SMT
<1> QED
  BY <1>2, <1>3, FormsAssumption, SMT

\* Seconds are counted in the order of the instants.
LEMMA UnixMonotonic ==
    ASSUME NEW s \in Nat, NEW t \in Nat, s <= t
    PROVE  Unix(s) <= Unix(t)
<1> SUFFICES ASSUME Unix(t) < Unix(s) PROVE FALSE
  BY UnixBounds
<1>1. Resolution * Unix(t) + Resolution <= Resolution * Unix(s)
  BY UnixBounds, SecondsApart
<1> QED
  BY <1>1, UnixBounds, FormsAssumption, SMT

\* An instant whose second is not after that of another is less than a
\* second after it.
LEMMA UnixWithinASecond ==
    ASSUME NEW s \in Nat, NEW t \in Nat, Unix(t) <= Unix(s)
    PROVE  t < s + Resolution
<1>1. Resolution * Unix(t) <= Resolution * Unix(s)
  BY UnixBounds, FormsAssumption, SMT
<1> QED
  BY <1>1, UnixBounds, FormsAssumption, SMT

-----------------------------------------------------------------------------
\* The invariant.

\* A page as rendered is of now and of the configuration in force, and carries
\* the token of the person it is shown to.
LEMMA RenderedFits ==
    ASSUME FormsTypeOK, NEW p \in People, NEW about \in Usernames \union {Inviting}
    PROVE  /\ Rendered(p, about) \in Page
           /\ Rendered(p, about).opened = now
           /\ Rendered(p, about).owner = p
           /\ Rendered(p, about).under = cfg
           /\ Rendered(p, about).token = csrfToken(cfg.csrf, p)
<1>1. now \in Nat /\ now + TTL \in Nat /\ MaxTime + TTL \in Nat /\ now + TTL <= MaxTime + TTL
  BY FormsAssumption DEF FormsTypeOK
<1>2. Unix(now + TTL) \in 0..LastSecond
  BY <1>1, UnixBounds, UnixMonotonic DEF LastSecond
<1>3. cfg \in Configs /\ cfg.csrf \in Secrets
  BY FormsAssumption DEF FormsTypeOK, Config
<1>4. csrfToken(cfg.csrf, p) \in Token
  BY <1>2, <1>3 DEF csrfToken, csrfMAC, Token
<1> QED
  BY <1>3, <1>4 DEF Rendered, Page, FormsTypeOK

\* The invariant holds at the start.
LEMMA InitInv == Init => FormsInv
<1> SUFFICES ASSUME Init PROVE FormsInv
  OBVIOUS
<1>1. FormsTypeOK
  BY FormsAssumption DEF Init, FormsTypeOK
<1>2. TokensFitPages
  BY DEF Init, TokensFitPages
<1> QED
  BY <1>1, <1>2 DEF FormsInv

\* A window that gets a page just rendered.
LEMMA RenderKeepsInv ==
    ASSUME FormsInv,
           NEW t \in Tabs, NEW p \in People, NEW about \in Usernames \union {Inviting},
           pages' = [pages EXCEPT ![t] = Rendered(p, about)],
           UNCHANGED <<now, cfg, admins, stored>>
    PROVE  FormsInv'
<1> USE DEF FormsInv
<1>1. FormsTypeOK'
  BY RenderedFits DEF FormsTypeOK
<1>2. TokensFitPages'
  <2> SUFFICES ASSUME NEW w \in Tabs, pages'[w] # NoPage
               PROVE  LET exp == Unix(pages'[w].opened + TTL)
                      IN  /\ pages'[w].opened <= now
                          /\ pages'[w].token =
                                [exp |-> exp,
                                 sig |-> csrfMAC(pages'[w].under.csrf, exp,
                                                 pages'[w].owner)]
    BY DEF TokensFitPages
  <2>1. CASE w = t
    <3>1. pages'[w] = Rendered(p, about)
      BY <2>1 DEF FormsTypeOK
    <3>2. now \in Nat
      BY FormsAssumption DEF FormsTypeOK
    <3>3. /\ pages'[w].opened = now /\ pages'[w].owner = p /\ pages'[w].under = cfg
          /\ pages'[w].token = csrfToken(cfg.csrf, p)
      BY <3>1, RenderedFits
    <3> QED
      BY <3>2, <3>3 DEF csrfToken
  <2>2. CASE w # t
    BY <2>2 DEF FormsTypeOK, TokensFitPages
  <2> QED
    BY <2>1, <2>2
<1> QED
  BY <1>1, <1>2

\* A post that changes the file changes one user in it.
LEMMA StoreKeepsInv ==
    ASSUME FormsInv,
           NEW u \in Usernames, NEW gs \in {Gone} \union SUBSET Groups,
           stored' = [stored EXCEPT ![u] = gs],
           UNCHANGED <<now, cfg, admins, pages>>
    PROVE  FormsInv'
  BY DEF FormsInv, FormsTypeOK, TokensFitPages

\* The groups that are taken of a post are groups of the configuration.
LEMMA SelectedAreGroups ==
    ASSUME FormsTypeOK, NEW posted
    PROVE  selectedGroups(posted) \in SUBSET Groups
  BY FormsAssumption DEF FormsTypeOK, selectedGroups, Config

\* Every step keeps the invariant.
LEMMA NextInv == FormsInv /\ [Next]_vars => FormsInv'
<1> SUFFICES ASSUME FormsInv, [Next]_vars PROVE FormsInv'
  OBVIOUS
<1> USE DEF FormsInv
<1>1. ASSUME NEW t \in Tabs, NEW p \in People,
             NEW about \in Usernames \union {Inviting}, Open(t, p, about)
      PROVE  FormsInv'
  BY <1>1, RenderKeepsInv DEF Open
<1>2. ASSUME NEW t \in Tabs, NEW p \in People, Save(t, p)
      PROVE  FormsInv'
  BY <1>2, StoreKeepsInv, SelectedAreGroups DEF Save
<1>3. ASSUME NEW t \in Tabs, NEW p \in People, Remove(t, p)
      PROVE  FormsInv'
  BY <1>3, StoreKeepsInv DEF Remove
<1>4. ASSUME NEW t \in Tabs, NEW p \in People, Invite(t, p)
      PROVE  FormsInv'
  BY <1>4, StoreKeepsInv, SelectedAreGroups DEF Invite
<1>5. ASSUME NEW t \in Tabs, NEW p \in People, Reshow(t, p)
      PROVE  FormsInv'
  BY <1>5, RenderKeepsInv DEF Reshow
<1>6. CASE Tick
  <2>1. FormsTypeOK'
    BY <1>6, FormsAssumption DEF Tick, FormsTypeOK
  <2>2. TokensFitPages'
    <3> SUFFICES ASSUME NEW t \in Tabs, pages[t] # NoPage
                 PROVE  pages[t].opened <= now'
      BY <1>6 DEF Tick, TokensFitPages
    <3>1. pages[t].opened <= now /\ pages[t] \in Page
      BY DEF TokensFitPages, FormsTypeOK
    <3>2. pages[t].opened \in Nat /\ now \in Nat /\ now' = now + 1
      BY <1>6, <3>1, FormsAssumption DEF Page, Tick, FormsTypeOK
    <3> QED
      BY <3>1, <3>2
  <2> QED
    BY <2>1, <2>2
<1>7. CASE SetAdmins
  BY <1>7 DEF SetAdmins, FormsTypeOK, TokensFitPages
<1>8. CASE Reconfigure
  BY <1>8 DEF Reconfigure, FormsTypeOK, TokensFitPages
<1>9. CASE UNCHANGED vars
  BY <1>9 DEF vars, FormsTypeOK, TokensFitPages
<1> QED
  BY <1>1, <1>2, <1>3, <1>4, <1>5, <1>6, <1>7, <1>8, <1>9 DEF Next, Post

\* The invariant holds in every reachable state.
LEMMA SpecInv == Spec => []FormsInv
  BY InitInv, NextInv, PTL DEF Spec

-----------------------------------------------------------------------------
\* The theorems.

\* Type correctness of Forms.
THEOREM FormsTypeCorrect == Spec => []FormsTypeOK
<1>1. FormsInv => FormsTypeOK
  BY DEF FormsInv
<1> QED
  BY <1>1, SpecInv, PTL

\* A form is accepted for the whole of its TTL from the admin it was made
\* for, as long as the secret stays (csrf.go: both ends of the comparison are
\* cut off to seconds, so it is never cut short).
THEOREM FreshFormsAreAccepted == Spec => []FreshFormsAccepted
<1>1. FormsInv => FreshFormsAccepted
  <2> SUFFICES ASSUME FormsInv, NEW t \in Tabs, Current(t), Age(t) <= TTL
               PROVE  csrfValid(cfg.csrf, pages[t].owner, pages[t].token)
    BY DEF FreshFormsAccepted
  <2> DEFINE exp == Unix(pages[t].opened + TTL)
  <2>1. /\ pages[t] \in Page
        /\ pages[t].opened <= now
        /\ pages[t].token =
              [exp |-> exp,
               sig |-> csrfMAC(pages[t].under.csrf, exp, pages[t].owner)]
        /\ pages[t].under.csrf = cfg.csrf
    BY DEF FormsInv, FormsTypeOK, TokensFitPages, Current
  <2>2. now \in Nat /\ pages[t].opened + TTL \in Nat /\ now <= pages[t].opened + TTL
    BY <2>1, FormsAssumption DEF FormsInv, FormsTypeOK, Page, Age
  <2>3. Unix(now) <= exp
    BY <2>2, UnixMonotonic
  <2> QED
    BY <2>1, <2>3 DEF csrfValid
<1> QED
  BY <1>1, SpecInv, PTL

\* A token that is accepted was made for the person who posts it, under the
\* present secret, no longer than the TTL and the rest of a second ago.
LEMMA PostedIsFresh ==
    ASSUME FormsInv, NEW t \in Tabs, NEW p \in People, Posted(t, p)
    PROVE  Current(t) /\ Age(t) < TTL + Resolution
<1> DEFINE exp == Unix(pages[t].opened + TTL)
<1>1. /\ pages[t] \in Page
      /\ pages[t].token =
            [exp |-> exp,
             sig |-> csrfMAC(pages[t].under.csrf, exp, pages[t].owner)]
  BY DEF FormsInv, FormsTypeOK, TokensFitPages, Posted
<1>2. /\ Unix(now) <= exp
      /\ csrfMAC(pages[t].under.csrf, exp, pages[t].owner)
            = csrfMAC(cfg.csrf, exp, p)
  BY <1>1 DEF Posted, csrfValid
<1>3. pages[t].under.csrf = cfg.csrf /\ pages[t].owner = p
  BY <1>2 DEF csrfMAC
<1>4. Current(t)
  BY <1>3 DEF Current, Posted, requireAdmin
<1>5. now \in Nat /\ pages[t].opened \in Nat /\ pages[t].opened + TTL \in Nat
  BY <1>1, FormsAssumption DEF FormsInv, FormsTypeOK, Page
<1>6. now < (pages[t].opened + TTL) + Resolution
  BY <1>2, <1>5, UnixWithinASecond
<1> QED
  BY <1>4, <1>5, <1>6, FormsAssumption DEF Age

\* A step that changes a user is a post of a form about this user.
LEMMA ChangedByPost ==
    ASSUME FormsInv, [Next]_vars, NEW u \in Usernames, stored'[u] # stored[u]
    PROVE  \E t \in Tabs, p \in People : Posted(t, p) /\ IsAbout(t, u)
<1>1. \E t \in Tabs, p \in People : Save(t, p) \/ Remove(t, p) \/ Invite(t, p)
  BY DEF Next, Post, Open, Reshow, Tick, SetAdmins, Reconfigure, vars
<1>2. PICK t \in Tabs, p \in People : Save(t, p) \/ Remove(t, p) \/ Invite(t, p)
  BY <1>1
<1>3. CASE Save(t, p) \/ Remove(t, p)
  BY <1>3 DEF Save, Remove, IsAbout, FormsInv, FormsTypeOK
<1>4. CASE Invite(t, p)
  BY <1>4 DEF Invite, IsAbout, FormsInv, FormsTypeOK
<1> QED
  BY <1>2, <1>3, <1>4

\* However long a page was open and whatever happened meanwhile, a user
\* changes only by a form about this user that somebody who is an admin now
\* was given, under the present secret and no longer ago than the TTL and the
\* rest of a second.
THEOREM OnlyOwnFreshFormsHold == Spec => OnlyOwnFreshForms
<1>1. FormsInv /\ [Next]_vars =>
        [\A u \in Usernames :
            stored'[u] # stored[u] =>
                \E t \in Tabs :
                    /\ Current(t)
                    /\ Age(t) < TTL + Resolution
                    /\ IsAbout(t, u)]_vars
  BY ChangedByPost, PostedIsFresh
<1> QED
  BY <1>1, SpecInv, PTL DEF Spec, OnlyOwnFreshForms

\* Whoever comes into the file by an invite has a group the portal offers at
\* the time of the post, whatever groups were posted.
THEOREM InvitedUsersHaveAccess == Spec => InvitedHaveAccess
<1> DEFINE Welcomed == \A u \in Usernames :
                          stored[u] = Gone /\ stored'[u] # Gone => stored'[u] # {}
<1>1. FormsInv /\ [Next]_vars => [Welcomed]_vars
  <2> SUFFICES ASSUME FormsInv, [Next]_vars, NEW u \in Usernames,
                      stored[u] = Gone, stored'[u] # Gone
               PROVE  stored'[u] # {}
    OBVIOUS
  <2>1. \E t \in Tabs, p \in People : Save(t, p) \/ Remove(t, p) \/ Invite(t, p)
    BY DEF Next, Post, Open, Reshow, Tick, SetAdmins, Reconfigure, vars
  <2>2. PICK t \in Tabs, p \in People : Save(t, p) \/ Remove(t, p) \/ Invite(t, p)
    BY <2>1
  <2>3. ~Save(t, p) /\ ~Remove(t, p)
    BY DEF Save, Remove, FormsInv, FormsTypeOK
  <2> QED
    BY <2>2, <2>3 DEF Invite, FormsInv, FormsTypeOK
<1> QED
  BY <1>1, SpecInv, PTL DEF Spec, InvitedHaveAccess
=============================================================================
