------------------------------ MODULE UserFile ------------------------------
(***************************************************************************)
(* The Authelia users file as internal/userstore sees it, and the three    *)
(* edits the portal makes to it.  A readable file is the sequence of its   *)
(* entries in file order; everything parseBytes, usersMap or snapshot      *)
(* refuses (empty, truncated, several documents, no users mapping) is the  *)
(* one content Unreadable.  An entry keeps the fields the portal edits or  *)
(* compares; pw stands for all the fields it must carry over unchanged     *)
(* (password digest, display name, fields it does not know).               *)
(***************************************************************************)
EXTENDS Integers, SequencesExt

CONSTANTS
    Usernames,     \* the keys of the users mapping
    ValidNames,    \* the keys usernameRe accepts for a new user
    Emails,
    Groups,
    Digests,       \* values of the carried-over fields
    Fold,          \* strings.EqualFold(a, b) iff Fold[a] = Fold[b]
    Lower,         \* strings.ToLower on email addresses
    Unreadable     \* the content of a file the store refuses to edit

Entry == [name : Usernames, email : Emails, groups : SUBSET Groups, pw : Digests]

\* A request carries a full entry; SetGroups uses its name and groups only,
\* Delete its name only.
Request == [kind : {"add", "groups", "delete"}, user : Entry]

Content == Seq(Entry) \union {Unreadable}

ASSUME ValidNamesAssumption == ValidNames \subseteq Usernames
ASSUME LowerAssumption == /\ Lower \in [Emails -> Emails]
                          /\ \A e \in Emails : Lower[Lower[e]] = Lower[e]
ASSUME FoldAssumption == /\ DOMAIN Fold = Usernames \union Emails
                         /\ \A e \in Emails : Fold[Lower[e]] = Fold[e]
ASSUME UnreadableAssumption == Unreadable \notin Seq(Entry)

-----------------------------------------------------------------------------
\* Looking entries up.

Names(c) == {c[i].name : i \in DOMAIN c}

Positions(c, n) == {i \in DOMAIN c : c[i].name = n}

\* The entry findUser and Delete's loop stop at.
FirstPosition(c, n) ==
    CHOOSE i \in Positions(c, n) : \A j \in Positions(c, n) : i <= j

\* The entry that survives when the mapping is decoded into a Go map.
LastPosition(c, n) ==
    CHOOSE i \in Positions(c, n) : \A j \in Positions(c, n) : j <= i

-----------------------------------------------------------------------------
\* The edits.

\* Faulty variant: names and addresses are compared letter by letter.
TakenLiterally(u, c) ==
    \E i \in DOMAIN c : c[i].name = u.name \/ c[i].email = u.email

\* The username or the email of a new user belongs to someone already.
Taken(u, c) ==
    \E i \in DOMAIN c : \/ Fold[c[i].name] = Fold[u.name]
                        \/ Fold[c[i].email] = Fold[u.email]

\* The edit callback finds what it needs in c.
Editable(r, c) ==
    IF r.kind = "add" THEN ~Taken(r.user, c) ELSE r.user.name \in Names(c)

\* Faulty variant: the email is stored as it was typed.
AddedAsTyped(u, c) == Append(c, u)

Added(u, c) == Append(c, [u EXCEPT !.email = Lower[u.email]])

\* Faulty variant: the list of groups ends up inside another list.
RegroupedNested(u, c) == [c EXCEPT ![FirstPosition(c, u.name)].groups = {u.groups}]

Regrouped(u, c) == [c EXCEPT ![FirstPosition(c, u.name)].groups = u.groups]

Removed(u, c) == RemoveAt(c, FirstPosition(c, u.name))

\* The content the edit callback makes of c.
Edited(r, c) ==
    CASE r.kind = "add"    -> Added(r.user, c)
      [] r.kind = "groups" -> Regrouped(r.user, c)
      [] r.kind = "delete" -> Removed(r.user, c)

-----------------------------------------------------------------------------
\* The check of the portal's own output before it replaces the file.

\* The users by name; of a repeated key the last entry is kept.
Snapshot(c) == [n \in Names(c) |-> c[LastPosition(c, n)]]

\* Faulty variant: a user missing from the output is not noticed.
UntouchedEqualSurvivors(before, after, exempt) ==
    \A n \in (DOMAIN before \intersect DOMAIN after) \ {exempt} :
        after[n] = before[n]

UntouchedEqual(before, after, exempt) ==
    /\ DOMAIN after \ {exempt} = DOMAIN before \ {exempt}
    /\ \A n \in DOMAIN before \ {exempt} : after[n] = before[n]

VerifyAdd(u, before, after) ==
    /\ u.name \in DOMAIN after
    /\ u.name \notin DOMAIN before
    /\ after[u.name].email = Lower[u.email]

VerifyGroups(u, before, after) ==
    /\ DOMAIN after = DOMAIN before
    /\ after[u.name].groups = u.groups

\* Faulty variant: nobody looks whether the user is still there.
VerifyDeleteBlind(u, before, after) == u.name \in DOMAIN before

VerifyDelete(u, before, after) ==
    /\ u.name \notin DOMAIN after
    /\ u.name \in DOMAIN before

\* verify(before, after) of the request, on the contents read and encoded.
\* With the untouched users equal, the comparisons of user counts say
\* whether the edited name is in the two snapshots.
Verify(r, c, d) ==
    LET before == Snapshot(c)
        after == Snapshot(d)
    IN  /\ UntouchedEqual(before, after, r.user.name)
        /\ CASE r.kind = "add"    -> VerifyAdd(r.user, before, after)
             [] r.kind = "groups" -> VerifyGroups(r.user, before, after)
             [] r.kind = "delete" -> VerifyDelete(r.user, before, after)

\* The request goes through on a file with content c.
Accepted(r, c) ==
    /\ c # Unreadable
    /\ Editable(r, c)
    /\ Verify(r, c, Edited(r, c))

\* The keys of the users mapping are distinct, as in any file Authelia loads.
DistinctKeys(c) == \A i, j \in DOMAIN c : c[i].name = c[j].name => i = j

\* What a file must satisfy for Authelia to load it with its
\* case-insensitive search: no two entries share a name or an email.
UniqueIdentities(c) ==
    \A i, j \in DOMAIN c :
        i # j => /\ Fold[c[i].name] # Fold[c[j].name]
                 /\ Fold[c[i].email] # Fold[c[j].email]
=============================================================================
