------------------------------- MODULE Planka -------------------------------
(***************************************************************************)
(* The Planka provisioner: what its SQL statements do to the rows of       *)
(* user_account, one per exact email.  Planka's own users sign in through  *)
(* the same table (Login in Portal).                                       *)
(***************************************************************************)
EXTENDS UserFile

CONSTANTS
    Rules,         \* the roles of provisioners.yaml: [group, role], in order
    NoRole,
    Absent         \* no row for an email

Roles == {Rules[i].role : i \in DOMAIN Rules}
Row == [role : Roles, active : BOOLEAN]

ASSUME RulesAssumption ==
    /\ Rules \in Seq([group : Groups, role : Roles])
    /\ NoRole \notin Roles
    /\ Absent \notin Row

VARIABLE app       \* user_account by email: a row or Absent

AppTypeOK == app \in [Emails -> Row \union {Absent}]

\* The role of the first rule whose group the user is in.
RoleFor(gs) ==
    LET matching == {i \in DOMAIN Rules : Rules[i].group \in gs}
    IN  IF matching = {} THEN NoRole ELSE Rules[Min(matching)].role

\* The rows are matched by the lower-case email exactly.
RowOf(u) == app[Lower[u.email]]

MayUse(u) == RowOf(u) # Absent => RowOf(u).active

WithRow(u, row) == [app EXCEPT ![Lower[u.email]] = row]

\* INSERT ... ON CONFLICT DO NOTHING of a user that has a role.
Inserted(u) ==
    IF RowOf(u) = Absent
    THEN WithRow(u, [role |-> RoleFor(u.groups), active |-> TRUE])
    ELSE app

Deactivated(u) ==
    IF RowOf(u) = Absent THEN app ELSE WithRow(u, [RowOf(u) EXCEPT !.active = FALSE])

\* Faulty variant: a role is set without clearing is_deactivated.
SyncedRoleOnly(u) ==
    IF RoleFor(u.groups) = NoRole THEN Deactivated(u)
    ELSE IF RowOf(u) = Absent THEN app
    ELSE WithRow(u, [RowOf(u) EXCEPT !.role = RoleFor(u.groups)])

\* UPDATE of role and is_deactivated after a change of groups.
Synced(u) ==
    IF RoleFor(u.groups) = NoRole THEN Deactivated(u)
    ELSE IF RowOf(u) = Absent THEN app
    ELSE WithRow(u, [role |-> RoleFor(u.groups), active |-> TRUE])

\* A statement succeeds, or fails: then it was not executed, or it was and
\* the answer was lost (connection broken, request context cancelled).
Statement(result, ok) ==
    \/ app' = result
    \/ ~ok /\ UNCHANGED app
=============================================================================
