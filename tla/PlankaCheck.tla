---------------------------- MODULE PlankaCheck -----------------------------
(***************************************************************************)
(* Check of the Planka provisioner against the database it is to protect:  *)
(* what the two queries look at, and, as the reference, what the           *)
(* statements of the provisioner need to succeed.                          *)
(***************************************************************************)

\* "preferences" stands for the eleven other columns of insertColumns,
\* "added" for a column that a later Planka may bring.
Read == {"email", "role", "is_deactivated"}
Updated == {"role", "is_deactivated"}
insertColumns == Read \union {"preferences"}
Columns == insertColumns \union {"id", "password", "added"}

\* required: NOT NULL without a default; default: NOT NULL with one;
\* nullable, optional: not NOT NULL, without a default and with one.
Shape == {"gone", "required", "default", "nullable", "optional"}

Defaulted == {"default", "optional"}
Nullable == {"nullable", "optional"}

Insert == <<"insert", "user_account">>
Usage == <<"usage", "next_id_seq">>
Selects == {"select"} \X Read
Updates == {"update"} \X Updated
Privilege == Selects \union Updates \union {Insert, Usage}

\* up: the server answers; named: the default of id uses next_id_seq;
\* unique: email has the unique index that ON CONFLICT (email) needs.
Database ==
    [columns : [Columns -> Shape], grants : SUBSET Privilege,
     superuser : BOOLEAN, up : BOOLEAN, named : BOOLEAN, unique : BOOLEAN]

Exists(d, c) == d.columns[c] # "gone"
May(d, g) == d.superuser \/ g \in d.grants

-----------------------------------------------------------------------------
\* The first query of Check.

\* information_schema shows the columns the role has some privilege on.
Shown(d) ==
    {c \in Columns : /\ Exists(d, c)
                     /\ \/ May(d, Insert)
                        \/ May(d, <<"select", c>>)
                        \/ May(d, <<"update", c>>)}

\* The columns an INSERT must set and Provision's does not.
Unmet(d) == {c \in Shown(d) \ insertColumns : d.columns[c] = "required"}

\* Faulty variant: the columns that must be set are not looked at.
SchemaFitsByShape(d) ==
    /\ d.up
    /\ {"id", "password"} \subseteq Shown(d)
    /\ d.columns["id"] \in Defaulted \union Nullable
    /\ d.columns["password"] \in Nullable

SchemaFits(d) ==
    /\ d.up
    /\ Unmet(d) = {}
    /\ {"id", "password"} \subseteq Shown(d)
    /\ d.columns["id"] \in Defaulted
    /\ d.columns["password"] \in Nullable

-----------------------------------------------------------------------------
\* The second, checkGrants.

\* Faulty variant: the sequence is probed even if it has another name.
GrantsFitAlways(d) ==
    /\ d.up
    /\ \A c \in Read : Exists(d, c)
    /\ ~d.superuser
    /\ \A g \in Selects \union Updates \union {Insert} : May(d, g)
    /\ d.named /\ May(d, Usage)

\* has_column_privilege fails for a column that does not exist; a sequence
\* that does not exist under its name is not asked about.
GrantsFit(d) ==
    /\ d.up
    /\ \A c \in Read : Exists(d, c)
    /\ ~d.superuser
    /\ \A g \in Selects \union Updates \union {Insert} : May(d, g)
    /\ d.named => May(d, Usage)

Fits(d) == SchemaFits(d) /\ GrantsFit(d)

-----------------------------------------------------------------------------
\* What the statements need of the database.

CanRead(d, c) == Exists(d, c) /\ May(d, <<"select", c>>)

\* SELECT of the three columns.
CanStatus(d) == d.up /\ \A c \in Read : CanRead(d, c)

\* UPDATE ... WHERE email = $1, for Sync and Deprovision.
CanSync(d) ==
    /\ d.up
    /\ CanRead(d, "email")
    /\ \A c \in Updated : Exists(d, c) /\ May(d, <<"update", c>>)

\* What Check takes for granted: the columns written exist, the index that
\* ON CONFLICT names, the sequence behind the default of id.
TakenForGranted(d) ==
    (\A c \in insertColumns : Exists(d, c)) /\ d.unique /\ d.named

\* SELECT EXISTS and INSERT, with the default of id run as the role.
CanInsert(d) ==
    /\ d.up
    /\ CanRead(d, "email")
    /\ May(d, Insert)
    /\ TakenForGranted(d)
    /\ May(d, Usage)
    /\ \A c \in Columns \ insertColumns : d.columns[c] # "required"
=============================================================================
