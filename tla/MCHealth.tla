------------------------------ MODULE MCHealth ------------------------------
(***************************************************************************)
(* Health with two Planka databases: one in every state that is at most    *)
(* two changes away from the documented one, one that is up or down.       *)
(***************************************************************************)
EXTENDS Health, TLC

CONSTANTS a, b, nothing, noError

Documented ==
    [columns |-> [c \in Columns |-> CASE c = "id" -> "default"
                                      [] c = "password" -> "nullable"
                                      [] c = "added" -> "gone"
                                      [] OTHER -> "required"],
     grants |-> Privilege, superuser |-> FALSE, up |-> TRUE, named |-> TRUE,
     unique |-> TRUE]

\* Of a column that is written, only whether it exists makes a difference, of
\* any other but id, only whether it is required or may be null.
Differing(ds) ==
    {d \in UNION {Changed(e) : e \in ds} :
        /\ \A c \in insertColumns : d.columns[c] \in {"gone", "required"}
        /\ d.columns["added"] \notin Defaulted
        /\ d.columns["password"] # "optional"}

OneAway == Differing({Documented})

\* (TLC evaluates a definition once, but not one that is given to a constant.)
TwoAway ==
    {a :> d @@ b :> e : d \in OneAway \union Differing(OneAway),
                        e \in {Documented, [Documented EXCEPT !.up = FALSE]}}

MCDatabases == TwoAway

Env == [secret |-> MinSecret, domains |-> {"d"}, groups |-> {"g"}, https |-> TRUE,
        mail |-> "log", host |-> FALSE, from |-> FALSE]

Entry(name, app, role) ==
    [type |-> "planka-postgres", name |-> name, dsn |-> app,
     roles |-> <<[group |-> "g", role |-> role]>>]

One == <<Entry(nothing, a, "admin")>>
Two == <<Entry("planka", a, "admin"), Entry(nothing, b, "boardUser")>>

Conf(env, readable, nodes) == [env |-> env, readable |-> readable, nodes |-> nodes]

\* Three that are valid, and six that end the start in different ways; the second
\* provisioner is unnamed in two of them.
Files ==
    {Conf(Env, TRUE, <<>>), Conf(Env, TRUE, One), Conf(Env, TRUE, Two),
     Conf(Env, TRUE, <<Entry("planka-postgres", b, "admin")>> \o One),
     Conf(Env, TRUE, One \o <<Entry("planka", b, "Admin")>>),
     Conf(Env, TRUE, One \o <<Entry("planka", nothing, "admin")>>),
     Conf(Env, FALSE, One),
     Conf([Env EXCEPT !.secret = MinSecret - 1], TRUE, One),
     Conf([Env EXCEPT !.mail = "smtp", !.host = TRUE], TRUE, Two)}

MCConfigurations == Files
=============================================================================
