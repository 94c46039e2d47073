------------------------------ MODULE Registry ------------------------------
(***************************************************************************)
(* What the portal reads at its start: the environment (config.Load) and   *)
(* provisioners.yaml (provision.Load, newFromConfig).                      *)
(***************************************************************************)
EXTENDS Integers, Sequences

CONSTANTS
    Apps,          \* the databases a DSN may lead to
    Nothing        \* a value that is not set

ASSUME NothingAssumption == Nothing \notin Apps

\* An entry of provisioners.yaml.
Rule == [group : {Nothing} \union STRING, role : STRING]
Node == [type : STRING, name : {Nothing} \union STRING,
         dsn : {Nothing} \union Apps, roles : Seq(Rule)]

MinSecret == 32

\* config.Load; "other" is any backend that is not one of the three.
ConfigValid(env) ==
    /\ env.secret >= MinSecret
    /\ env.domains # {}
    /\ env.groups # {}
    /\ env.https
    /\ env.mail \in {"smtp", "log", "none"}
    /\ env.mail = "smtp" => env.host /\ env.from

factories == {"planka-postgres"}
validPlankaRoles == {"admin", "projectOwner", "boardUser"}

\* newFromConfig: the DSN is set, and the rules are some and all usable.
Buildable(node) ==
    /\ node.dsn \in Apps
    /\ node.roles # <<>>
    /\ \A i \in DOMAIN node.roles :
          node.roles[i].group # Nothing /\ node.roles[i].role \in validPlankaRoles

NameOf(node) == IF node.name = Nothing THEN node.type ELSE node.name

\* The provisioner of an entry: the rules keep the order of the file.
Built(node) == [name |-> NameOf(node), app |-> node.dsn, roles |-> node.roles]

\* Faulty variant: names are compared before the missing ones are filled in.
NameTakenAsWritten(nodes, i) == \E j \in 1..i - 1 : nodes[j].name = nodes[i].name

NameTaken(nodes, i) == \E j \in 1..i - 1 : NameOf(nodes[j]) = NameOf(nodes[i])

\* The provisioners in the order of the file, or Nothing: one entry that is
\* of an unknown type, has a taken name or cannot be built ends the start.
Load(nodes) ==
    IF \A i \in DOMAIN nodes : /\ nodes[i].type \in factories
                               /\ ~NameTaken(nodes, i)
                               /\ Buildable(nodes[i])
    THEN [i \in DOMAIN nodes |-> Built(nodes[i])]
    ELSE Nothing

\* Everything main reads before it asks the apps.
Startable(conf) ==
    ConfigValid(conf.env) /\ conf.readable /\ Load(conf.nodes) # Nothing
=============================================================================
