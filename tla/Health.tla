------------------------------- MODULE Health -------------------------------
(***************************************************************************)
(* The start of the portal (main.go), the checks of its provisioners and   *)
(* /healthz: RunChecks asks one provisioner after the other whether its    *)
(* database is as expected, in two queries, and the first complaint is     *)
(* kept for /healthz.  The databases change under the portal (an upgrade   *)
(* of Planka, a grant that is withdrawn, a server that does not answer).   *)
(***************************************************************************)
EXTENDS Registry, PlankaCheck

CONSTANTS
    Configurations, \* the environments, users files and provisioners.yaml
    Databases,      \* the states the databases of the apps may be in
    NoError

ASSUME NoErrorAssumption == NoError \notin Int
ASSUME ConfigurationsAssumption == \A c \in Configurations : c.nodes \in Seq(Node)
ASSUME DatabasesAssumption == Databases \subseteq [Apps -> Database]

VARIABLES
    phase,         \* how far main is: "start", "check", "serving", "exited"
    conf,          \* what there is to read at the next start
    provs,         \* the provisioners that Load returned
    db,            \* the database of each app
    next,          \* the provisioner the round asks next; 0: no round
    query,         \* which of its two queries is next
    firstErr,      \* RunChecks: the first that complained in this round
    checkErr,      \* what /healthz goes by
    tick,          \* the ticks in the ticker's channel
    last           \* history: the provisioners that complained when last asked

roundVars == <<next, query, firstErr>>
vars == <<phase, conf, provs, db, roundVars, checkErr, tick, last>>

\* The lists of provisioners that the portal may have.
Lists ==
    {Load(c.nodes) : c \in {k \in Configurations : Startable(k)}} \union {<<>>}

HealthTypeOK ==
    /\ phase \in {"start", "check", "serving", "exited"}
    /\ conf \in Configurations
    /\ provs \in Lists
    /\ db \in [Apps -> Database]
    /\ next \in 0..Len(provs) + 1
    /\ query \in 1..2
    /\ query = 2 => next \in DOMAIN provs
    /\ firstErr \in DOMAIN provs \union {NoError}
    /\ checkErr \in DOMAIN provs \union {NoError}
    /\ tick \in 0..1
    /\ last \subseteq DOMAIN provs

Init ==
    /\ phase = "start"
    /\ conf \in Configurations
    /\ provs = <<>>
    /\ db \in Databases
    /\ next = 0
    /\ query = 1
    /\ firstErr = NoError
    /\ checkErr = NoError
    /\ tick = 0
    /\ last = {}

-----------------------------------------------------------------------------
\* The start.

BeginRound ==
    /\ next' = 1
    /\ firstErr' = NoError
    /\ UNCHANGED query

\* The configuration, the users file and provisioners.yaml are read.
Configured ==
    /\ phase = "start"
    /\ Startable(conf)
    /\ provs' = Load(conf.nodes)
    /\ phase' = "check"
    /\ BeginRound
    /\ UNCHANGED <<conf, db, checkErr, tick, last>>

Misconfigured ==
    /\ phase = "start"
    /\ ~Startable(conf)
    /\ phase' = "exited"
    /\ UNCHANGED <<conf, provs, db, roundVars, checkErr, tick, last>>

\* External: the container is started again, as it is or with another
\* configuration (nothing reads it before the next start).
Restart ==
    /\ phase = "exited"
    /\ phase' = "start"
    /\ conf' \in Configurations
    /\ provs' = <<>>
    /\ next' = 0
    /\ query' = 1
    /\ firstErr' = NoError
    /\ checkErr' = NoError
    /\ tick' = 0
    /\ last' = {}
    /\ UNCHANGED db

\* The process is killed.
Kill ==
    /\ phase \in {"check", "serving"}
    /\ phase' = "exited"
    /\ UNCHANGED <<conf, provs, db, roundVars, checkErr, tick, last>>

-----------------------------------------------------------------------------
\* RunChecks.

Asking == phase \in {"check", "serving"} /\ next \in DOMAIN provs

Asked == db[provs[next].app]

\* The columns are as expected: the grants come next.
PassSchema ==
    /\ Asking /\ query = 1
    /\ SchemaFits(Asked)
    /\ query' = 2
    /\ UNCHANGED <<phase, conf, provs, db, next, firstErr, checkErr, tick, last>>

PassGrants ==
    /\ Asking /\ query = 2
    /\ GrantsFit(Asked)
    /\ query' = 1
    /\ next' = next + 1
    /\ last' = last \ {next}
    /\ UNCHANGED <<phase, conf, provs, db, firstErr, checkErr, tick>>

\* One of the two queries fails or shows something else; the round goes on.
Complain ==
    /\ Asking
    /\ IF query = 1 THEN ~SchemaFits(Asked) ELSE ~GrantsFit(Asked)
    /\ query' = 1
    /\ firstErr' = IF firstErr = NoError THEN next ELSE firstErr
    /\ next' = next + 1
    /\ last' = last \union {next}
    /\ UNCHANGED <<phase, conf, provs, db, checkErr, tick>>

RoundDone == phase \in {"check", "serving"} /\ next = Len(provs) + 1

\* Faulty variants: only a complaint is written down; only the first round.
NewErrOnly == IF firstErr = NoError THEN checkErr ELSE firstErr
NewErrAtStart == IF phase = "check" THEN firstErr ELSE checkErr

\* What /healthz goes by after the round.
NewErr == firstErr

\* Faulty variant: main only logs what the first round says.
ServeAnyway == "serving"

\* A complaint in the first round ends main, later ones do not.
Onwards == IF phase = "check" /\ firstErr # NoError THEN "exited" ELSE "serving"

Publish ==
    /\ RoundDone
    /\ checkErr' = NewErr
    /\ next' = 0
    /\ phase' = Onwards
    /\ UNCHANGED <<conf, provs, db, query, firstErr, tick, last>>

\* Faulty variant: the ticks queue up.
TickQueued ==
    /\ phase = "serving"
    /\ tick' = tick + 1
    /\ UNCHANGED <<phase, conf, provs, db, roundVars, checkErr, last>>

\* The ticker of CheckLoop: its channel holds one tick, the others are lost.
Tick ==
    /\ phase = "serving"
    /\ tick' = 1
    /\ UNCHANGED <<phase, conf, provs, db, roundVars, checkErr, last>>

NextRound ==
    /\ phase = "serving"
    /\ next = 0
    /\ tick = 1
    /\ tick' = 0
    /\ BeginRound
    /\ UNCHANGED <<phase, conf, provs, db, checkErr, last>>

-----------------------------------------------------------------------------
\* External: one thing about a database changes.
Changed(d) ==
    {[d EXCEPT !.columns[c] = s] : c \in Columns, s \in Shape}
    \union {[d EXCEPT !.grants = @ \ {g}] : g \in Privilege}
    \union {[d EXCEPT !.grants = @ \union {g}] : g \in Privilege}
    \union {[d EXCEPT !.superuser = ~@], [d EXCEPT !.up = ~@],
            [d EXCEPT !.named = ~@], [d EXCEPT !.unique = ~@]}

Drift ==
    /\ \E a \in Apps : \E d \in Changed(db[a]) \ {db[a]} : db' = [db EXCEPT ![a] = d]
    /\ db' \in Databases
    /\ UNCHANGED <<phase, conf, provs, roundVars, checkErr, tick, last>>

Check == PassSchema \/ PassGrants \/ Complain

Next ==
    \/ Configured \/ Misconfigured \/ Restart \/ Kill
    \/ Check \/ Publish \/ Tick \/ NextRound
    \/ Drift

\* The process runs, the queries are answered or fail, the ticker ticks, and
\* docker starts a container that exited again (restart: unless-stopped).
Fairness ==
    /\ WF_vars(Configured \/ Misconfigured)
    /\ WF_vars(Restart)
    /\ WF_vars(Check)
    /\ WF_vars(Publish)
    /\ WF_vars(Tick)
    /\ WF_vars(NextRound)

Spec == Init /\ [][Next]_vars /\ Fairness

-----------------------------------------------------------------------------
\* Properties.

Healthy == phase = "serving" /\ checkErr = NoError

\* Between two rounds /healthz goes by the first provisioner that complained
\* when it was last asked, and is green only if every one of them passed.
HealthIsLastRound ==
    phase = "serving" /\ next = 0 =>
        IF last = {} THEN checkErr = NoError
        ELSE checkErr \in last /\ \A i \in last : checkErr <= i

\* The portal does not begin to serve in the round in which a provisioner
\* complains (main: fail fast), and no two of those it serves share a name,
\* by which the list page finds an app's column.
StartsOnlyIfAllPass ==
    [][phase' = "serving" /\ phase # "serving" =>
          /\ last = {}
          /\ \A i, j \in DOMAIN provs : provs[i].name = provs[j].name => i = j]_vars

Watched(a) == phase = "serving" /\ \E i \in DOMAIN provs : provs[i].app = a

\* If the columns of a watched database, or the grants, stay wrong and the
\* portal stays up, /healthz turns red for good, without a restart.  (The
\* two must be told apart: they are not read at the same instant.)
DriftTurnsRed ==
    \A a \in Apps :
        /\ <>[](Watched(a) /\ ~SchemaFits(db[a])) => <>[](~Healthy)
        /\ <>[](Watched(a) /\ ~GrantsFit(db[a])) => <>[](~Healthy)

\* If from some time on the configuration is valid, every database fits and
\* nobody kills the portal, it ends up serving with /healthz green: out of a
\* crash loop (docker restarts it) and out of a red round alike.
RecoversByItself ==
    /\ <>[](Startable(conf) /\ \A a \in Apps : Fits(db[a]))
    /\ <>[][~Kill]_vars
    => <>[]Healthy

\* A database that passes both queries takes every read and update of the
\* provisioner.  Of its inserts Check promises less than it says: they go
\* through exactly if the columns they write exist, email has the index that
\* ON CONFLICT names, and id's default uses the sequence that is probed, and
\* of that Check sees three columns only.
CheckIsSound ==
    \A a \in Apps :
        Fits(db[a]) => /\ CanStatus(db[a])
                       /\ CanSync(db[a])
                       /\ CanInsert(db[a]) <=> TakenForGranted(db[a])

\* Check is no false alarm: a database that takes all of the provisioner's
\* statements from a role that is no superuser, with the generated id and
\* the nullable password that it relies on, passes, and so does one whose
\* sequence was renamed (planka.go:244-247).
NoFalseAlarm ==
    \A a \in Apps :
        LET d == db[a]
        IN  /\ CanStatus(d) /\ CanSync(d) /\ CanInsert([d EXCEPT !.named = TRUE])
            /\ ~d.superuser
            /\ d.columns["id"] \in Defaulted
            /\ d.columns["password"] \in Nullable
            => Fits(d)

\* What the package comment (planka.go:30-35) and README.md:115-121 say of
\* Check: it asserts that the columns the provisioner writes are there.  The
\* portal is not green on a database that lacks one of them, after a round in
\* which nobody complained.
ColumnsAsserted ==
    \A a \in Apps :
        Healthy /\ Watched(a) /\ last = {} /\ Fits(db[a]) =>
            \A c \in insertColumns : Exists(db[a], c)
=============================================================================
