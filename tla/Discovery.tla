------------------------------- MODULE Discovery -------------------------------
(***************************************************************************)
(* How a command finds its connection: connect() of src/src/main.rs, which *)
(* reads the files, and resolve() of src/src/discovery.rs, which asks      *)
(* docker, and a person when one is there, and resolves the layers.        *)
(*                                                                         *)
(* Docker is asked twice, and its containers stop, start and go away       *)
(* between any two steps.                                                  *)
(***************************************************************************)
EXTENDS Config, FiniteSets

CONSTANTS
    Containers,     \* the containers docker may know
    Listed,         \* those of the compose project, as docker compose ps lists them
    Described,      \* Described[c]: what docker inspect says of c and never changes
    HostPorts,      \* the ports of this machine docker publishes on
    DockerFaults,   \* the faults docker may answer with
    Lines           \* the lines a person may type at the prompt

ASSUME HostPortsAssumption == HostPorts # {}
ASSUME ListedAssumption == Listed \in Seq(Containers)
ASSUME MountsAssumption == \A c \in Containers : IsList(Described[c].mounts)

\* The errors of discovery that are not docker's.
DiscoveryErrors == {"ConflictingSelectors", "ServiceNotFound", "ServiceNotRunning",
                    "ContainerNotFound", "UnrecognisedImage", "NoPublishedPort",
                    "NoSqliteDatabaseMounted"}

Failures == DockerFaults \cup ConfigErrors \cup DiscoveryErrors
ASSUME FailuresAssumption ==
    /\ None \notin Failures
    /\ DockerFaults \cap (ConfigErrors \cup DiscoveryErrors) = {}

VARIABLES
    args,           \* the invocation: options, files and environment
    project,        \* the file .dbctx.toml
    state,          \* state[c]: container c is "running", "exited" or "removed"
    published,      \* published[c]: the host port it got when it was started
    stage,          \* what is read next
    layers,         \* layers[p]: the ConnectionSource of place p
    chosen,         \* the container docker compose ps led to
    asking,         \* the settings still to ask for
    failure,        \* the ConfigError or DiscoveryError, or None
    config,         \* the ConnectionConfig, or None
    ran,            \* history: ran[c]: the ports container c has been running on
                    \* since connect() began
    down,           \* history: the containers that have been down since then
    unanswered      \* history: the questions that got no answer

docker == <<state, published>>
resolution == <<stage, layers, chosen, asking, failure, config>>
history == <<ran, down, unanswered>>
discoveryVars == <<args, project, docker, resolution, history>>

\* SPEC.md section 6: the places, the first that states a setting wins.
Ranked == <<"cli", "docker", "project", "dotenv", "environment", "prompt">>
Places == {Ranked[i] : i \in DOMAIN Ranked}

\* Mutant: the project file is asked before docker.
SourcesProjectFirst ==
    LET order == <<"cli", "project", "docker", "dotenv", "environment", "prompt">>
    IN  [i \in DOMAIN Ranked |-> layers[order[i]]]

\* The vector of resolve(); without a prompt its layer supplies nothing.
Sources == [i \in DOMAIN Ranked |-> layers[Ranked[i]]]

-----------------------------------------------------------------------------
(* What docker inspect says. *)

\* The words of an image's name, the most specific first.
ImageWords == << {"mssql", "sqlserver", "sql-server"}, {"mariadb"}, {"mysql", "percona"},
                 {"postgres"}, {"sqlite"} >>
ImageDrivers == <<"sqlsrv", "mariadb", "mysql", "postgres", "sqlite">>

\* `image` is the set of those words the name contains.
driver_from_image(image) ==
    LET at == {i \in DOMAIN ImageWords : image \cap ImageWords[i] # {}}
    IN  IF at = {} THEN None ELSE ImageDrivers[CHOOSE i \in at : \A j \in at : i <= j]

driver_of(c) ==
    IF driver_from_image(Described[c].image) # None
    THEN driver_from_image(Described[c].image)
    ELSE IF Described[c].sqlite3 THEN "sqlite" ELSE None

\* The first of the keys the environment of the container has.
Value(env, keys) ==
    LET at == {i \in DOMAIN keys : keys[i] \in DOMAIN env}
    IN  IF at = {} THEN None ELSE env[keys[CHOOSE i \in at : \A j \in at : i <= j]]

ValueOr(env, keys, fallback) ==
    IF Value(env, keys) = None THEN fallback ELSE Value(env, keys)

\* What the official images make of their environment: without a user of its
\* own there is the superuser.
credentials(driver, env) ==
    CASE driver \in {"mysql", "mariadb"} ->
            LET user == Value(env, <<"MYSQL_USER", "MARIADB_USER">>)
            IN  [database |-> Value(env, <<"MYSQL_DATABASE", "MARIADB_DATABASE">>),
                 user |-> IF user = None THEN "root" ELSE user,
                 password |-> Value(env,
                    IF user = None THEN <<"MYSQL_ROOT_PASSWORD", "MARIADB_ROOT_PASSWORD">>
                                   ELSE <<"MYSQL_PASSWORD", "MARIADB_PASSWORD">>)]
      [] driver = "sqlsrv" ->
            [database |-> None, user |-> "sa",
             password |-> Value(env, <<"MSSQL_SA_PASSWORD", "SA_PASSWORD">>)]
      [] driver = "postgres" ->
            [database |-> ValueOr(env, <<"POSTGRES_DB", "POSTGRES_DATABASE">>, "postgres"),
             user |-> ValueOr(env, <<"POSTGRES_USER">>, "postgres"),
             password |-> Value(env, <<"POSTGRES_PASSWORD">>)]

settings(driver, port, env) ==
    LET implied == credentials(driver, env)
    IN  [f \in Fields |->
            CASE f = "driver" -> driver
              [] f = "host" -> "127.0.0.1"
              [] f = "port" -> port
              [] f = "database" /\ implied.database # None -> <<implied.database>>
              [] f \in {"user", "password"} -> implied[f]
              [] OTHER -> NoSource[f]]

\* The mounted paths that end in .db, in mount order.
mounted_databases(c) ==
    LET mounts == Described[c].mounts
        files == {i \in DOMAIN mounts : mounts[i].db}
        rank(i) == Cardinality({j \in files : j <= i})
    IN  [n \in 1 .. Cardinality(files) |-> mounts[CHOOSE i \in files : rank(i) = n].path]

\* Mutant: the port is read although the container is down.
source_of_stopped(c) ==
    IF state[c] = "removed" THEN Unread("ContainerNotFound")
    ELSE IF driver_of(c) \in {None, "sqlite"} THEN Unread("UnrecognisedImage")
    ELSE Read(settings(driver_of(c), published[c], Described[c].env))

\* docker inspect, and source_from_inspect of its answer.  Only a container that
\* runs has published ports; the mounts of one that has stopped are still told.
source_from_inspect(c) ==
    IF c \notin Containers \/ state[c] = "removed" THEN Unread("ContainerNotFound")
    ELSE IF driver_of(c) = None THEN Unread("UnrecognisedImage")
    ELSE IF driver_of(c) = "sqlite"
         THEN IF mounted_databases(c) = <<>> THEN Unread("NoSqliteDatabaseMounted")
              ELSE Read([NoSource EXCEPT !["driver"] = "sqlite",
                                         !["database"] = mounted_databases(c)])
    ELSE IF state[c] # "running" \/ ~Described[c].publishes THEN Unread("NoPublishedPort")
    ELSE Read(settings(driver_of(c), published[c], Described[c].env))

-----------------------------------------------------------------------------
Fail(error) ==
    /\ failure' = error
    /\ stage' = "failed"
    /\ UNCHANGED <<layers, chosen, asking, config>>

\* The layer of a place was read, and the next stage follows; or reading failed.
Take(place, read, next) ==
    IF read.error = None
    THEN /\ layers' = [layers EXCEPT ![place] = read.source]
         /\ stage' = next
         /\ UNCHANGED <<chosen, asking, failure, config>>
    ELSE Fail(read.error)

\* The steps of a resolution leave the world alone.
Undisturbed == UNCHANGED <<args, project, docker, ran, down>>

\* connect() is called.  What it finds depends on nothing of an earlier call.
Connect ==
    /\ stage = "idle"
    /\ stage' = "project"
    /\ layers' = [p \in Places |-> IF p = "cli" THEN args.cli ELSE NoSource]
    /\ ran' = [c \in Containers |-> IF state[c] = "running" THEN {published[c]} ELSE {}]
    /\ down' = {c \in Containers : state[c] # "running"}
    /\ unanswered' = {}
    /\ UNCHANGED <<args, project, docker, chosen, asking, failure, config>>

ReadProject ==
    /\ stage = "project"
    /\ Take("project", load(project), "dotenv")
    /\ Undisturbed /\ UNCHANGED unanswered

\* The file named with --env, which must be there, or .env, which need not be.
ReadDotenv ==
    /\ stage = "dotenv"
    /\ Take("dotenv", from_dotenv(args.dotenv, args.env), "environment")
    /\ Undisturbed /\ UNCHANGED unanswered

ReadEnvironment ==
    /\ stage = "environment"
    /\ Take("environment", from_vars(args.vars), "select")
    /\ Undisturbed /\ UNCHANGED unanswered

\* discovered(): which selector was given.
Select ==
    /\ stage = "select"
    /\ IF args.service # None /\ args.container # None
       THEN Fail("ConflictingSelectors")
       ELSE /\ stage' = IF args.service # None THEN "ps"
                        ELSE IF args.container # None THEN "inspect" ELSE "missing"
            /\ chosen' = args.container
            /\ UNCHANGED <<layers, asking, failure, config>>
    /\ Undisturbed /\ UNCHANGED unanswered

\* The positions of a service's containers in the listing, which --all makes
\* the stopped ones part of.
Replicas(service) ==
    {i \in DOMAIN Listed : Described[Listed[i]].service = service
                           /\ state[Listed[i]] # "removed"}

\* Mutant: whether the container is up is not looked at.
ListContainersOfAnyState ==
    /\ stage = "ps"
    /\ LET found == Replicas(args.service)
       IN  IF found = {} THEN Fail("ServiceNotFound")
           ELSE /\ chosen' = Listed[CHOOSE i \in found : \A j \in found : i <= j]
                /\ stage' = "inspect"
                /\ UNCHANGED <<layers, asking, failure, config>>
    /\ Undisturbed /\ UNCHANGED unanswered

\* docker compose ps answered: the first container of the service counts.
ListContainers ==
    /\ stage = "ps"
    /\ LET found == Replicas(args.service)
           first == Listed[CHOOSE i \in found : \A j \in found : i <= j]
       IN  IF found = {} THEN Fail("ServiceNotFound")
           ELSE IF state[first] # "running" THEN Fail("ServiceNotRunning")
           ELSE /\ chosen' = first
                /\ stage' = "inspect"
                /\ UNCHANGED <<layers, asking, failure, config>>
    /\ Undisturbed /\ UNCHANGED unanswered

InspectContainer ==
    /\ stage = "inspect"
    /\ Take("docker", source_from_inspect(chosen), "missing")
    /\ Undisturbed /\ UNCHANGED unanswered

\* docker is not there, does not run, refuses, or says something else than
\* JSON; for compose there may be no project here.
DockerFails ==
    /\ stage \in {"ps", "inspect"}
    /\ \E fault \in DockerFaults :
        /\ fault = "NoComposeProject" => stage = "ps"
        /\ Fail(fault)
    /\ Undisturbed /\ UNCHANGED unanswered

\* Mutant: whether a terminal is attached is not looked at.
FindMissingAnyway ==
    /\ stage = "missing"
    /\ asking' = missing(Sources)
    /\ stage' = IF asking' = <<>> THEN "resolve" ELSE "prompt"
    /\ Undisturbed /\ UNCHANGED <<layers, chosen, failure, config, unanswered>>

\* What no layer supplies is asked for when a terminal is attached.
FindMissing ==
    /\ stage = "missing"
    /\ asking' = IF args.interactive THEN missing(Sources) ELSE <<>>
    /\ stage' = IF asking' = <<>> THEN "resolve" ELSE "prompt"
    /\ Undisturbed /\ UNCHANGED <<layers, chosen, failure, config, unanswered>>

\* Mutant: the other questions are forgotten once one was answered.
AfterOneQuestion == "resolve"

AfterQuestion == IF Tail(asking) = <<>> THEN "resolve" ELSE "prompt"

\* A line was typed.  Blank leaves the setting open; a driver must parse.
Answer ==
    /\ stage = "prompt"
    /\ \E line \in Lines :
        IF line = ""
        THEN /\ unanswered' = unanswered \cup {Head(asking)}
             /\ asking' = Tail(asking)
             /\ stage' = AfterQuestion
             /\ UNCHANGED <<layers, chosen, failure, config>>
        ELSE IF ~Parses(Head(asking), line)
        THEN Fail("UnknownDriver") /\ UNCHANGED unanswered
        ELSE /\ layers' = [layers EXCEPT !["prompt"][Head(asking)] = Held(Head(asking), line)]
             /\ asking' = Tail(asking)
             /\ stage' = AfterQuestion
             /\ UNCHANGED <<chosen, failure, config, unanswered>>
    /\ Undisturbed

\* End of input: nothing else is asked.
EndOfInput ==
    /\ stage = "prompt"
    /\ unanswered' = unanswered \cup {asking[i] : i \in DOMAIN asking}
    /\ asking' = <<>>
    /\ stage' = "resolve"
    /\ Undisturbed /\ UNCHANGED <<layers, chosen, failure, config>>

\* The terminal cannot be written to or read.
PromptFails ==
    /\ stage = "prompt"
    /\ Fail("Prompt")
    /\ Undisturbed /\ UNCHANGED unanswered

Resolve ==
    /\ stage = "resolve"
    /\ IF resolve_error(Sources) # None THEN Fail(resolve_error(Sources))
       ELSE /\ config' = resolved(Sources)
            /\ stage' = "resolved"
            /\ UNCHANGED <<layers, chosen, asking, failure>>
    /\ Undisturbed /\ UNCHANGED unanswered

Respond == ReadProject \/ ReadDotenv \/ ReadEnvironment \/ Select \/ ListContainers
           \/ InspectContainer \/ FindMissing \/ Resolve
Prompted == Answer \/ EndOfInput \/ PromptFails

\* The environment: containers stop, start again on a port of docker's
\* choosing, and are removed.
Container(c) ==
    /\ \/ state[c] = "running" /\ state' = [state EXCEPT ![c] = "exited"]
                               /\ UNCHANGED published
       \/ state[c] = "exited"
          /\ state' = [state EXCEPT ![c] = "running"]
          /\ \E port \in HostPorts : published' = [published EXCEPT ![c] = port]
       \/ state[c] = "exited" /\ state' = [state EXCEPT ![c] = "removed"]
                              /\ UNCHANGED published
    /\ ran' = [ran EXCEPT ![c] = @ \cup IF state'[c] = "running" THEN {published'[c]} ELSE {}]
    /\ down' = down \cup IF state'[c] = "running" THEN {} ELSE {c}
    /\ UNCHANGED <<args, project, resolution, unanswered>>

DiscoveryNext == Connect \/ Respond \/ DockerFails \/ Prompted
                 \/ \E c \in Containers : Container(c)

-----------------------------------------------------------------------------
(* Properties. *)

Stages == {"idle", "project", "dotenv", "environment", "select", "ps", "inspect",
           "missing", "prompt", "resolve", "resolved", "failed"}

IsSource(source) == source = [f \in Fields |-> source[f]]

DiscoveryTypeOK ==
    /\ state \in [Containers -> {"running", "exited", "removed"}]
    /\ published \in [Containers -> HostPorts]
    /\ stage \in Stages
    /\ layers = [p \in Places |-> layers[p]] /\ \A p \in Places : IsSource(layers[p])
    /\ asking \in Seq({"database", "driver"})
    /\ (stage = "prompt") <=> (asking # <<>> /\ stage # "failed")
    /\ IF stage = "resolved" THEN IsSource(config) ELSE config = None
    /\ (stage = "failed") <=> (failure # None)
    /\ failure \in Failures \cup {None}
    /\ ran \in [Containers -> SUBSET HostPorts] /\ down \subseteq Containers
    /\ unanswered \subseteq {"database", "driver"}

\* "taking each field from the earliest source that supplies it" (config.rs:432-433)
\* in the order of SPEC.md section 6, for a command line that mixes all places:
\* each setting is the one of the first place that states it, whatever another
\* place says of it or of other settings, and only a setting no place states is
\* a default.
EarliestPlaceWins ==
    stage = "resolved" =>
        \A f \in Fields :
            \/ \E i \in DOMAIN Ranked :
                /\ Supplies(layers[Ranked[i]], f)
                /\ config[f] = layers[Ranked[i]][f]
                /\ \A j \in 1 .. (i - 1) : ~Supplies(layers[Ranked[j]], f)
            \/ /\ \A p \in Places : ~Supplies(layers[p], f)
               /\ f \notin {"driver", "database"}

\* "so the prompt asks only for what is genuinely absent" (config.rs:419): what
\* is missing is computed before the prompt and the layers are read again after
\* it.  Nothing is asked that a place has stated, and with a terminal a setting
\* is missing in the end only when its question was not answered.
PromptFillsTheGaps ==
    /\ \A f \in Fields : Supplies(layers["prompt"], f) =>
            \A p \in Places \ {"prompt"} : ~Supplies(layers[p], f)
    /\ args.interactive /\ failure = "MissingDatabase" => "database" \in unanswered
    /\ args.interactive /\ failure = "UnknownEngine" => "driver" \in unanswered

\* The containers the command line names.
Named ==
    IF args.service # None
    THEN {Listed[i] : i \in {j \in DOMAIN Listed : Described[Listed[j]].service = args.service}}
    ELSE {args.container} \cap Containers

\* "Asking which container is running the service and reading that container
\* reports what is really listening" (discovery.rs:90-91): docker is asked twice,
\* and whatever its containers do in between, a discovered port is one that a
\* container of what the command line named was published on while it ran, after
\* the command began.
DiscoveredPortIsLive ==
    stage = "resolved" /\ Supplies(layers["docker"], "port") =>
        \E c \in Named : Described[c].publishes /\ layers["docker"]["port"] \in ran[c]

\* The errors of discovery say something of docker (discovery.rs:510-590), and
\* whatever its containers do, it is or was so: what is not found is gone, also
\* when it was there for the first of the two questions; what is not running has
\* been down since the command began; and of a service only a container that ran
\* is looked into.  A service with several containers is said not to run as soon
\* as its first one is down.
RefusalsAreTrue ==
    /\ failure = "ServiceNotFound" => Replicas(args.service) = {}
    /\ failure = "ServiceNotRunning" => Named \cap down # {}
    /\ failure = "ContainerNotFound" =>
        IF args.service # None THEN \E c \in Named : state[c] = "removed" /\ ran[c] # {}
        ELSE \A c \in Named : state[c] = "removed"
    /\ failure = "NoPublishedPort" =>
        \E c \in Named :
            /\ c \in down \/ ~Described[c].publishes
            /\ args.service # None => ran[c] # {}

=============================================================================
