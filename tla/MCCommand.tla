------------------------------- MODULE MCCommand -------------------------------
(* Command lines on small instances. *)
EXTENDS Command, FiniteSets, TLC

CONSTANTS db1, db2, pg, ms, lite, blank, web

-----------------------------------------------------------------------------
(* Docker: a service of two containers, one of each engine, one of none. *)

Box(service, image, env, publishes, mounts) ==
    [service |-> service, image |-> image, sqlite3 |-> mounts # <<>>, env |-> env,
     publishes |-> publishes, mounts |-> mounts]

MysqlEnv == [MYSQL_DATABASE |-> "shop", MYSQL_USER |-> "app", MYSQL_PASSWORD |-> "pw",
             MYSQL_ROOT_PASSWORD |-> "rootpw"]

Boxes ==
    (db1 :> Box("db", {"mysql"}, MysqlEnv, TRUE, <<>>)) @@
    (db2 :> Box("db", {"mariadb", "mysql"}, [MARIADB_ROOT_PASSWORD |-> "rootpw"], TRUE, <<>>)) @@
    (pg :> Box("pg", {"postgres"}, [POSTGRES_PASSWORD |-> "pw"], FALSE, <<>>)) @@
    (ms :> Box("ms", {"mssql"}, [SA_PASSWORD |-> "pw"], TRUE, <<>>)) @@
    (lite :> Box("lite", {}, [x \in {} |-> None], FALSE,
                 << [path |-> "main.db", db |-> TRUE], [path |-> "log", db |-> FALSE],
                    [path |-> "old.db", db |-> TRUE] >>)) @@
    (blank :> Box("blank", {"sqlite"}, [x \in {} |-> None], FALSE, <<>>)) @@
    (web :> Box("web", {}, [x \in {} |-> None], TRUE, <<>>))

AllContainers == {db1, db2, pg, ms, lite, blank, web}
Project == <<db1, db2, pg, lite, web>>
TwoPorts == {49153, 49154}
Faults == {"DockerMissing", "DockerRefused", "Unreadable", "NoComposeProject"}
Typed == {"", "sqlite", "mysql", "oracle"}

-----------------------------------------------------------------------------
(* Command lines and sessions. *)

File(lines) == [state |-> "whole", entries |-> lines]
Entry(key, value) == [key |-> key, value |-> value]
Absent == NoProject

Source(driver, database, port) ==
    [NoSource EXCEPT !["driver"] = driver, !["database"] = database, !["port"] = port]

\* A command line that states everything itself.
Line(command) ==
    [command |-> command, cli |-> Source("sqlite", <<"a.db", "b.db">>, None),
     env |-> FALSE, dotenv |-> Absent, vars |-> <<>>, service |-> None, container |-> None,
     interactive |-> FALSE, statement |-> None, output |-> FALSE, force |-> FALSE]

Session(lines) == [lines |-> lines, project |-> Absent, moving |-> {}, kills |-> FALSE]

\* Settings from everywhere: each place states one of these parts of a connection.
Parts == {<<None, None>>, <<"postgres", None>>, <<None, 5433>>, <<"mysql", 3307>>}
Lines2(part, names) ==
    (IF part[1] = None THEN <<>> ELSE <<Entry(names[1], part[1])>>)
    \o (IF part[2] = None THEN <<>> ELSE <<Entry(names[2], part[2])>>)
DotenvNames == <<"DB_CONNECTION", "DB_PORT">>

Layered ==
    { [Session({[Line("stats") EXCEPT !.cli = Source(cli[1], database, cli[2]),
                                      !.dotenv = File(Lines2(dotenv, DotenvNames)
                                                      \o <<Entry("DB_DATABASE", "env_db")>>),
                                      !.vars = Lines2(environ, DotenvNames),
                                      !.container = container]})
          EXCEPT !.project = File(Lines2(file, <<"driver", "port">>))] :
        cli \in Parts, file \in Parts, dotenv \in Parts, environ \in {<<None, None>>, <<"sqlite", 1>>},
        database \in {<<>>, <<"x", "y">>}, container \in {None, db1, db2, lite} }

\* Settings that are missing, and someone who may be there to answer.
Asked ==
    { Session({[Line("stats") EXCEPT !.cli = Source(driver, database, None),
                                     !.container = container, !.interactive = interactive]}) :
        driver \in {None, "mysql"}, database \in {<<>>, <<"x", "y">>},
        container \in {None, ms}, interactive \in BOOLEAN }

\* Docker asked while its containers change.
Moving ==
    { [Session({[Line("stats") EXCEPT !.cli = NoSource, !.service = pick[1], !.container = pick[2]]})
          EXCEPT !.moving = pick[3]] :
        pick \in { <<"db", None, {db1, db2}>>, <<"pg", None, {pg}>>, <<"lite", None, {lite}>>,
                   <<"web", None, {web}>>, <<"none", None, {db1}>>, <<None, db2, {db2, db1}>>,
                   <<None, blank, {blank}>>, <<None, ms, {ms}>>, <<"db", db1, {db1}>> } }

\* Files and variables that are not as they should be.
Faulty ==
    { [Session({[Line("stats") EXCEPT !.env = pick[2], !.dotenv = pick[3], !.vars = pick[4]]})
          EXCEPT !.project = pick[1]] :
        pick \in {
            <<Absent, TRUE, Absent, <<>>>>,
            <<Absent, FALSE, [state |-> "malformed", entries |-> <<>>], <<>>>>,
            <<Absent, FALSE, File(<<Entry("DB_PORT", Garbled), Entry("DB_CONNECTION", "oracle")>>), <<>>>>,
            <<Absent, FALSE, Absent, <<Entry("DB_HOST", "h"), Entry("DB_CONNECTION", "oracle")>>>>,
            <<File(<<Entry("password", "pw"), Entry("hots", "h")>>), FALSE, Absent, <<>>>>,
            <<File(<<Entry("hots", "h")>>), FALSE, Absent, <<>>>>,
            <<File(<<Entry("port", 70000)>>), FALSE, Absent, <<>>>>,
            <<[state |-> "unreadable", entries |-> <<>>], FALSE, Absent, <<>>>> } }

\* Every command, one after another, killed anywhere, with a project file someone
\* edits or with none.
Commands ==
    {Line(c) : c \in {"unusable", "help", "inspect", "validate", "stats", "graph", "diff", "mcp",
                      "init", "llm-txt", "execute-statement"}}
    \cup {[Line(c) EXCEPT !.output = TRUE] : c \in {"graph", "llm-txt"}}
    \cup {[Line("init") EXCEPT !.force = TRUE],
          [Line("execute-statement") EXCEPT !.statement = <<"select">>]}
Killed == {[Session(Commands) EXCEPT !.kills = TRUE, !.project = file] :
              file \in {Absent, File(<<Entry("host", "h")>>)}}

\* A statement on each engine.
Queried ==
    {Session({[Line("execute-statement") EXCEPT !.cli = Source(d, IF d = "sqlite" THEN <<"a", "b", "c">>
                                                                                  ELSE <<"a">>, None),
                                                !.statement = <<"select">>]}) :
        d \in Drivers \ {"mariadb"}}

\* Texts: whole ones of up to MaxText symbols after SELECT, and of up to 2 without.
MaxText == 3
Symbols == {"select", "drop", "a", "0", " ", "newline", "semicolon", "quote", "dquote", "bracket",
            "close", "-", "/", "*", "escape"}
Texts == {<<>>} \cup UNION {{<<"select">> \o t : t \in [1 .. n -> Symbols]} : n \in 0 .. MaxText}
                \cup UNION {[1 .. n -> Symbols] : n \in 1 .. 2}
Read1 == {Session({[Line("execute-statement") EXCEPT !.cli = Source("mariadb", <<"a">>, None),
                                                    !.statement = t]}) : t \in Texts}

AllSessions == Layered \cup Asked \cup Moving \cup Faulty \cup Killed \cup Queried \cup Read1

Socketed == {Session({[Line("stats") EXCEPT !.cli = [Source(d, <<"a">>, None) EXCEPT !["socket"] = s,
                                                                                     !["host"] = h]]}) :
                d \in Drivers \ {"sqlite"}, s \in {None, "/tmp/mysql.sock"}, h \in {None, "db.internal"}}

-----------------------------------------------------------------------------
(* What a statement returns: one column, of every kind of value its engine has.
   In a column of SQLite each value has a type of its own. *)

Cell(type, value) == [type |-> type, value |-> value]
Empty == [columns |-> <<"c">>, rows |-> <<>>]

Numerals == {<<>>, <<7>>, <<0, 7>>, <<9, 9>>, <<1, 0, 0>>, <<9, 9, 9>>, <<Minus>>, <<Minus, 5, 0>>,
             <<Minus, 5, 1>>, <<Letter>>, <<NotUtf8>>}
Cells ==
    [mysql |-> {Cell("text", v) : v \in Numerals},
     mariadb |-> {},
     sqlsrv |-> {Cell("int", 7), Cell("float", 7), Cell("float", NotFinite), Cell("bit", 1),
                 Cell("text", 7), Cell("bytes", 7), Cell("date", 1), Cell("date", 2),
                 Cell("datetime", 300), Cell("datetime", 450), Cell("datetime", 600),
                 Cell("other", 1)},
     postgres |-> {Cell("int", 7), Cell("float", 7), Cell("float", NotFinite), Cell("bool", 1),
                   Cell("text", 7), Cell("numeric", 7), Cell("numeric", NotFinite),
                   Cell("bytes", 7), Cell("date", 1), Cell("other", 1)},
     sqlite |-> {Cell("int", 7), Cell("float", 7), Cell("float", NotFinite), Cell("text", 7),
                 Cell("bytes", 7)}]
Returned ==
    [d \in Drivers |->
        LET cells == Cells[d] \cup {Cell(c.type, None) : c \in Cells[d]}
        IN  {Empty} \cup {[columns |-> <<"c">>, rows |-> <<<<p[1]>>, <<p[2]>>>>] :
                p \in {q \in cells \X cells : d = "sqlite" \/ q[1].type = q[2].type}}]

=============================================================================
