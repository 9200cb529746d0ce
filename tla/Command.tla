-------------------------------- MODULE Command --------------------------------
(***************************************************************************)
(* The binary: run() of src/src/main.rs and the commands it calls, with    *)
(* discovery and execution in place, mcp() of src/src/mcp.rs up to where   *)
(* it serves, and the exit codes.  Someone runs one command line after     *)
(* another in one directory; a command may be killed, and the project file *)
(* may be edited, at any time.                                             *)
(***************************************************************************)
EXTENDS Execution

CONSTANTS
    Sessions        \* what is run in one directory: the command lines, the
                    \* project file someone keeps there, the containers that
                    \* change, and whether commands are killed: [lines,
                    \* project, moving, kills]

\* clap parses --driver, and collects each --database; files are read in order,
\* and a statement is text.
ASSUME SessionsAssumption ==
    \A s \in Sessions :
        /\ IsList(s.project.entries) /\ s.moving \subseteq Containers
        /\ \A line \in s.lines :
            /\ IsSource(line.cli)
            /\ line.cli["driver"] \in Drivers \cup {None} /\ IsList(line.cli["database"])
            /\ IsList(line.dotenv.entries) /\ IsList(line.vars)
            /\ line.statement = None \/ IsList(line.statement)

VARIABLES
    session,        \* the member of Sessions at hand
    at,             \* where the command stands
    code,           \* its exit code, or None
    stdout,         \* "empty", "whole" or "cut": what it has printed
    target,         \* the file it may write instead: "absent", "whole" or "cut"
    cutting,        \* TRUE: it has truncated the file it writes
    before,         \* history: the project file when the command began
    report          \* "clean", or "findings" once a report with some was made

mainVars == <<session, at, code, stdout, target, cutting, before, report>>
vars == <<discoveryVars, executionVars, mainVars>>

\* Commands by what they need.
Catalog == {"inspect", "validate", "stats", "graph", "mcp"}
Connecting == Catalog \cup {"execute-statement"}
Printing == {"validate", "stats", "diff", "execute-statement"}

\* The project file as dbctx init leaves it: every key a comment.
Template == [state |-> "whole", entries |-> <<>>]
\* And as it is after the truncation and before the text: no [dbctx] table.
Truncated == [state |-> "malformed", entries |-> <<>>]
NoProject == [state |-> "absent", entries |-> <<>>]

Fresh(line) ==
    /\ args' = line
    /\ at' = "parsed" /\ code' = None /\ stdout' = "empty" /\ cutting' = FALSE
    /\ report' = "clean"
    /\ stage' = "idle" /\ layers' = [p \in Places |-> NoSource]
    /\ chosen' = None /\ asking' = <<>> /\ failure' = None /\ config' = None
    /\ ran' = [c \in Containers |-> {}] /\ down' = {} /\ unanswered' = {}
    /\ phase' = "idle" /\ dialled' = <<>> /\ attached' = <<>>
    /\ answer' = NoAnswer /\ fetched' = <<>>

Init ==
    /\ session \in Sessions
    /\ args \in session.lines
    /\ project = session.project /\ before = session.project
    /\ state = [c \in Containers |-> "running"]
    /\ published = [c \in Containers |-> CHOOSE port \in HostPorts : TRUE]
    /\ at = "parsed" /\ code = None /\ stdout = "empty" /\ cutting = FALSE
    /\ target = "absent" /\ report = "clean"
    /\ stage = "idle" /\ layers = [p \in Places |-> NoSource]
    /\ chosen = None /\ asking = <<>> /\ failure = None /\ config = None
    /\ ran = [c \in Containers |-> {}] /\ down = {} /\ unanswered = {}
    /\ phase = "idle" /\ dialled = <<>> /\ attached = <<>>
    /\ answer = NoAnswer /\ fetched = <<>>

Goto(place) == at' = place /\ UNCHANGED <<session, code, stdout, target, cutting, before, report>>

Exit(c) ==
    /\ at' = "exited" /\ code' = c
    /\ UNCHANGED <<session, stdout, target, cutting, before, report>>

\* The code a shell reports of a command a signal ended.
Signalled == 137

Elsewhere == UNCHANGED <<discoveryVars, executionVars>>

-----------------------------------------------------------------------------
(* From the command line to the command. *)

\* clap refuses the arguments, or prints the help it was asked for.
Usage ==
    /\ at = "parsed"
    /\ \/ args.command = "unusable" /\ Exit(64)
       \/ args.command = "help" /\ Exit(0)
       \* mcp starts its runtime before it reads anything.
       \/ args.command = "mcp" /\ Exit(1)
       \* No query, neither by position nor by --query.
       \/ args.command = "execute-statement" /\ args.statement = None /\ Exit(8)
    /\ Elsewhere

Begin ==
    /\ at = "parsed"
    /\ \/ args.command = "init" /\ Goto("looking") /\ UNCHANGED discoveryVars
       \/ args.command = "diff" /\ Goto("comparing") /\ UNCHANGED discoveryVars
       \* --stdout, or neither --output nor --mode file.
       \/ /\ args.command = "llm-txt"
          /\ Goto(IF args.output THEN "writing" ELSE "printing")
          /\ UNCHANGED discoveryVars
       \/ /\ args.command \in Connecting
          /\ args.command = "execute-statement" => args.statement # None
          /\ Connect /\ Goto("connecting")
    /\ UNCHANGED executionVars

\* Discovery runs inside the command, and containers change whenever they like.
Resolving ==
    /\ at = "connecting"
    /\ Respond \/ DockerFails \/ Prompted
    /\ UNCHANGED <<executionVars, mainVars>>

DockerMoves ==
    /\ \E c \in session.moving : Container(c)
    /\ UNCHANGED <<executionVars, mainVars>>

\* Mutant: a discovery error is taken for a failed connection.
NotConfiguredAsRefused ==
    /\ at = "connecting" /\ stage = "failed"
    /\ Exit(IF failure \in DockerFaults THEN 2 ELSE 3)
    /\ Elsewhere

\* Nothing has been dialled.  mcp wraps every error in its own.
NotConfigured ==
    /\ at = "connecting" /\ stage = "failed"
    /\ Exit(IF args.command = "mcp" THEN 1 ELSE 3)
    /\ Elsewhere

\* The runtime is built, or is not, and the command's own work begins.
Configured ==
    /\ at = "connecting" /\ stage = "resolved"
    /\ \/ /\ phase' = IF args.command = "execute-statement" THEN "checking" ELSE "dialling"
          /\ Goto("working")
       \/ args.command # "mcp" /\ Exit(4) /\ UNCHANGED phase
    /\ UNCHANGED <<discoveryVars, dialled, attached, answer, fetched>>

-----------------------------------------------------------------------------
(* The work. *)

Executing == at = "working" /\ args.command = "execute-statement"
Timed == at = "working" /\ args.command \in {"execute-statement", "mcp"}

Database ==
    /\ at = "working"
    /\ \/ Dial \/ Attach \/ DialFails
       \/ Executing /\ (CheckStatement \/ Query \/ Fetch \/ FetchFails \/ FetchEnds)
    /\ UNCHANGED <<discoveryVars, mainVars>>

\* The timeout of execute-statement, and of the first schema of mcp.
TimesOut == Timed /\ Expire /\ UNCHANGED <<discoveryVars, mainVars>>

\* ExecutionError::exit_code and CliError::exit_code of a DatabaseError.
CodeOf(p) ==
    IF args.command = "mcp" THEN 1
    ELSE CASE p = "rejected" -> 8 [] p = "refused" -> 2 [] p = "expired" -> 7

\* The connection or the statement came to an end the command reports.
WorkFails ==
    /\ at = "working" /\ phase \in {"rejected", "refused", "expired"}
    /\ Exit(CodeOf(phase))
    /\ Elsewhere

Executed == Executing /\ phase = "returned" /\ Goto("printing") /\ Elsewhere

\* What follows database::inspect.
After(kind) ==
    CASE kind \in {"validate", "stats"} -> "printing"
      [] kind = "graph" -> IF args.output THEN "writing" ELSE "printing"
      [] kind = "inspect" -> "exporting"
      [] kind = "mcp" -> "serving"

\* database::inspect over an open connection: it returns a Database, on which a
\* rule may find something; fails with a connection error; or meets a catalog of
\* an unexpected shape.
Inspect ==
    /\ at = "working" /\ args.command \in Catalog /\ phase = "open"
    /\ \/ \E found \in {"clean"} \cup IF args.command = "validate" THEN {"findings"} ELSE {} :
            /\ report' = found
            /\ at' = After(args.command)
            /\ UNCHANGED <<session, code, stdout, target, cutting, before>>
       \/ Exit(IF args.command = "mcp" THEN 1 ELSE 2)
       \/ Exit(1)
    /\ Elsewhere

\* diff reads its two documents; one that is missing or no document ends it.
Compare ==
    /\ at = "comparing"
    /\ \/ \E found \in {"clean", "findings"} :
            /\ report' = found
            /\ at' = "printing"
            /\ UNCHANGED <<session, code, stdout, target, cutting, before>>
       \/ Exit(1)
    /\ Elsewhere

\* export() writes the artifacts, refuses or fails.
Export == at = "exporting" /\ (Exit(0) \/ Exit(4)) /\ Elsewhere

\* rmcp serves until the client goes, or fails to.
Serve == at = "serving" /\ (Exit(0) \/ Exit(1)) /\ Elsewhere

\* What a command that has printed exits with.
CodeOfReport ==
    CASE report = "findings" /\ args.command = "validate" -> 5
      [] report = "findings" /\ args.command = "diff" -> 10
      [] OTHER -> 0

\* The document goes out in one piece, or standard output breaks on the way:
\* println! and print! panic, only graph looks at the error.
PrintDocument ==
    /\ at = "printing"
    /\ \/ stdout' = "whole" /\ code' = CodeOfReport
       \/ stdout' \in {"empty", "cut"} /\ code' = IF args.command = "graph" THEN 4 ELSE 101
    /\ at' = "exited"
    /\ UNCHANGED <<session, target, cutting, before, report>>
    /\ Elsewhere

\* fs::write of graph --output and llm-txt --output, which replace what is there.
WriteTarget ==
    /\ at = "writing"
    /\ \/ ~cutting /\ target' = "cut" /\ cutting' = TRUE /\ UNCHANGED <<at, code>>
       \/ cutting /\ target' = "whole" /\ cutting' = FALSE /\ at' = "exited" /\ code' = 0
       \/ at' = "exited" /\ code' = 4 /\ UNCHANGED <<target, cutting>>
    /\ UNCHANGED <<session, stdout, before, report>>
    /\ Elsewhere

-----------------------------------------------------------------------------
(* dbctx init. *)

\* Mutant: a file that says nothing may be replaced.
LookForWords ==
    /\ at = "looking"
    /\ IF project.entries # <<>> /\ ~args.force THEN Exit(1) ELSE Goto("initializing")
    /\ Elsewhere

\* path.exists()
Look ==
    /\ at = "looking"
    /\ IF project.state # "absent" /\ ~args.force THEN Exit(1) ELSE Goto("initializing")
    /\ Elsewhere

\* fs::write: the file is created or truncated, and then it holds the template.
WriteProject ==
    /\ at = "initializing"
    /\ \/ /\ ~cutting
          /\ project' = Truncated /\ cutting' = TRUE
          /\ UNCHANGED <<at, code, stdout>>
       \/ /\ cutting
          /\ project' = Template /\ cutting' = FALSE
          /\ at' = "exited"
          /\ \/ code' = 0 /\ stdout' \in {"whole", "empty"}
             \/ code' = 101 /\ stdout' = "empty"
       \/ at' = "exited" /\ code' = 1 /\ UNCHANGED <<project, cutting, stdout>>
    /\ UNCHANGED <<session, target, before, report>>
    /\ UNCHANGED <<args, docker, resolution, history, executionVars>>

-----------------------------------------------------------------------------
(* The world. *)

\* A signal ends the command where it is.
Kill == session.kills /\ at # "exited" /\ Exit(Signalled) /\ Elsewhere

\* Someone puts a project file of their own in place.
Edit ==
    /\ session.kills /\ session.project.state # "absent"
    /\ project' = session.project
    /\ UNCHANGED <<args, docker, resolution, history, executionVars, mainVars>>

\* The next command line.
Again ==
    /\ at = "exited"
    /\ \E line \in session.lines : Fresh(line)
    /\ before' = project
    /\ UNCHANGED <<session, project, docker, target>>

Main == Usage \/ Begin \/ NotConfigured \/ Configured \/ WorkFails \/ Executed
        \/ Compare \/ Export \/ PrintDocument \/ WriteTarget \/ Look \/ WriteProject

Next == Main \/ Resolving \/ DockerMoves \/ Database \/ TimesOut \/ Inspect
        \/ Serve \/ Kill \/ Edit \/ Again

Spec == Init /\ [][Next]_vars

-----------------------------------------------------------------------------
(* Properties. *)

\* Reading files, resolving, running to the end: what waits for a person, for
\* docker or for a database is not fair.  The timeout is a timer's.
Fairness ==
    /\ WF_vars(Main) /\ WF_vars(Resolving /\ stage \notin {"prompt", "ps", "inspect"})
    /\ WF_vars(Database /\ phase = "checking")
    /\ WF_vars(TimesOut)

FairSpec == Spec /\ Fairness

CommandTypeOK ==
    /\ DiscoveryTypeOK
    /\ args \in session.lines
    /\ project \in {session.project, Truncated, Template}
    /\ at \in {"parsed", "connecting", "working", "printing", "writing", "exporting",
               "serving", "looking", "initializing", "comparing", "exited"}
    /\ (code # None) <=> (at = "exited")
    /\ stdout \in {"empty", "whole", "cut"} /\ target \in {"absent", "whole", "cut"}
    /\ cutting => (target = "cut" \/ project = Truncated \/ session.kills)
    /\ phase \in {"idle", "checking", "rejected", "returned", "refused", "expired"}
                 \cup Contacting
    /\ phase # "idle" => stage = "resolved"
    /\ Len(attached) > 0 => dialled # <<>>
    /\ \A i \in DOMAIN fetched : fetched[i] = answer.rows[i]

\* "The exit code `CLI.md` gives this failure" (main.rs:386), and "nothing has
\* been dialled yet, so 2 stays reserved for the attempt itself" (main.rs:393-394):
\* wherever and in whichever command something failed, its exit code is the one
\* of what failed, and no other code is given away by what failed there.  Not
\* CLI.md's are two codes, which are stated as the code has them: a statement the
\* database refuses or breaks off leaves with 2, as a failed connection does, and
\* not with the 7 of CLI.md:351; and mcp leaves with 1 for everything, where
\* CLI.md:394-397 lists 2 and 3.
ExitCodeIsTrue ==
    /\ code \notin {None, Signalled} /\ args.command # "mcp" =>
        /\ failure # None => code = 3
        /\ phase = "rejected" => code = 8
        /\ phase = "refused" => code = 2
        /\ phase = "expired" => code = 7
    /\ args.command = "mcp" => code \in {None, 0, 1, Signalled}
    /\ code = 2 =>
        /\ dialled # <<>>
        /\ phase = "refused" \/ (phase = "open" /\ args.command \in Catalog)
    /\ code = 3 => dialled = <<>> /\ failure # None
    /\ code = 4 => phase \in {"idle", "open"}
    /\ code = 7 => args.command = "execute-statement" /\ phase = "expired"
    /\ code = 8 =>
        /\ args.command = "execute-statement" /\ dialled = <<>>
        /\ phase = "rejected" \/ args.statement = None
    /\ code \in {5, 10} => stdout = "whole" /\ report = "findings"
    /\ code = 0 =>
        /\ phase \notin {"rejected", "refused", "expired"} /\ failure = None /\ report = "clean"
        /\ args.command \in Printing => stdout = "whole"
        /\ args.command \in {"graph", "llm-txt"} => "whole" \in {stdout, target}
        /\ args.command = "init" => project \in {Template, session.project}

\* "dbctx init will not replace a configuration file you may have edited"
\* (main.rs:353): without --force a project file that was there when the command
\* began is not touched, also one that an earlier init was killed over.
InitKeepsEdits ==
    [][at = "initializing" /\ project' # project => args.force \/ before.state = "absent"]_vars

\* What the database is sent is what resolution came to: the address, and for
\* SQLite "`main`, `attach1`, `attach2`, ... order" (SPEC.md:207), whichever
\* place the list of files is from.
ConnectionIsResolved ==
    phase \in {"open", "fetching", "returned"} =>
        /\ attached = config["database"]
        /\ config["driver"] # "sqlite" =>
            dialled[1].host = config["host"] /\ dialled[1].port = config["port"]

\* "The statement is verified to be read-only before execution; any mutating
\* statement is rejected without contacting the database" (CLI.md:333-334): of
\* the texts whose names are plain, those and only those that the standard
\* reads as a single query without a mutating keyword reach a database.
VerdictIsTheStandards ==
    /\ args.command = "execute-statement" /\ args.statement # None /\ PlainNames(args.statement)
    => /\ dialled # <<>> => SingleQuery(args.statement)
       /\ phase = "rejected" => ~SingleQuery(args.statement)

\* A result is printed as a whole: every row, in order, under its columns, and
\* neither a broken connection nor the timeout leaves a part of it.  What has
\* no row has no columns on PostgreSQL and SQLite.
PrintedResultIsWhole ==
    args.command = "execute-statement" /\ stdout # "empty" =>
        /\ fetched = answer.rows
        /\ Columns # answer.columns => fetched = <<>> /\ config["driver"] \in {"postgres", "sqlite"}

\* What JSON, sqlx and the text protocol can tell apart: finite floats, numerals
\* written without needless zeros, types that are decoded, whole seconds.
Representable(driver, cell) ==
    CASE driver \in {"mysql", "mariadb"} ->
            LET digits == IF cell.value # <<>> /\ cell.value[1] = Minus THEN Tail(cell.value)
                          ELSE cell.value
            IN  Digits(digits) => digits[1] # 0 \/ cell.value = <<0>>
      [] driver = "sqlsrv" /\ cell.type = "datetime" -> cell.value % 300 = 0
      [] cell.type \in {"float", "numeric"} -> cell.value # NotFinite
      [] OTHER -> cell.type # "other"

\* "Rows, each a list of cell values in column order" (execution.rs:66): the
\* values of a column that differ are printed differently, and null stands for
\* NULL alone, at every width and in every type a driver can decode.
CellsStayApart ==
    phase = "returned" =>
        \A i, k \in DOMAIN fetched : \A j \in DOMAIN fetched[i] :
            LET one == fetched[i][j]  other == fetched[k][j]
            IN  /\ \A c \in {one, other} : c.value # None => Representable(config["driver"], c)
                /\ Rows[i][j] = Rows[k][j]
                => one = other \/ {one.value, other.value} = {None}

\* "so a piped or scheduled run fails with a message instead of waiting for an
\* answer that will never come" (main.rs:326-327): without a terminal a command
\* gets past its configuration, whatever is missing.  Only docker, once it is
\* asked, is waited for without end.
UnattendedGoOn ==
    (at = "connecting" /\ ~args.interactive) ~> (at # "connecting" \/ stage \in {"ps", "inspect"})

\* A statement, or the first schema of mcp, is waited for no longer than its
\* timeout, also when the server never answers.
TimedCommandsEnd ==
    Timed ~> (at # "working")

\* "A configured socket takes precedence over the host" (SPEC.md:195).
SocketTakesPrecedence ==
    dialled # <<>> /\ config["driver"] \in {"mysql", "mariadb"} /\ config["socket"] # None =>
        dialled[1].via = "socket"

=============================================================================
