# dbctx in TLA+

dbctx reads the catalog of a live database (MySQL/MariaDB, PostgreSQL, SQL
Server, SQLite), turns it into one canonical `Database`, and exports, validates,
compares or serves it. These modules model the parts of it whose correctness
depends on order, concurrency, failure or an algorithm that tests reach poorly.
Rust files are cited relative to `src/` of the repository, documents relative to
`docs/`.

Run a model with `tlc -config X.cfg M`, check the proofs with `tlapm M.tla` for
each module whose name ends in `Proofs`.

## The system

| Component | State | Operations | Interacts with | What is hard, what makes it correct |
|---|---|---|---|---|
| Command line (`cli.rs`, `main.rs`) | none beyond one process | `inspect`, `validate`, `diff`, `stats`, `graph`, `llm-txt`, `init`, `execute-statement`, `mcp` | every other component; exit codes | a command fails or dies anywhere, and the exit code is all a script sees |
| Configuration (`config.rs`) | one layer per place (flags, Docker, project file, `.env`, environment, prompt) | `from_*`, `load`, `missing`, `resolve` | discovery | each setting comes from the first layer that has it, independently of the others |
| Discovery (`discovery.rs`) | none; two `docker` calls | `resolve` | Docker, configuration, a prompt | the containers change between the two calls; the first of several replicas stands for all |
| Introspection (`database/*.rs`) | maps of rows, per query | `inspect` per driver | the live catalog | every query has its own snapshot and nothing spans them; rows are joined by name |
| Canonical model (`model.rs`) | `Database` | `sort`, `relationships` | everything | a description means what its documentation says; identical schemas sort identically |
| Analysis, AI context, statistics (`analysis.rs`, `ai.rs`, `stats.rs`) | annotations of a `Database` | `analyze`, `generate`, counts | run between inspection and export | they agree with each other and depend on no order |
| Validation (`validation.rs`) | a report; Tarjan's stack, indices and lowlinks | `validate`, seven rules | main, which turns findings into exit code 5 | the report is true of the schema and depends on no order |
| Diff (`diff.rs`) | a report | `diff_files`, `diff` | two exported documents | complete, empty exactly when nothing changed, and quiet about what did not |
| Export (`export.rs`) | files of the output directory | `export` | the file system, other processes | many writes, none atomic, nothing cleaned up; the check for existing files is a step of its own |
| MCP server (`mcp_server.rs`, `mcp.rs`) | `cache`, a `Database` behind a tokio `RwLock` that all sessions share | `list_resources`, `read_resource`, `get_prompt`, `refresh-schema`, `execute-statement` | introspection, execution, clients | concurrent tasks, timeouts, a cache that may be stale or regress |
| Execution (`execution.rs`) | none | `execute`: read-only scanner, timeout, rows, cells | the live database | the scanner must tell a query from everything else; a result is whole or not printed |
| Database lab (`dbctx-database-lab/`, `scripts/`) | test databases | - | - | not part of the program |

A command is a pipeline: configuration and discovery choose a connection,
`database::inspect` reads the catalog, analysis and AI context annotate the
`Database`, and export, validation or statistics consume it. `execute-statement`
checks its text before it connects. The MCP server keeps the `Database` of one
inspection and serves it until `refresh-schema` replaces it. Diff never touches
a database, only exported documents.

## The modules

| Module | Models | Proved in |
|---|---|---|
| `SchemaCache` | abstract: the cache is one atomic register | - |
| `McpServer` | tasks, lock, queue, inspections of the MCP server | `McpServerProofs` |
| `Export` | `dbctx inspect` writing its artifacts, with other processes | `ExportProofs` |
| `Config` | the layers of settings, how each is read, how they resolve | `CommandProofs` |
| `Discovery` | `connect()` and `resolve()` step by step, with Docker and a person | `CommandProofs` |
| `ReadOnly` | the scanner of statements, and the standard's reading of one | `ReadOnlyProofs` |
| `Execution` | connecting, fetching, the timeout, cells as JSON | `CommandProofs` |
| `Command` | every command from its arguments to its exit code; composes the four above | `CommandProofs` |
| `Introspection` | the four drivers' queries, maps and join, beside DDL | `IntrospectionProofs` |
| `Validation` | the seven rules and Tarjan's algorithm, as operators | `ValidationProofs` |
| `Documents` | `sort`, `relationships`, analysis, notes, counts, diagram, Markdown | `ValidateCommandProofs` (`sort`) |
| `ValidateCommand` | `dbctx validate` and the documents over given databases | `ValidateCommandProofs` |
| `InspectAndValidate` | composes `Introspection` and `Validation` | - |
| `Diff` | `diff()` and its parts, as operators | `DriftProofs` |
| `Drift` | `dbctx diff` over the documents two exports left | `DriftProofs` |
| `MCMcpServer`, `MCExport`, `MCCommand`, `MCValidateCommand`, `MCInspectAndValidate`, `MCDrift` | the instances TLC checks | |

Definitions whose comment begins with "Mutant:" are plausible bugs. Each one
differs from the definition below it in one respect, no specification uses it,
and in its place the property it is meant for fails.

### McpServer and SchemaCache

The live schema is a version number that `Migrate` advances; a `Database` maps
each catalog query of an inspection to the version that query saw, so that two
versions in one `Database` are a torn schema. A task is a program counter:

| Action | Code |
|---|---|
| `CallRead`, `AcquireRead` | `self.cache.read().await` in `list_resources`, `read_resource`, `get_prompt`; tokio admits tasks in arrival order, which is `queue` |
| `Render`, `Respond`, `RefuseRead` | the document rendered from the borrowed `Database`, part by part, and the answer; an unknown URI or prompt is an error found under the guard |
| `CallRefresh`, `Inspect`, `Inspected`, `InspectFails` | `read_schema` with no lock held; an error or the introspection timeout drops it between two queries |
| `InstallSchema` | `*self.cache.write().await = database` |
| `CallExecute`, `ExecuteReturns` | `execute-statement`, which never touches the cache |
| `Deliver` | the client has the answer and may call again |

`since`, `promised`, `floor` and `refreshes` are history: when a refresh was
called, the newest such moment of a successful one, its value when a read was
called, and whether two refreshes were ever in flight at once.

`SchemaCache` is what clients may rely on: a read answers with the register's
value at one instant between call and answer; a refresh fails and changes
nothing, or replaces the register in one instant by a database every part of
which was read while it was pending. `ImplementsRegister` is the refinement
(`cached <- cache`, statuses merged by `CallStatus`, responses by `Response`).

### Export

`setting` is who exports what: how many processes, which selections, whether a
file's name carries the schema, and the tables. A process starts with any flags,
inspects (taking the live `schema`), and refuses, prints, or carries out `Plan`,
the writes of `export()` in its order. `fs::write` is two steps, `Open` (create
or truncate: the file is `Partial`) and `Write`. `Stop` is an error, a full disk
or a kill at any point, with no clean-up, which is what the code has. `Migrate`
changes the schema between and during commands. The content of a file is the
schema it describes and what it is a document of: this is what the properties
tell apart. A name is a sequence of its parts between dots, so that
`table_file_name` joins them as the code does.

### Config, Discovery, ReadOnly, Execution, Command

`Config` has a `ConnectionSource` as a function on seven fields and a reading as
`[error, source]`. TOML and `.env` are reduced to entries and to whether the file
is well formed; the order of the checks of a value, of `deny_unknown_fields` and
of the search for a password line is kept. `Pick` and `resolve_error` are
`ConnectionConfig::resolve`.

`Discovery` is one action per step of `connect()` and `resolve()`: the project
file, `.env`, the environment, the selectors, `docker compose ps --all`
(`ListContainers`), `docker inspect` (`InspectContainer`), what is missing
(`FindMissing`), the prompt (`Answer`, `EndOfInput`, `PromptFails`), `Resolve`.
`Container` is Docker's own: a container stops, starts on another port, or is
removed, between any two of them. `ran` remembers on which ports each has been
running since the command began, `down` which have been down, `unanswered` which
questions got no answer.

`ReadOnly` takes a text as a sequence of symbols: punctuation, quotes, and three
that stand for the letters of an accepted word, of a mutating one and of any
other. `validate_read_only` is the scanner under its names in the code;
`SingleQuery` is written apart from it: remove comments, replace literals, look
at what is left.

`Execution` has the connection (`Dial`, `Attach`, `DialFails`: SQL Server logs in
to `master` and selects the database after, SQLite attaches each further file),
the statement (`Query`, `Fetch`, `FetchFails`, `FetchEnds`), and `Expire`, the
timeout around both. The `_to_json` operators are the four drivers' conversions
of a cell; text of MySQL is a sequence of digits, so that a numeral that fits
neither 64-bit integer stays text.

`Command` runs one command line after another. `at` is where `main.rs` stands;
`Resolving` and `Database` embed the steps of the other modules; each `Exit` is a
place where `CliError::exit_code` or `ExecutionError::exit_code` decides.
`Kill` is a signal at any step, `Edit` someone with an editor, `DockerMoves` the
containers. `stdout` and `target` are what was printed and written; `cutting`
is between the truncation of a file and its content.

### Introspection

The live catalog maps a name to an object: its columns, the columns of its key,
its indexes with their parts (columns, expressions, INCLUDE columns), its
foreign keys. Each driver has its agenda of queries in its own order; SQLite
extends it as it learns names, table by table and index by index. `raw` is the
maps of rows, `Assemble` the join by name. `Migrate` runs any DDL between two
queries and `window` remembers every catalog since the first. `Fail` is a query
error or a caller that gave up.

### Validation, Documents, ValidateCommand, InspectAndValidate

`Validation` has an operator per rule under the rule's name in the code, and
`tarjan_strongconnect` with the state the code threads through the recursion:
a call is a function from the state before it to the state after it, and
`Calls` nests these functions as deep as there are nodes, which no call exceeds
because each enters one node more. Visiting a neighbor (`Visit`) and the end of
a call (`Leave`) are the loop and the last `if` of the code.
What a hash map yields in any order is a sequence in an order nothing may depend
on. `Documents` has `sort`, `relationships`, the five classifications of
`analysis.rs`, the notes of `ai.rs`, the counts of `stats.rs` and of
`metadata.json`, `render_mermaid` and `render_markdown`. A document is the record
of what it says in its order; wording and escaping are left out. `sort_by` is
stable, as the code's is, so that items it does not tell apart stay in the order
the catalog listed them in. Names are ordered by `Rank`, and lower case and "contains audit" are tables of names.

`ValidateCommand` runs both over every database of a finite set, with tables and
keys rearranged, against definitions taken from the rules' documentation: cycles
by reachability, the other rules as predicates of a table. What the databases
are is an assumption TLC evaluates: the records of `model.rs`, in which tables
and views are told apart by schema and name, columns by position and by name,
foreign keys by name, and a foreign key has a column
(`DatabasesAreDistinguished`).
`InspectAndValidate` feeds the rules what an inspection returned, so that the
report is compared with the live catalog and not with the `Database`.

### Diff and Drift

`Diff` has the functions of `diff.rs` under their names. A `BTreeMap` by name is
a function from names to items, and lists the code sorts by name are sets.
`Drift` is the command: `Export` lets any command line before it leave any
document at either path, or one cut short; `ReadOld` and `ReadNew` are the two
reads, between which a file may still change; `DiffFails` is a missing file or
one that does not parse; `Compare` prints the report and chooses the exit code.
`Document` is what the drivers and `sort` make of a catalog: the ordinal
positions (`attnum` of PostgreSQL keeps the gaps of dropped columns, the others
count) and the names of foreign keys, which SQLite does not tell and the driver
makes up from the number its PRAGMA gives.

## The runs

Passing runs:

- `mcp_server` (three requests of `read_resource`, `refresh-schema` and
  `execute-statement`, two queries, one migration). `NoTornDocument`,
  `OnlySuccessReplaces`, `QuietRefreshIsExact`, the refinement
  `ImplementsRegister`, `ReadSeesSerialRefresh` and `CacheNeverRegresses` in the
  behaviours in which refreshes have not overlapped, and the liveness property
  `EveryRequestAnswered`. Two queries and one migration are the least with which
  an inspection is torn; three requests allow two refreshes and a reader, which
  is every conflict of the lock.
- `export` (one process at a time, again and again, or two at once; two schemas,
  one table in both, two tables of one name in two namespaces, names with the
  schema and without; seven selections with all flags; 5,797,050 states).
  `SuccessIsComplete` and `FreshSuccessIsExact`: what a success leaves is all it
  selected, and nothing else unless it overwrote; `RefusedWritesNothing`: a
  refusal or a print leaves every file, whole or half written, and `tables/` as
  they were when it started; `EarlierFilesKept`: without `--overwrite` no
  file that was there at the start is truncated, by however many processes. What
  earlier commands left is still in `fs`, so that one process stands for a
  sequence of them.
- `command` (194,005 states). `Sessions` of seven kinds: settings from all
  places, each stating a driver, a port, both or neither (`Layered`); settings
  that are missing, with a person or without (`Asked`); Docker, whose containers
  move between any two steps (`Moving`); files and variables that are not as
  they should be (`Faulty`); every command, one after another, killed anywhere,
  with a project file someone edits (`Killed`); a result of up to two rows of
  every type on each engine (`Queried`); and every text of up to three symbols
  after the first word, of fifteen symbols, and of up to two without one
  (`Read1`). Three symbols hold each of `;` and a second word, a quote and what
  it hides, an open and a closed comment, a doubled quote. Numbers have two
  digits where the code has 64 bits (`MaxU64`, `MaxI64`), so that the boundaries
  and a numeral of one digit more are met. Thirteen properties, named below with
  the hazards they are for.
- `validate` (43,588 databases: every graph of four tables with up to two keys
  each, combinations of keys, columns, indexes and SQLite options of two tables,
  join tables with up to two of five foreign keys, tables with every set of the
  names a heuristic looks for). Four nodes hold two separate cycles, a nested
  one and a cross edge into a finished component, which is what lowlinks get
  wrong. `CyclesAreReported`, `ReportMatchesRules`, `ReportIsDeterministic`; and
  of the databases with up to `MaxKeys` foreign keys `DocumentsIgnoreOrder`
  (sorting leaves no trace of the order the catalog answered in) and
  `DocumentsAgree` (relationships, notes, diagram, Markdown, metadata and
  statistics count and name the same keys).
- `inspect_validate` (fourteen catalogs of three names in two schemas, four
  engines, two DDL statements; 742,171 states). Two DDL statements allow
  drop-and-recreate. The catalogs hold a composite key, with one integer column,
  an index with an INCLUDE column, unique indexes of an expression alone and with
  a column, a foreign key without columns and one to another schema; each engine
  has those it can have (`Holds`).
  `UntouchedObjectsAreExact`: a name that meant one object throughout is listed
  as what it is, whatever happened to others, and described exactly where its
  driver does not misread it (`Legible`).
  `EveryFactWasTrue`: what a Database says was so of a catalog there was while
  the inspection ran, or is one of the misreadings listed in `Misreadings`; the
  join of moments invents nothing beyond them. That a column is unique is such a
  fact too, except on SQLite, where the columns of an index come from whatever
  table has its name by then.
  `QuietReportIsTrue`: with no DDL during the inspection, the tables without a
  primary key and those on a short cycle are reported as they are, and no foreign
  key as broken but those `LooksBroken` names: of all the keys of a live catalog
  the ones of the finding `implicit_fk`, and the ones that leave the schema MySQL
  reads.
- `drift` (24 catalogs, four engines, any sequence of exports; 219,344 states).
  Columns are added, dropped, retyped and dropped and added again; keys are added
  before and after another, removed and changed in place; a name is a view and
  then a table. `ReportRebuildsNew`: the report applied to the old document is
  the new one, and every table, view, column, index and key is in the one list it
  belongs to and in no other. `NoDriftUnseen`: exit code 0 means that the catalogs agree.
  `NamedKeysAreQuiet`: an unchanged key is in no list, where the engine names
  keys and no other key of the table says the same.

The properties of `command`:

| Property | What could go wrong |
|---|---|
| `EarliestPlaceWins` | a place asked too early, or answering with an empty value, changes one setting |
| `PromptFillsTheGaps` | what is missing is computed before the prompt and the layers are read again after it |
| `DiscoveredPortIsLive`, `RefusalsAreTrue` | a container changes between the two calls, or is not the one that was named; both hold whatever containers do |
| `ConnectionIsResolved` | a connection made of several steps, and schemas named by position |
| `VerdictIsTheStandards` | quotes, comments and delimiters change what every later symbol means |
| `PrintedResultIsWhole` | a broken connection or the timeout in the middle of the rows |
| `CellsStayApart` | two values of a column become one at a boundary |
| `ExitCodeIsTrue` | the same error on its way up through several commands |
| `InitKeepsEdits` | `init` looks, truncates and writes in three steps |
| `UnattendedGoOn`, `TimedCommandsEnd` | a question nobody answers, a database that never answers |

Runs that TLC refutes, each a disagreement of the code with its documentation:

- `mcp_stale_refresh` / `ReadSeesRefresh`: two overlapping `refresh-schema`
  calls. Each inspects with no lock held and installs unconditionally
  (`mcp_server.rs:328-335`); the one that read first may install last, and the
  cache serves the schema of before a migration after a refresh that followed
  the migration was answered with success.
- `introspection_unique` / `UniqueMeansAlone`: every column of a composite
  primary key is called unique, by all four drivers.
- `introspection_include` / `IndexOrderIsKept`: on SQL Server an INCLUDE column
  has `key_ordinal` 0 and is listed before the key.
- `implicit_fk` / `NoFalseBrokenForeignKey`: SQLite's `REFERENCES t` without
  columns is inspected as a reference to the column `""` and reported broken.
- `drift_renumbered` / `KeptKeysAreQuiet`: SQLite's `foreign_key_list` numbers
  keys from the last one declared, and the driver names them by that number
  (`database/sqlite.rs:387`). Declaring another key renames the earlier ones, and
  `diff` lists an unchanged key as removed and added.
- `socket_ignored` / `SocketTakesPrecedence`: no driver reads the configured
  socket; a MySQL connection goes to the host over TCP.

The same properties fail in ways these runs do not exhibit, found with other
constants:

- With two exports at once it is not so that no file is overwritten unasked:
  both find the directory empty, one truncates what the other wrote. What
  survives is `EarlierFilesKept`, about files that were there at the start.
- `FreshSuccessIsExact` without its condition: an export with `--overwrite`
  replaces the files of present tables and leaves those of dropped ones, so the
  artifacts depend on what was exported before.
- `SuccessIsComplete` with table `b.c` of schema `a` beside table `c` of schema
  `a.b`: `table_file_name` escapes nothing, and both are written to one file.
  `NamesAssumption` excludes such schemas.
- `UniqueMeansAlone` with `UNIQUE (lower(role), org)` on PostgreSQL or SQLite:
  the expression part is skipped before the parts are counted.
- An INTEGER column of a composite key of SQLite is called automatic
  (`sqlite.rs:233`); `Misreadings` names it.
- `NoFalseBrokenForeignKey` with the catalogs of `inspect_validate` and one DDL
  statement on MySQL: a table created after the query for tables and referenced
  before the query for foreign keys. Also, on MySQL, with a foreign key to a
  table of another schema, which the inspection does not include.

### Fairness

`McpServer!FairSpec`, in `mcp_server`: a task that holds or heads the queue of
the lock is scheduled by tokio (`AcquireRead`, `Render`, `Respond`,
`InstallSchema`); rendering does not await, so a reader always gives the guard
back. `InspectFails` is fair because `tokio::time::timeout` bounds `read_schema`
(`mcp_server.rs:97`), and `ExecuteReturns` because it bounds a statement. No
fairness is assumed of `Inspect`: the database may hang for ever. Without
the timeout (`FairnessWithoutTimeout`) a refresh waits for ever and the property
fails; with a lock that admits readers past a waiting writer it fails too, so it
rests on tokio's FIFO queue.

`Command!FairSpec`, in `command`: what the program does by itself is fair
(`Main`, `Resolving` outside of a question to Docker or a person, the check of a
text), and so is a timer (`TimesOut`). Nothing is assumed of Docker, of a person,
of a database, of the client of the MCP server. `docker` is waited for without
bound (`discovery.rs:206`), which is the exception in `UnattendedGoOn`; so is the
database in `inspect`, `validate`, `stats` and `graph`, of which no liveness is
promised.

### Deadlock

Checked in every run except those of `MCInspectAndValidate`: an inspection ends
after its result or its failure, and there the system may stop.

## The proofs

Each proof is for any values of the constants that meet the named assumptions,
which TLC evaluates on the instances too.

`McpServerProofs`, from `HandlersAssumption` and `BoundsAssumption`:

- `TypeCorrect`, the types.
- `TaskInvariant`, the inductive invariant `TaskInv`. `NoTornDocument` is not
  inductive: a step of `InstallSchema` keeps it because no reader renders, but
  that a reader has rendered nothing when it is admitted must be known, and for
  the refinement that an inspection's parts lie in the window from its call
  (`since`) to now, in the order of its queries. Hence `HandlerOfTask`, which
  says what each program counter implies, and `InspectionInWindow`.
- `NoTornDocuments`, its consequence.
- `RegisterRefinement`: the initial states map to initial states; `Respond` is
  `AnswerRead` because by `NoTornDocument` the finished document equals the
  cache; `InstallSchema` is `Replace` because of `InspectionInWindow`; `Render`,
  `Inspect` and the steps of the lock are stutters.
- `FailedRefreshKeepsCache` and `QuietRefreshes`, action properties from the
  same invariant.
- `SerialRefreshesAreSeen` and `SerialCacheNeverRegresses`, for the behaviours
  in which refreshes have not overlapped so far: promises are no newer than any
  part of the cache, the cache is no newer than the call of a pending refresh,
  and there is one such refresh. With overlapping refreshes the second and third
  fail: `mcp_stale_refresh`. That `refreshes` never returns to `"serial"` carries
  the induction.

`ExportProofs`, from `SettingsAssumption` and `AbsentAssumption`, for any number
of processes, tables and selections: `TypeCorrect`, `RefusalWritesNothing` and
`EarlierFilesAreKept`. A refusal leaves the whole directory as it was: every file
with its content, and `tables/`. The look of `any_output_exists` at the top of the
directory sees everything because a table's file exists only where `tables/`
does (`FilesInTables`), and that is so because each plan creates the directory
before the first of these files. A process that writes has been told to, or was
alone and found nothing; what was there when it started stays there
(`BeforeIsKept`), and until a process that is alone writes, the directory is the
one it found.

Also, from `NamesAssumption` besides: `SuccessIsAlwaysComplete` and
`FreshSuccessIsAlwaysExact`. The invariant is `Progress` along the plan of a
process that is alone: the first k writes of its plan are on disk, whole and of
the schema it inspected, the open file is the next one, and without `--overwrite`
there is no other file. A later write spoils no earlier one because no two
writes of a plan are to one file, which is what `NamesAssumption` gives.

`CommandProofs`, from `NoneAssumption` and `FailuresAssumption`:
`ExitCodesAreTrue`, `InitKeepsEditsAlways`, `EarliestPlaceAlwaysWins`.
The invariant says which command can be at which place, what has been dialled
there, which failures and which reports can stand; `ExitCodeIsTrue` alone is not
inductive, because that an exit with 3 has dialled nothing depends on where the
failure was. It holds of each failure that its code is the one of CLI.md, and of
each code that only its failure has it, but for two codes that are not CLI.md's
and stand in it as the code has them (see below). `EarliestPlaceAlwaysWins` rests on `config` being `resolved(Sources)`
of layers that change no more.

Of discovery, from `ListedAssumption` besides: `GapsAreAlwaysFilled`,
`RefusalsAreAlwaysTrue`, `DiscoveredPortsAreLive`. The invariant: the layers of
Docker and of the prompt are empty until they are asked; each question still to
ask is a gap of the layers; what was asked and left open is in `unanswered`; the
container chosen is the one the command line named, of a service one that has
run since the command began; what runs now is among what `ran`, and what does
not is in `down`. Nothing is supposed of when containers change.

Of execution, from these, `MountsAssumption`, `SessionsAssumption` and
`TablesAssumption` (what the code has as a `Vec` is a list, and clap parses
`--driver`): `ConnectionsAreResolved` and `PrintedResultsAreWhole`. Every layer
holds an engine there is, or none, and a list of databases (`LayersHold`), so
what they resolve to is at least one database, and one only except for SQLite
(`ResolvedConnects`). A connection has opened a prefix of that list and not all
of it until it is open, what has arrived is a prefix of the rows
(`ConnectionFits`), and only what returned is printed (`PrintFits`). It uses the
invariants of the commands and of discovery as they are.

`CommandTypes`, that `CommandTypeOK` holds, needs these invariants too, besides
`HostPortsAssumption` and `WidthsAssumption`: a question is open exactly while
one is asked, and what was fetched is what the answer begins with. `None` is
kept apart from drivers and numbers by `NoneAssumption`.

`ReadOnlyProofs` has no state: `ScannerReadsTheStandard` says that the scanner
accepts a text exactly when the standard reads it as one query, for every text
of any length whose delimited names are plain. Both are recursive functions that
look further on, and neither can be proved about by induction with an operator
as a parameter. Instead, what holds at the end of a text and at each position
when it holds at all later ones holds everywhere, because there is no last
position where it fails (`FromTheEnd`); and a function given at each position by
its values further on exists (`DefinedFromTheEnd`), so that a recursive definition
may be unfolded. Then every run of noise and every
token leaves a piece of the standard's reading that begins and ends no word in
its middle (`NoiseLeaves`, `TokenLeaves`, `WordsPast`), so that the scan is a
search of that reading for a mutating word and for anything after a semicolon
(`ScanIsTheStandards`), and the first word is the same in both
(`FirstWordIsTheStandards`). `VerdictsAreTheStandards`, in `CommandProofs`,
carries this to every `execute-statement` of the command line, by the invariant
that the phase of a statement fits its verdict (`VerdictFits`).

`CellsAlwaysStayApart`, in `CommandProofs`, from `TablesAssumption` (each
table has cells of the types its driver sends) and `WidthsAssumption` (64 bits
are some number of values): the answer of a statement holds rows of one table
(`AnswerFits`), and no two values of a type have one JSON. The work is in
`LeadingApart`, that two numerals with no needless zero which differ have
different values, by the least position where they could not
(`NumeralsApart` and `TextsApart` follow).

`IntrospectionProofs`, from `KeysAssumption` (the names are pairs of a schema and
a name, listed in an order without repeats),
`EnginesAssumption`, `MaxChangesAssumption` and `IndexesAssumption` (a table has
finitely many indexes), for any catalogs and any DDL:

- `IntrospectionTypes`, and the invariant `IInv` it follows from: the queries on
  the agenda are ones the driver asks, of names it knows; the maps of rows are
  whole; the result is the join of them.
- `RowsWereAlwaysTrue`, for any catalogs: each row is one a driver can make of an
  object there was. The join adds nothing to the rows (`ReadFacts`: what is read
  is a fact or a misreading), hence `EveryFactAlwaysWasTrue`.
- `QuestionsAreAlwaysSettled`, about each name that has meant the same object
  since the first query: every question a driver has about it is answered with
  what the object has, or is on the agenda, or the question from whose answer
  the driver learns to ask it is (SQLite asks for columns of the tables it was
  told of, and for the columns of the indexes it was told of). On SQL Server a
  later query completes what an earlier one read, so that the order of the
  agenda matters (`IdentitiesAlwaysFollow`).
- `UntouchedObjectsAreAlwaysExact`: at the end the agenda is empty, so that every
  such question is answered; the answers are the rows (`TableRowsAreExact`,
  `ViewRowsAreExact`) and the join makes the object of them (`FlagsAreExact`,
  `IndexesAreExact`) if it is legible; what is not is listed all the same
  (`UntouchedAreListed`).

All but `IntrospectionTypes`, `RowsWereAlwaysTrue` and `QuestionsAreAlwaysSettled`
suppose `AllWellFormed(Catalogs)`, which TLC evaluates on the catalogs of
`inspect_validate` (`SomeAreWellFormed`). It says what every server sees to: a
dropped name has nothing, the parts of an index are columns of its table, those
of the primary index are the key, a key has an index (it may have none when
SQLite is the only engine), a foreign key is on columns of its table, and a SQLite schema has no two
indexes of one name. No kind of key, index or foreign key is excluded by it.
What drivers describe otherwise than it is stands in the properties: `Misreadings`
lists what `EveryFactWasTrue` allows, `Legible` which objects
`UntouchedObjectsAreExact` calls exact, `LooksBroken` which keys
`QuietReportIsTrue` lets be reported. Columns the drivers derive from an index
list are recursive functions of it; they are unfolded as in `ReadOnlyProofs`, from
the start of the list (`DefinedFromTheStart`, `KeptMembers`).

`DriftProofs` begins with the lists of changes, for any items:

- `NoChangesMeansEqual`: they are empty exactly when the two maps are equal.
- `ReversedDiffMirrors`: comparing the other way round exchanges added and
  removed, and the sides of what changed.
- `PatchYieldsNew`: applied to the old columns, indexes or keys they yield the
  new ones, as long as no two items of one list have one name.

Of the command, from `CatalogsAssumption` (what the engines see to: names are
unique where they must be, columns are numbered in their order), it proves
`DriftTypes`, `ReportAlwaysRebuilds`, `DriftIsAlwaysSeen` and
`NamedKeysAreAlwaysQuiet`. The state invariant `DInv` is
short; the work is in the lemmas. The map of a list of distinct objects holds
each under its key (`MapOfList`), a table counts as modified exactly when its
items differ (`TableChanges`, from `PatchYieldsNew`), so the report rebuilds the
new tables and views (`TablesRebuilt`, `ViewsRebuilt`). For the converse the
items of a document must tell the facts of the table, although the sets in a
document have lost the order of the columns: the place of a column is one more
than the number of ordinals below its own (`PlaceOfNumber`), whether the engine
keeps gaps or not (`ColumnsTellTheirOrder`), and SQLite's made-up names of keys
hide no key (`KeysTellTheirFacts`). `NamedKeysAreQuiet` is about the keys that
alone in their table say what they say: of two that say the same one may be
dropped and its name be given to the other, which a report cannot hide.

`ValidationProofs` and `ValidateCommandProofs` are about any database, of any
size. They suppose `DatabasesAreDistinguished`, which is what a catalog tells
apart: tables and views by schema and name, the columns of a table by position
and by name, its foreign keys by name, of which each has a column; and
`RankIsAnOrder`, that different names have different places in the order of
bytes.

- `TarjanFindsComponents`: on every graph `tarjan_scc` returns each strongly
  connected component once and every node in one. A call is a function of the
  state it is given, and those it makes are for one node more on the stack, so
  that it may be proved by the number of nodes not visited yet (`Serves`,
  `OneLess`). What it leaves its caller is `Returns`: each node on the stack leads
  to one below it whose call is still open; each open node leads to all that are
  above it; nothing the call left on the stack leads further down than its lowlink
  says; and what has left the stack is partitioned into components, none of
  which leads back to the stack. Then, where the lowlink is the node's own
  index, what is popped is its component and nothing else (`LeavesFirst`);
  otherwise it leads to an open node further down (`LeavesHeld`).
- `CyclesAreAllReported`: the findings are the components of more than one table
  or with a key to itself (`CircularReferences`, `CyclicComponent`), over the
  graph that the lookup by name makes (`GraphOfTables`), and these are the sets
  of tables that reach each other over foreign keys (`LeadsIs`, `CyclesAre`).
- `ReportsMatchTheRules`: each rule pushes the findings of the tables it
  describes and no others (`FoundWithoutKey`, `FoundBroken`, `FoundDuplicate`,
  `FoundInvalid`, `FoundWithoutRowid`, `FoundStrict`).
- `SameReport` and, of the arrangements of the command, `ReportsAreDeterministic`:
  two databases that are one in another order (`Rearranged`) have findings that
  are the same as often (`Alike`), rule by rule; of the cycles because the
  components of a renumbered graph are the renumbered components.
- `DocumentsAreSorted`: a stable sort by a key without ties forgets the order it
  started from (`PlacesAreTaken`, `SortForgets`), so every arrangement is
  the same once it is sorted, and what is made of it too.
- `DocumentsAlwaysAgree`, of the sorted Database: the relationships are the keys
  of its tables, in some order (`RelationshipsAreListed`), because no two lead
  the same way under one name; as many as the lengths of the tables' lists of keys
  come to, summed or put together (`FlattenedLength`, `CountsAre`). The notes at
  a table that is referenced are pushed relationship by relationship, and those
  expected there table by table and key by key, which comes to the same
  (`PushedTwice`, `ListedNotes`, `NotesAre`). Without a broken key each
  relationship is counted at one table (`CountedOnce`, `EndsAgree`). Two lists of
  columns sort to the same, when the one is without repetition, exactly if the
  other is too and has the same members (`SortedApart`), which is what the
  labels of the diagram show (`LabelsAre`, `JunctionsAre`).

`QuietReportsAreTrue`, in `IntrospectionProofs`, joins the two: MySQL lists no
table of another schema (`AlwaysInScope`), so without DDL the result is the
catalog in scope (`QuietResultIs`); the Database the rules run over has each
table once and as it is (`InspectedIs`); each foreign key leads to one of them
(`TargetIsInScope`) unless it leaves what was read. It supposes
`CatalogsAreConsistent`, that foreign keys lead to tables and columns that exist,
besides `AllWellFormed(Catalogs)`. A key that looks broken and is not, of SQLite
without columns or of MySQL to another schema, whose tables the driver does not
read (`mysql.rs:454` reads the key), is in the theorem by name: a finding of a
broken key is of one of these (`NothingIsBroken`), and the graph has every edge
that stays in scope.

Only model-checked are the liveness properties, which are out of the prover's
reach.

## Seen while modelling

Where the code and its documentation or the reader's expectation part, and no
run is about it:

- A statement the database refuses or breaks off exits with 2, as a failed
  connection does; CLI.md:351 (and 463) gives it 7. `mcp` exits with 1 for every
  error; CLI.md:394-397 lists 2 and 3. `ExitCodeIsTrue` states both codes as the
  code has them, and holds every other failure to CLI.md.
- `init` replaces without a word a file that someone puts in place between its
  look and its write (`main.rs:350`); `InitKeepsEdits` is about files that were
  there when it began.
- With `--overwrite` the files of dropped tables stay in `tables/`
  (`export.rs:138`), and tables whose names differ by where a dot stands share a
  file (`export.rs:236`). Neither is refuted by a run of its own.
- A SQL Server DATE is printed one day early and a DATETIME loses its fraction
  (`execution.rs:289-295`); a `datetimeoffset` is printed in UTC.
- Text of MySQL that looks like a number becomes one: `"007"` is printed as `7`.
- An empty result has no column names on PostgreSQL and SQLite; a PostgreSQL type
  that is not decoded, and NaN, are printed as `null`.
- `println!` panics, with exit code 101, when standard output is closed; only
  `graph` reports it.
- `config.rs:69-70` says that `default_port` is never called for SQLite; it is.
- A template of `init` mentions `[dbctx.sqlite.attach]`, which nothing reads.
  `init` killed between truncating and writing leaves a file that makes every
  later command exit with 3, and that `init` itself refuses to replace.
- A service of several containers is judged by the first: one that stopped hides
  one that runs. Errors of discovery advise options that change nothing as long
  as the selector is given.
- A pool of sqlx may replace its connection and lose the files attached to it.
- The parts of a functional index are NULL in `STATISTICS.COLUMN_NAME`, which
  `mysql.rs:360` reads as a string.
- Extended properties of SQL Server are joined without their class
  (`sqlserver.rs:701`), so that a comment of another object may appear.
- The tables of a cycle and of a note are named without their schema, except on
  SQL Server (`validation.rs:274`, `ai.rs:81`).
- The evidence of soft deletes says "nullable" without looking; `AnalysisKind`
  describes audit tables by name or columns, and only the name decides; junction
  tables are told apart without their schemas.
- Types of columns that hold a space stand unquoted in the diagram (FORMAT.md:320).

## Not modelled

- Text: serialization, the wording and escaping of JSON, Markdown, Mermaid and of
  messages, the layout of `stats`, argument declarations of `cli.rs` (clap's
  parsing is one step), logging.
- The server version, collation and the types and defaults of columns, which
  take one query and one field each and interact with nothing.
- The handlers of the MCP server without state, and the lookup of a table by its
  URI: `read_resource` splits it at the first dot, so a schema whose name holds a
  dot is listed under a URI it cannot read.
- The protocols of rmcp and axum, of which `mcp.rs` uses the ends; sqlx and
  tiberius, of which the model has what the code sees of them.
- The database lab and the release scripts, which are not part of the program.

## Plan

Done: every module above, and a theorem for every safety property of the modules
a proof can reach. Left, in this order:

1. The URI lookup of the MCP server over names with dots.
2. What `--overwrite` leaves behind, as a property of the directory after any
   sequence of exports.
3. The order of the findings that the last sort of `validate` fixes
   (`validation.rs:94`), which reports as bags do not show.
