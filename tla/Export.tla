-------------------------------- MODULE Export --------------------------------
(***************************************************************************)
(* `dbctx inspect` writing its artifacts: src/src/export.rs, export() and  *)
(* the command of src/src/main.rs that calls it, for several processes     *)
(* that share an output directory, fail, are killed, and run again while   *)
(* the schema changes.                                                     *)
(*                                                                         *)
(* A file is a path relative to the output directory, a sequence of names. *)
(* Its content is the document that was written, [schema, of]: the schema  *)
(* it describes and what it is a document of.                              *)
(***************************************************************************)
EXTENDS Naturals, Sequences, SequencesExt

CONSTANTS
    Schemas,        \* the schemas the database goes through
    Settings,       \* who exports what: the processes that may run at once, the
                    \* sets of artifacts that are not skipped, whether a file's
                    \* name has the schema in it (schema_qualified(engine)), and
                    \* the sorted tables of each schema, [schema, name]
    Absent,         \* no such file
    Partial         \* a file that holds no whole document

\* The complements of no_json, no_tables, no_markdown and no_mermaid.  A command
\* line cannot skip the table files, so "tables" is in all it selects.
Artifacts == {"json", "tables", "markdown", "mermaid"}

ASSUME SettingsAssumption ==
    \A s \in Settings :
        /\ s = [procs |-> s.procs, selections |-> s.selections, qualified |-> s.qualified,
                tablesOf |-> s.tablesOf]
        /\ s.selections \subseteq SUBSET Artifacts /\ s.qualified \in BOOLEAN
        /\ \A v \in Schemas : s.tablesOf[v] \in Seq(ToSet(s.tablesOf[v]))

VARIABLES
    setting,    \* the member of Settings at hand
    schema,     \* the live schema
    fs,         \* fs[f]: the content of file f
    tables,     \* TRUE: the directory tables/ exists
    pc,         \* pc[p]: where process p stands
    options,    \* options[p]: its ExportOptions
    database,   \* database[p]: the schema its inspection returned
    todo,       \* todo[p]: what it has still to write, in order
    open,       \* open[p]: it has truncated the file it writes
    before      \* history: before[p]: the directory as it was when p started

proc == <<pc, options, database, todo, open, before>>
vars == <<setting, schema, fs, tables, proc>>

Procs == setting.procs
Options == [overwrite : BOOLEAN, stdout : BOOLEAN, select : setting.selections]

-----------------------------------------------------------------------------
(* What an export writes. *)

SchemaJson == <<"schema.json">>
RelationshipsJson == <<"relationships.json">>
MetadataJson == <<"metadata.json">>
SchemaMd == <<"schema.md">>
GraphMmd == <<"graph.mmd">>
TopLevel == {SchemaJson, RelationshipsJson, MetadataJson, SchemaMd, GraphMmd}

FileOf(x, t) ==
    <<"tables">> \o IF x.qualified THEN t.schema \o <<".">> \o t.name ELSE t.name
table_file_name(t) == FileOf(setting, t)

Artifact(f) == [file |-> f, of |-> f]
TableArtifact(t) == [file |-> table_file_name(t), of |-> <<t.schema, t.name>>]
TablesDir == [file |-> <<"tables">>, of |-> <<"directory">>]

\* The writes of export(), in its order, for a selection and a schema.  The
\* table files are JSON documents: without "json" there are none.
TableFiles(s) ==
    LET of == setting.tablesOf[s]  IN  [i \in DOMAIN of |-> TableArtifact(of[i])]

Plan(select, s) ==
    LET Part(a, writes) == IF a \in select THEN writes ELSE <<>>
    IN  Part("json", <<Artifact(SchemaJson), Artifact(RelationshipsJson), Artifact(MetadataJson)>>
                     \o Part("tables", <<TablesDir>> \o TableFiles(s)))
        \o Part("markdown", <<Artifact(SchemaMd)>>)
        \o Part("mermaid", <<Artifact(GraphMmd)>>)

TablesOf(x) == UNION {ToSet(x.tablesOf[s]) : s \in Schemas}
Tables == TablesOf(setting)
Files == TopLevel \cup {table_file_name(t) : t \in Tables}

\* What is written of, in a setting.
Labels(x) == TopLevel \cup {<<"directory">>} \cup {<<t.schema, t.name>> : t \in TablesOf(x)}

ASSUME AbsentAssumption ==
    /\ Absent # Partial
    /\ \A x \in Settings : Absent \notin [schema : Schemas, of : Labels(x)]

\* No two tables of a schema have one file.  Where names hold dots it may be
\* otherwise, and no more is promised then.
ASSUME NamesAssumption ==
    \A x \in Settings :
        /\ \A t \in TablesOf(x) : t.schema \in Seq(STRING) /\ t.name \in Seq(STRING)
        /\ \A v \in Schemas : \A i, j \in DOMAIN x.tablesOf[v] :
            FileOf(x, x.tablesOf[v][i]) = FileOf(x, x.tablesOf[v][j]) => i = j

Document(s, a) == [schema |-> s, of |-> a.of]

\* Mutant: schema.json is not looked for.
any_output_but_json == tables \/ \E f \in TopLevel \ {SchemaJson} : fs[f] # Absent

any_output_exists == tables \/ \E f \in TopLevel : fs[f] # Absent

-----------------------------------------------------------------------------
Running(p) == pc[p] \in {"inspecting", "exporting", "writing"}
Item(p) == Head(todo[p])

\* Of a process that has not got that far.
NoOptions == [overwrite |-> FALSE, stdout |-> FALSE, select |-> {}]
NoDatabase == CHOOSE s \in Schemas : TRUE
NoDirectory == [files |-> [f \in Files |-> Absent], tables |-> FALSE]

\* All that is in the output directory.
Directory == [files |-> fs, tables |-> tables]

Init ==
    /\ setting \in Settings
    /\ schema \in Schemas
    /\ fs = [f \in Files |-> Absent]
    /\ tables = FALSE
    /\ pc = [p \in Procs |-> "idle"]
    /\ options = [p \in Procs |-> NoOptions]
    /\ database = [p \in Procs |-> NoDatabase]
    /\ todo = [p \in Procs |-> <<>>]
    /\ open = [p \in Procs |-> FALSE]
    /\ before = [p \in Procs |-> NoDirectory]

\* The environment: a migration.
Migrate ==
    /\ schema' \in Schemas \ {schema}
    /\ UNCHANGED <<setting, fs, tables, proc>>

\* A command line.
Start(p) ==
    /\ pc[p] = "idle"
    /\ \E o \in Options : options' = [options EXCEPT ![p] = o]
    /\ pc' = [pc EXCEPT ![p] = "inspecting"]
    /\ before' = [before EXCEPT ![p] = Directory]
    /\ UNCHANGED <<setting, schema, fs, tables, database, todo, open>>

\* database::inspect, analyze and generate returned the Database to export.
Inspect(p) ==
    /\ pc[p] = "inspecting"
    /\ database' = [database EXCEPT ![p] = schema]
    /\ pc' = [pc EXCEPT ![p] = "exporting"]
    /\ UNCHANGED <<setting, schema, fs, tables, options, todo, open, before>>

\* Everything skipped, or one document to standard output: no file is touched.
WriteStdout(p) ==
    /\ pc[p] = "exporting"
    /\ options[p].select = {} \/ options[p].stdout
    /\ pc' = [pc EXCEPT ![p] = "ok"]
    /\ UNCHANGED <<setting, schema, fs, tables, options, database, todo, open, before>>

ToDirectory(p) == options[p].select # {} /\ ~options[p].stdout

\* Mutant: the refusal comes after tables/ was created.
RefuseAfterCreate(p) ==
    /\ pc[p] = "exporting"
    /\ ToDirectory(p)
    /\ ~options[p].overwrite /\ any_output_exists
    /\ pc' = [pc EXCEPT ![p] = "refused"]
    /\ tables' = TRUE
    /\ UNCHANGED <<setting, schema, fs, options, database, todo, open, before>>

\* Without --overwrite, any artifact or the directory tables/ is in the way.
Refuse(p) ==
    /\ pc[p] = "exporting"
    /\ ToDirectory(p)
    /\ ~options[p].overwrite /\ any_output_exists
    /\ pc' = [pc EXCEPT ![p] = "refused"]
    /\ UNCHANGED <<setting, schema, fs, tables, options, database, todo, open, before>>

\* Mutant: the flag is ignored.
AcceptUnasked(p) ==
    /\ pc[p] = "exporting"
    /\ ToDirectory(p)
    /\ pc' = [pc EXCEPT ![p] = "writing"]
    /\ todo' = [todo EXCEPT ![p] = Plan(options[p].select, database[p])]
    /\ UNCHANGED <<setting, schema, fs, tables, options, database, open, before>>

Accept(p) ==
    /\ pc[p] = "exporting"
    /\ ToDirectory(p)
    /\ options[p].overwrite \/ ~any_output_exists
    /\ pc' = [pc EXCEPT ![p] = "writing"]
    /\ todo' = [todo EXCEPT ![p] = Plan(options[p].select, database[p])]
    /\ UNCHANGED <<setting, schema, fs, tables, options, database, open, before>>

CreateTablesDir(p) ==
    /\ pc[p] = "writing"
    /\ todo[p] # <<>> /\ Item(p) = TablesDir
    /\ tables' = TRUE
    /\ todo' = [todo EXCEPT ![p] = Tail(@)]
    /\ UNCHANGED <<setting, schema, fs, pc, options, database, open, before>>

\* fs::write, its first half: create or truncate.
Open(p) ==
    /\ pc[p] = "writing"
    /\ todo[p] # <<>> /\ Item(p) # TablesDir /\ ~open[p]
    /\ fs' = [fs EXCEPT ![Item(p).file] = Partial]
    /\ open' = [open EXCEPT ![p] = TRUE]
    /\ UNCHANGED <<setting, schema, tables, pc, options, database, todo, before>>

\* Mutant: each document is rendered from the schema as it is by then.
WriteLive(p) ==
    /\ pc[p] = "writing" /\ open[p]
    /\ fs' = [fs EXCEPT ![Item(p).file] = Document(schema, Item(p))]
    /\ open' = [open EXCEPT ![p] = FALSE]
    /\ todo' = [todo EXCEPT ![p] = Tail(@)]
    /\ UNCHANGED <<setting, schema, tables, pc, options, database, before>>

\* fs::write, its second half.  If another process wrote a whole document
\* since the truncation, a longer one leaves its tail behind.
Write(p) ==
    /\ pc[p] = "writing" /\ open[p]
    /\ LET document == Document(database[p], Item(p))
           overlaid == fs[Item(p).file] \notin {Partial, document}
       IN  \E content \in {document} \cup IF overlaid THEN {Partial} ELSE {} :
              fs' = [fs EXCEPT ![Item(p).file] = content]
    /\ open' = [open EXCEPT ![p] = FALSE]
    /\ todo' = [todo EXCEPT ![p] = Tail(@)]
    /\ UNCHANGED <<setting, schema, tables, pc, options, database, before>>

Succeed(p) ==
    /\ pc[p] = "writing" /\ todo[p] = <<>>
    /\ pc' = [pc EXCEPT ![p] = "ok"]
    /\ UNCHANGED <<setting, schema, fs, tables, options, database, todo, open, before>>

\* Mutant: the file handle outlives the failure.
StopOpen(p) ==
    /\ Running(p)
    /\ pc' = [pc EXCEPT ![p] = "failed"]
    /\ todo' = [todo EXCEPT ![p] = <<>>]
    /\ UNCHANGED <<setting, schema, fs, tables, options, database, open, before>>

\* A catalog, serialization or IO error, a full disk, a kill: the process ends
\* where it is and cleans nothing up.
Stop(p) ==
    /\ Running(p)
    /\ pc' = [pc EXCEPT ![p] = "failed"]
    /\ todo' = [todo EXCEPT ![p] = <<>>]
    /\ open' = [open EXCEPT ![p] = FALSE]
    /\ UNCHANGED <<setting, schema, fs, tables, options, database, before>>

\* The exit status was read; the next command line may follow.
Reap(p) ==
    /\ pc[p] \in {"ok", "refused", "failed"}
    /\ pc' = [pc EXCEPT ![p] = "idle"]
    /\ options' = [options EXCEPT ![p] = NoOptions]
    /\ database' = [database EXCEPT ![p] = NoDatabase]
    /\ before' = [before EXCEPT ![p] = NoDirectory]
    /\ UNCHANGED <<setting, schema, fs, tables, todo, open>>

Next ==
    \/ Migrate
    \/ \E p \in Procs :
        \/ Start(p) \/ Inspect(p) \/ WriteStdout(p) \/ Refuse(p) \/ Accept(p)
        \/ CreateTablesDir(p) \/ Open(p) \/ Write(p) \/ Succeed(p)
        \/ Stop(p) \/ Reap(p)

Spec == Init /\ [][Next]_vars

-----------------------------------------------------------------------------
(* Properties. *)

Content == {Absent, Partial} \cup [schema : Schemas, of : Labels(setting)]

TypeOK ==
    /\ schema \in Schemas
    /\ fs \in [Files -> Content]
    /\ tables \in BOOLEAN
    /\ pc \in [Procs -> {"idle", "inspecting", "exporting", "writing",
                         "ok", "refused", "failed"}]
    /\ \A p \in Procs : options[p].overwrite \in BOOLEAN /\ options[p].stdout \in BOOLEAN
    /\ database \in [Procs -> Schemas]
    /\ \A p \in Procs : \A i \in DOMAIN todo[p] : todo[p][i].file \in Files \cup {<<"tables">>}
    /\ open \in [Procs -> BOOLEAN]
    /\ \A p \in Procs : open[p] => pc[p] = "writing" /\ fs[Item(p).file] # Absent
    /\ before \in [Procs -> [files : [Files -> Content], tables : BOOLEAN]]

Opens(p) == open'[p] /\ ~open[p]

\* "The destination already exists and `--overwrite` was not given"
\* (export.rs:36-37): a command without the flag never truncates a file that
\* was there when it started, whatever it selects, whatever a stopped command
\* left behind, and also when other commands run at the same time.
EarlierFilesKept ==
    [][\A p \in Procs : Opens(p) /\ ~options[p].overwrite =>
          before[p].files[Item(p).file] = Absent]_vars

\* The rest is said of commands that have the directory to themselves.
Alone(p) == Procs = {p}

Wrote(p) == pc[p] = "ok" /\ ToDirectory(p)

\* A command that succeeds has left every document it selected, whole and of
\* the schema it inspected, each table its own, whatever was there before.
SuccessIsComplete ==
    \A p \in Procs : Alone(p) /\ Wrote(p) =>
        LET plan == Plan(options[p].select, database[p])
        IN  \A i \in DOMAIN plan : plan[i] # TablesDir =>
                fs[plan[i].file] = Document(database[p], plan[i])

\* "Identical schemas produce identical artifacts" (VISION.md:33): a command
\* that succeeds without --overwrite leaves what the same command leaves in an
\* empty directory, and nothing of an earlier schema beside it.
FreshSuccessIsExact ==
    \A p \in Procs : Alone(p) /\ Wrote(p) /\ ~options[p].overwrite =>
        \A f \in Files : fs[f] # Absent =>
            \E a \in ToSet(Plan(options[p].select, database[p])) :
                a.file = f /\ fs[f] = Document(database[p], a)

\* "already exists; use --overwrite to replace it" (export.rs:37): a command that
\* exits with this, or that only prints, leaves the directory as it found it.  No
\* file is created, truncated, overwritten or removed, and tables/ is not
\* created, whatever it selects and whatever a stopped command left there.
RefusedWritesNothing ==
    \A p \in Procs : Alone(p) /\ (pc[p] = "refused" \/ (pc[p] = "ok" /\ ~ToDirectory(p))) =>
        before[p] = Directory

=============================================================================
