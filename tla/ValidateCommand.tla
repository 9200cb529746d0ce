--------------------------- MODULE ValidateCommand ---------------------------
(***************************************************************************)
(* What the commands make of the Database an inspection returned:          *)
(* `dbctx validate` (main.rs, validate()) with the rules, the report on    *)
(* standard output and the exit code, and `dbctx inspect --analyze --llm`, *)
(* `graph` and `stats` with their documents.  They are checked against     *)
(* what the documentation says of the schema and against each other, for   *)
(* every database of a finite set, and with the tables, the columns and    *)
(* the foreign keys in several orders they might come in.                  *)
(***************************************************************************)
EXTENDS Documents

CONSTANTS
    Databases,      \* the databases that are validated
    MaxKeys         \* documents are made of those with at most so many foreign keys

\* The records of model.rs.
AnyColumn == [name : STRING, ordinal_position : Nat, primary_key : BOOLEAN, nullable : BOOLEAN,
              has_default : BOOLEAN, auto_increment : BOOLEAN, unique : BOOLEAN,
              generated : BOOLEAN, data_type : STRING]
AnyIndex == [name : STRING, columns : Seq(STRING), unique : BOOLEAN]
AnyKey == [name : STRING, columns : Seq(STRING), table : STRING \X STRING,
           referenced : Seq(STRING)]
AnyTable == [schema : STRING, name : STRING, columns : Seq(AnyColumn), indexes : Seq(AnyIndex),
             foreign_keys : Seq(AnyKey), without_rowid : BOOLEAN, strict : BOOLEAN]
AnyView == [schema : STRING, name : STRING, columns : Seq(AnyColumn)]
AnyDatabase == [database : STRING, engine : STRING, engine_version : STRING,
                tables : Seq(AnyTable), views : Seq(AnyView)]

\* What a catalog tells apart: tables and views by schema and name, the columns
\* of a table by position and by name, its foreign keys by name.  A foreign key
\* has a column.
Distinguished(d) ==
    /\ \A i, j \in DOMAIN d.tables : Id(d.tables[i]) = Id(d.tables[j]) => i = j
    /\ \A i \in DOMAIN d.tables, j \in DOMAIN d.views : Id(d.tables[i]) # Id(d.views[j])
    /\ \A t \in ToSet(d.tables) :
        /\ \A i, j \in DOMAIN t.columns :
            \/ t.columns[i].ordinal_position = t.columns[j].ordinal_position
            \/ t.columns[i].name = t.columns[j].name
            => i = j
        /\ \A i, j \in DOMAIN t.foreign_keys :
            t.foreign_keys[i].name = t.foreign_keys[j].name => i = j
        /\ \A i \in DOMAIN t.foreign_keys : t.foreign_keys[i].columns # <<>>

\* Their names are among those that are ranked.
Ranked(d) ==
    \A t \in ToSet(d.tables) :
        {t.schema, t.name} \cup UNION {{fk.name, fk.table[1], fk.table[2]} :
                                        fk \in ToSet(t.foreign_keys)} \subseteq DOMAIN Rank

ASSUME DatabasesAreDistinguished ==
    \A d \in Databases : d \in AnyDatabase /\ Distinguished(d) /\ Ranked(d)

VARIABLES
    database,   \* the Database the inspection returned
    pc,         \* "idle"; "done" when the report is printed, "documented"
                \* when the documents are made
    report,     \* the report
    exit,       \* the exit code
    documents   \* the documents, or Undocumented

vars == <<database, pc, report, exit, documents>>

Undocumented == [graph |-> <<>>]

EmptyReport ==
    [findings |-> <<>>,
     summary |-> [tables |-> 0, views |-> 0, finding_count |-> 0,
                  error_count |-> 0, warning_count |-> 0]]

Init ==
    /\ database \in Databases
    /\ pc = "idle"
    /\ report = EmptyReport
    /\ exit = 0
    /\ documents = Undocumented

\* A database as it is, with two of its tables exchanged, and with the foreign
\* keys or the columns of every table in the reverse order.
Arrangements(d) ==
    {[d EXCEPT !.tables = [d.tables EXCEPT ![i] = d.tables[j], ![j] = d.tables[i]]] :
        i, j \in DOMAIN d.tables}
    \cup {[d EXCEPT !.tables =
            [i \in DOMAIN d.tables |-> [d.tables[i] EXCEPT !.foreign_keys = Reverse(@)]]],
          [d EXCEPT !.tables =
            [i \in DOMAIN d.tables |-> [d.tables[i] EXCEPT !.columns = Reverse(@)]]]}

\* Whatever order the catalog lists the tables and the keys in.  Any finding,
\* a warning too, is the exit code 5.
Validate ==
    /\ pc = "idle"
    /\ \E d \in Arrangements(database) : report' = validate(d)
    /\ exit' = IF report'.summary.finding_count > 0 THEN 5 ELSE 0
    /\ pc' = "done"
    /\ UNCHANGED <<database, documents>>

\* inspect() of every driver sorts what it returns, and the documents are made
\* of that.
Document ==
    /\ pc = "idle" /\ Statistics(database).foreign_keys <= MaxKeys
    /\ \E d \in Arrangements(database) : documents' = Documented(sort(d))
    /\ pc' = "documented"
    /\ UNCHANGED <<database, report, exit>>

\* The next command.
Again ==
    /\ pc # "idle"
    /\ pc' = "idle"
    /\ report' = EmptyReport
    /\ exit' = 0
    /\ documents' = Undocumented
    /\ UNCHANGED database

Next == Validate \/ Document \/ Again

Spec == Init /\ [][Next]_vars

-----------------------------------------------------------------------------
(* Properties. *)

Tables == ToSet(database.tables)
TableIds == {Id(t) : t \in Tables}
References(t) == {fk.table : fk \in ToSet(t.foreign_keys)} \cap TableIds

Edges(a) == UNION {References(t) : t \in {u \in Tables : Id(u) = a}}

\* One or more foreign keys lead from a to b: b is in whatever holds the tables
\* that a references and all that its own members reference.
Leads(a, b) ==
    \A S \in SUBSET TableIds :
        Edges(a) \subseteq S /\ (\A c \in S : Edges(c) \subseteq S) => b \in S

\* The tables that lead to each other, and so to themselves.
Cycles == {{b \in TableIds : Leads(a, b) /\ Leads(b, a)} : a \in TableIds} \ {{}}

Found(rule) == {f \in DOMAIN report.findings : f.rule = rule}

\* "Foreign keys form a directed cycle between tables" (validation.rs:30): there
\* is one finding for each set of tables that reach each other over foreign
\* keys, it names them all, and no other table is named.
CyclesAreReported ==
    pc = "done" =>
        {f.tables : f \in Found("CircularReference")} =
            {{IF database.engine = "sqlserver" THEN a ELSE <<a[2]>> : a \in cycle} :
                cycle \in Cycles}

\* The report is a function of the schema and not of the order in which the
\* catalog listed its tables and keys, in which hash maps were walked or in
\* which the depth-first search entered a cycle.
ReportIsDeterministic == pc = "done" => report = validate(database)

Describes(rule, t) ==
    \/ /\ rule = "InvalidMetadata"
       /\ "" \in {t.schema, t.name} \cup ColumnNames(t)
          \/ \E c \in ToSet(t.columns) : c.ordinal_position = 0
    \/ rule = "MissingPrimaryKey" /\ ~ \E c \in ToSet(t.columns) : c.primary_key
    \/ /\ rule = "BrokenForeignKey"
       /\ \E fk \in ToSet(t.foreign_keys) :
            ~ \E u \in Tables : /\ Id(u) = fk.table
                                /\ Len(fk.columns) = Len(fk.referenced)
                                /\ ToSet(fk.referenced) \subseteq ColumnNames(u)
    \/ /\ rule = "DuplicateIndex"
       /\ \E i, j \in DOMAIN t.indexes :
            /\ i # j
            /\ t.indexes[i].columns = t.indexes[j].columns
            /\ t.indexes[i].unique = t.indexes[j].unique
    \/ /\ rule = "SqliteWithoutRowidMissingPrimaryKey"
       /\ database.engine = "sqlite" /\ t.without_rowid
       /\ ~ \E c \in ToSet(t.columns) : c.primary_key
    \/ /\ rule = "SqliteStrictMissingDefaultOnNotNull"
       /\ database.engine = "sqlite" /\ t.strict
       /\ \E c \in ToSet(t.columns) :
            ~c.nullable /\ ~c.has_default /\ ~c.auto_increment

TableRules == {"MissingPrimaryKey", "BrokenForeignKey", "DuplicateIndex", "InvalidMetadata",
               "SqliteWithoutRowidMissingPrimaryKey", "SqliteStrictMissingDefaultOnNotNull"}

\* A table is reported under a rule exactly when the rule's documentation
\* (validation.rs:24-37) describes it, and a report without findings is exit
\* code 0 (CLI.md:146-150).
ReportMatchesRules ==
    pc = "done" =>
        /\ \A rule \in TableRules : \A t \in Tables :
            Describes(rule, t) <=> \E f \in Found(rule) : <<f.schema, f.table>> = Id(t)
        /\ exit = 0 <=> DOMAIN report.findings = {}

\* "Deterministic ordering is REQUIRED" (FORMAT.md:354): the documents, too, say
\* the same in the same order whichever way the catalog listed its objects.
DocumentsIgnoreOrder == pc = "documented" => documents = Documented(sort(database))

DocumentOf(t) == CHOOSE i \in DOMAIN documents.schema.tables : Id(documents.schema.tables[i]) = Id(t)
Saying(context, kind) == ForEach(context.notes, LAMBDA n : If(n.kind = kind, n))
NotesOf(t, kind) == Saying(documents.ai[DocumentOf(t)], kind)

\* What the notes at t should say of the keys of all tables that lead to it.
Mirrored(t) ==
    ForEach(database.tables, LAMBDA u :
        ForEach(u.foreign_keys, LAMBDA fk :
            If(fk.table = Id(t),
               Note("Referenced by", table_reference(database, Id(u)), fk.columns))))

\* Drawn as a join of two: two lines from tables of different names, and the
\* columns of the two keys, no two the same, are those labelled PK.
JoinsTwo(t) ==
    /\ Len(t.foreign_keys) = 2
    /\ Cardinality({fk.table[2] : fk \in ToSet(t.foreign_keys)}) = 2
    /\ \A i, j \in DOMAIN KeyColumns(t) : KeyColumns(t)[i] = KeyColumns(t)[j] => i = j
    /\ LET entity == documents.graph.entities[DocumentOf(t)]
       IN  /\ \A a \in ToSet(entity.attributes) : a.labels \in {{}, {"PK", "FK"}}
           /\ {a.name : a \in {b \in ToSet(entity.attributes) : b.labels # {}}}
                = ToSet(KeyColumns(t))

\* All counts of the foreign keys are one.
CountsAgree ==
    \A count \in {Len(documents.graph.edges), Len(documents.relationships),
                  documents.metadata.foreign_key_count, documents.markdown.foreign_keys,
                  Total(documents.markdown.tables, LAMBDA t : Len(t.foreign_keys))} :
        count = documents.statistics.foreign_keys

\* The notes at the table a key is of and at the one it leads to.
NotesAgree(t) ==
    /\ Sorted(NotesOf(t, "Referenced by")) = Sorted(Mirrored(t))
    /\ Len(NotesOf(t, "References")) = Len(t.foreign_keys)

JunctionsAgree(t) ==
    (\E f \in ToSet(documents.analysis[DocumentOf(t)]) : f.kind = "JunctionTable") <=> JoinsTwo(t)

\* No line and no key is without the entity and the note at its end.
NoLooseEnds ==
    /\ \A e \in ToSet(documents.graph.edges) :
            {e.one, e.many} \subseteq {n.name : n \in ToSet(documents.graph.entities)}
    /\ Total(documents.ai, LAMBDA c : Len(Saying(c, "Referenced by")))
          = documents.statistics.foreign_keys

\* The documents are written by five pieces of code that count and follow the
\* foreign keys each for itself, and a reader takes one for another: the counts
\* agree; what a note says of a key at one end the notes at the other end say
\* too; a schema the rules find no broken key in is drawn without a line that
\* leads nowhere; and "Many-to-many join table with foreign keys forming the
\* primary key" (model.rs:297) is said of the entities that are drawn as one.
DocumentsAgree ==
    pc = "documented" =>
    /\ CountsAgree
    /\ \A t \in Tables : NotesAgree(t) /\ JunctionsAgree(t)
    /\ (~ \E f \in DOMAIN validate(database).findings : f.rule = "BrokenForeignKey") => NoLooseEnds

=============================================================================
