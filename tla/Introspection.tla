---------------------------- MODULE Introspection ----------------------------
(***************************************************************************)
(* database::inspect of src/src/database: each driver's catalog queries,   *)
(* one after the other and each with a snapshot of its own, the maps their *)
(* rows are collected in, and the join by name that makes a Database of    *)
(* them, while somebody else runs DDL.                                     *)
(*                                                                         *)
(* The live catalog maps a key, <<schema, name>>, to the object that has   *)
(* this name.  Columns are in the order of their names, the facts of a     *)
(* column are whether it takes part in the primary key, whether a unique   *)
(* index covers it and whether the engine assigns it, and `info` stands    *)
(* for the comment and the storage of a table.                             *)
(***************************************************************************)
EXTENDS Naturals, Sequences, SequencesExt

CONSTANTS
    Keys,           \* the names objects may have, in the order of ORDER BY
    Catalogs,       \* the catalogs the database goes through
    Engines,        \* the engines that are inspected
    Expr,           \* the part of an index that is no column
    Implicit,       \* the columns of REFERENCES t without a column list
    Nothing,        \* NULL, and a query that found no row
    MaxChanges      \* bound on the DDL statements

AllEngines == {"mysql", "postgres", "sqlserver", "sqlite"}

KeySet == ToSet(Keys)

ASSUME KeysAssumption ==
    /\ Keys \in Seq(KeySet) /\ KeySet \subseteq STRING \X STRING
    /\ \A i, j \in DOMAIN Keys : Keys[i] = Keys[j] => i = j
ASSUME EnginesAssumption == Engines \subseteq AllEngines
ASSUME MaxChangesAssumption == MaxChanges \in Nat
ASSUME IndexesAssumption == \A c \in Catalogs : \A k \in KeySet : IsFiniteSet(c[k].indexes)

VARIABLES
    catalog,    \* the live catalog
    changes,    \* how many DDL statements ran
    engine,     \* config.driver() of the inspection
    pc,         \* where the inspection stands
    agenda,     \* the queries it has still to send
    raw,        \* the rows it has collected
    window,     \* history: the catalogs there were since it began
    result      \* the Database it returned

collected == <<agenda, raw, result>>
vars == <<catalog, changes, engine, pc, collected, window>>

-----------------------------------------------------------------------------
(* What a query returns of an object: `c` is the live catalog. *)

\* The members of a list that are in a set, in their order.
Kept(list, S) ==
    LET kept[n \in 0 .. Len(list)] ==
            IF n = 0 THEN <<>>
            ELSE IF list[n] \in S THEN Append(kept[n - 1], list[n]) ELSE kept[n - 1]
    IN  kept[Len(list)]

\* An index part without a column name is skipped: mysql.rs:359, the join
\* with pg_attribute, the filter_map of sqlite.rs:302.
IndexColumns(parts) == Kept(parts, ToSet(parts) \ {Expr})

\* In indkey of PostgreSQL the INCLUDE columns follow the key.
PostgresIndexColumns(i) == IndexColumns(i.key) \o i.include

\* SQL Server sorts by key_ordinal, which is 0 for an INCLUDE column.
SqlserverIndexColumns(i) == i.include \o IndexColumns(i.key)

\* The rows of an index, by the sequence number the driver sorts them by.
RawIndex(e, i) ==
    [name |-> i.name, unique |-> i.kind # "plain", primary |-> i.kind = "primary",
     columns |-> CASE e = "sqlserver" -> SqlserverIndexColumns(i)
                   [] e = "postgres"  -> PostgresIndexColumns(i)
                   [] OTHER           -> IndexColumns(i.key)]

RawIndexes(e, o) == {i \in {RawIndex(e, j) : j \in o.indexes} : i.columns # <<>>}

\* Mutant: the referencing columns are taken for the referenced ones.
RawForeignKeySwapped(fk) == [fk EXCEPT !.referenced = fk.columns]

\* Only SQLite reports a foreign key without its referenced columns: as many
\* NULLs, which become empty names.
RawForeignKey(fk) ==
    [fk EXCEPT !.referenced = IF @ = Implicit THEN [i \in DOMAIN fk.columns |-> ""] ELSE @]

-----------------------------------------------------------------------------
(* What the Database holds of a table or view. *)

\* Mutant: any unique index is taken for the primary key.
is_unique_key(indexes, column) ==
    \E i \in indexes : i.unique /\ column \in ToSet(i.columns)

is_primary_key(indexes, column) ==
    \E i \in indexes : i.primary /\ column \in ToSet(i.columns)

\* Mutant: a column of a unique index of several is called unique.
is_part_of_unique(indexes, column) ==
    \E i \in indexes : i.unique /\ column \in ToSet(i.columns)

is_unique_column(indexes, column) ==
    \E i \in indexes : i.unique /\ i.columns = <<column>>

\* to_column of every column: its flags are looked up in the index rows.
to_columns(e, names, pk, auto, indexes) ==
    LET primary == IF e = "sqlite" THEN pk
                   ELSE {n \in names : is_primary_key(indexes, n)}
    IN  [columns |-> names,
         primary |-> primary,
         unique |-> {n \in names : is_unique_column(indexes, n)} \cup primary,
         auto |-> auto \cap names]

Index(i) == [name |-> i.name, unique |-> i.unique, columns |-> i.columns]

\* The join by name: a map that lacks the name yields nothing, what a map
\* holds of a name nobody listed is dropped.
Assemble(e, r) ==
    [tables |-> [k \in r.tables |->
        [is |-> to_columns(e, r.columns[k], r.pk[k], r.auto[k], r.indexes[k]),
         indexes |-> {Index(i) : i \in r.indexes[k]},
         foreign_keys |-> r.foreign_keys[k],
         info |-> r.info[k]]],
     views |-> [k \in r.views |->
        IF e = "sqlite" THEN to_columns(e, r.view_columns[k], {}, {}, {})
        ELSE to_columns(e, r.columns[k], r.pk[k], r.auto[k], r.indexes[k])]]

-----------------------------------------------------------------------------
(* The queries. *)

Ask(what, of) == [what |-> what, of |-> of]
AskAll(whats, keys) == [i \in 1 .. Len(whats) |-> Ask(whats[i], keys)]
AskEach(whats, keys) ==
    FlattenSeq([i \in 1 .. Len(keys) |->
        AskAll(whats, {keys[i]})])
Ordered(keys) == Kept(Keys, keys)
InSchema(s) == {k \in KeySet : k[1] = s}

\* MySQL reads the one schema the configuration names, the others every schema.
Scope(e) == IF e = "mysql" THEN InSchema(Keys[1][1]) ELSE KeySet

\* The queries a driver sends before it knows a name.  What it asks of the
\* server and of the database itself is left out.
MysqlAgenda ==
    AskAll(<<"tables", "columns", "indexes", "foreign_keys", "views">>, Scope("mysql"))

PostgresAgenda ==
    AskAll(<<"tables", "views", "info", "columns", "indexes", "foreign_keys">>,
           Scope("postgres"))

\* The identity, comment and computed-column queries are "auto" and "info".
SqlserverAgenda ==
    AskAll(<<"tables", "columns", "indexes", "foreign_keys", "auto", "info", "views">>,
           Scope("sqlserver"))

\* One schema after another: the main database and what is attached to it.
SqliteAgenda ==
    LET first(i) == \A j \in 1 .. i - 1 : Keys[j][1] # Keys[i][1]
    IN  FlattenSeq([i \in 1 .. Len(Keys) |->
            IF first(i) THEN AskAll(<<"tables", "views">>, InSchema(Keys[i][1])) ELSE <<>>])

Agenda(e) ==
    CASE e = "mysql"     -> MysqlAgenda
      [] e = "postgres"  -> PostgresAgenda
      [] e = "sqlserver" -> SqlserverAgenda
      [] e = "sqlite"    -> SqliteAgenda

NoRows ==
    [tables |-> {}, views |-> {},
     columns |-> [k \in KeySet |-> {}], view_columns |-> [k \in KeySet |-> {}],
     pk |-> [k \in KeySet |-> {}], auto |-> [k \in KeySet |-> {}],
     indexes |-> [k \in KeySet |-> {}], foreign_keys |-> [k \in KeySet |-> {}],
     info |-> [k \in KeySet |-> Nothing]]

NoResult == [tables |-> <<>>, views |-> <<>>]

\* What a server can hold: only those of PostgreSQL and SQL Server include
\* columns in an index, and only SQLite lets a foreign key leave out the columns
\* it references, but not lead to another database.
Holds(e, c) ==
    \A k \in KeySet :
        /\ e \in {"mysql", "sqlite"} => \A i \in c[k].indexes : i.include = <<>>
        /\ \A fk \in c[k].foreign_keys :
            IF e = "sqlite" THEN fk.table[1] = k[1] ELSE fk.referenced # Implicit

Init ==
    /\ engine \in Engines
    /\ catalog \in {c \in Catalogs : Holds(engine, c)}
    /\ changes = 0
    /\ pc = "idle"
    /\ agenda = <<>>
    /\ raw = NoRows
    /\ window = {}
    /\ result = NoResult

\* The environment: a DDL statement, or a transaction of several.
Migrate ==
    /\ changes < MaxChanges
    /\ catalog' \in {c \in Catalogs \ {catalog} : Holds(engine, c)}
    /\ changes' = changes + 1
    /\ window' = IF pc = "inspecting" THEN window \cup {catalog'} ELSE window
    /\ UNCHANGED <<engine, pc, collected>>

\* connect() succeeded.
Begin ==
    /\ pc = "idle"
    /\ pc' = "inspecting"
    /\ agenda' = Agenda(engine)
    /\ window' = {catalog}
    /\ UNCHANGED <<catalog, changes, engine, raw, result>>

\* The next query is sent and its rows are collected, in raw'; `then` are the
\* queries that remain.
Due(what) == pc = "inspecting" /\ agenda # <<>> /\ Head(agenda).what = what

Send(what, then) ==
    /\ Due(what)
    /\ agenda' = then
    /\ UNCHANGED <<catalog, changes, engine, pc, window, result>>

Asked == Head(agenda).of
Live(k) == catalog[k]

\* What a driver collected in a map, and what this query adds to it.
Collect(map, rows(_)) == [k \in KeySet |-> IF k \in Asked THEN rows(k) ELSE map[k]]

\* SQLite reads the table options with the list and asks about each table on
\* it before it lists the views; MySQL asks for the TableInfo of each table
\* after every other query.
ListTables ==
    LET listed == {k \in Asked : Live(k).kind = "table"}
        read(k) == IF engine = "sqlite" /\ k \in listed THEN Live(k).info ELSE raw.info[k]
    IN  /\ Send("tables",
                CASE engine = "sqlite" ->
                        AskEach(<<"columns", "index_list", "foreign_keys">>, Ordered(listed))
                        \o Tail(agenda)
                  [] engine = "mysql" -> Tail(agenda) \o AskEach(<<"info">>, Ordered(listed))
                  [] OTHER -> Tail(agenda))
        /\ raw' = [raw EXCEPT !.tables = @ \cup listed, !.info = [k \in KeySet |-> read(k)]]

ListViews ==
    LET listed == {k \in Asked : Live(k).kind = "view"}
    IN  /\ Send("views",
                IF engine = "sqlite"
                THEN AskEach(<<"view_columns">>, Ordered(listed)) \o Tail(agenda)
                ELSE Tail(agenda))
        /\ raw' = [raw EXCEPT !.views = @ \cup listed]

\* SQLite calls every integer column of the primary key automatic.
SqliteAuto(o) == o.primary \cap o.integer

\* SQL Server learns the identity columns from a query of their own.  SQLite
\* learns the primary key here.
ReadColumns ==
    LET auto(o) == CASE engine = "sqlite"    -> SqliteAuto(o)
                     [] engine = "sqlserver" -> {}
                     [] OTHER                -> o.auto
    IN  /\ Send("columns", Tail(agenda))
        /\ raw' = [raw EXCEPT
                    !.columns = Collect(@, LAMBDA k : Live(k).columns),
                    !.pk = Collect(@, LAMBDA k :
                                IF engine = "sqlite" THEN Live(k).primary ELSE {}),
                    !.auto = Collect(@, LAMBDA k : auto(Live(k)))]

ReadViewColumns ==
    /\ Send("view_columns", Tail(agenda))
    /\ raw' = [raw EXCEPT !.view_columns = Collect(@, LAMBDA k : Live(k).columns)]

ReadIdentities ==
    /\ Send("auto", Tail(agenda))
    /\ raw' = [raw EXCEPT !.auto = Collect(@, LAMBDA k : Live(k).auto)]

ReadIndexes ==
    /\ Send("indexes", Tail(agenda))
    /\ raw' = [raw EXCEPT !.indexes = Collect(@, LAMBDA k : RawIndexes(engine, Live(k)))]

\* PRAGMA index_list names the indexes of a table and says which are unique;
\* PRAGMA index_info is asked for the columns of each.
ListIndexes ==
    /\ Due("index_list")
    /\ \E order \in SetToSeqs(UNION {Live(k).indexes : k \in Asked}) :
        Send("index_list",
             [i \in DOMAIN order |-> [what |-> "index_info", of |-> Asked, list |-> order[i]]]
             \o Tail(agenda))
    /\ UNCHANGED raw

\* It finds the index by its name in the schema, whatever table has it now; an
\* index that is gone, or has no named column, is skipped.
ReadIndexInfo ==
    LET listed == RawIndex(engine, Head(agenda).list)
        now == {i \in UNION {RawIndexes(engine, Live(j)) :
                             j \in UNION {InSchema(k[1]) : k \in Asked}} :
                    i.name = listed.name}
    IN  /\ Send("index_info", Tail(agenda))
        /\ raw' = [raw EXCEPT !.indexes =
                    Collect(@, LAMBDA k : raw.indexes[k] \cup
                        {[listed EXCEPT !.columns = i.columns] : i \in now})]

ReadForeignKeys ==
    /\ Send("foreign_keys", Tail(agenda))
    /\ raw' = [raw EXCEPT !.foreign_keys =
                Collect(@, LAMBDA k : {RawForeignKey(fk) : fk \in Live(k).foreign_keys})]

ReadInfo ==
    /\ Send("info", Tail(agenda))
    /\ raw' = [raw EXCEPT !.info = Collect(@, LAMBDA k : Live(k).info)]

\* The Database is put together and the connection is closed.
Return ==
    /\ pc = "inspecting" /\ agenda = <<>>
    /\ result' = Assemble(engine, raw)
    /\ pc' = "done"
    /\ UNCHANGED <<catalog, changes, engine, agenda, raw, window>>

\* Mutant: the queries go on after the caller has given up.
FailAndGoOn ==
    /\ pc = "inspecting"
    /\ pc' = "failed"
    /\ UNCHANGED <<catalog, changes, engine, agenda, raw, window, result>>

\* A query failed, or the caller's timeout dropped the inspection.
Fail ==
    /\ pc = "inspecting"
    /\ pc' = "failed"
    /\ agenda' = <<>>
    /\ raw' = NoRows
    /\ UNCHANGED <<catalog, changes, engine, window, result>>

Next ==
    \/ Migrate
    \/ Begin
    \/ ListTables \/ ListViews \/ ReadColumns \/ ReadViewColumns \/ ReadIdentities
    \/ ReadIndexes \/ ListIndexes \/ ReadIndexInfo \/ ReadForeignKeys \/ ReadInfo
    \/ Return
    \/ Fail

Spec == Init /\ [][Next]_vars

-----------------------------------------------------------------------------
(* Properties. *)

Wanted == {"tables", "views", "columns", "view_columns", "auto", "indexes",
           "index_list", "index_info", "foreign_keys", "info"}

TypeOK ==
    /\ catalog \in Catalogs
    /\ changes \in 0 .. MaxChanges
    /\ engine \in Engines
    /\ pc \in {"idle", "inspecting", "done", "failed"}
    /\ \A i \in DOMAIN agenda : agenda[i].what \in Wanted /\ agenda[i].of \subseteq KeySet
    /\ raw.tables \subseteq KeySet /\ raw.views \subseteq KeySet
    /\ DOMAIN raw.columns = KeySet /\ DOMAIN raw.indexes = KeySet
    /\ window \subseteq Catalogs
    /\ pc = "inspecting" => catalog \in window
    /\ pc # "inspecting" => agenda = <<>>

\* What model.rs:236-257 documents of a table: "Whether a unique constraint
\* covers the column on its own", "Indexed columns, in index order".
UniqueAlone(o) ==
    {c \in o.columns : o.primary = {c}
                       \/ \E i \in o.indexes : i.kind # "plain" /\ i.key = <<c>>}

TableImage(o) ==
    [is |-> [columns |-> o.columns, primary |-> o.primary,
             unique |-> UniqueAlone(o), auto |-> o.auto],
     indexes |-> {[name |-> i.name, unique |-> i.kind # "plain",
                   columns |-> IndexColumns(i.key)] :
                  i \in {j \in o.indexes : IndexColumns(j.key) # <<>>}},
     foreign_keys |-> o.foreign_keys,
     info |-> o.info]

ViewImage(o) == [columns |-> o.columns, primary |-> {}, unique |-> {}, auto |-> {}]

Untouched(k) == \A c, d \in window : c[k] = d[k]

\* The objects a driver reads as they are: the key is one column at most, on
\* SQLite the engine assigns it if it is an integer, and no index includes
\* columns; a unique index with one column has no other part; a foreign key names
\* the columns it references; and a view has none of these.
Legible(o) ==
    /\ \A m, n \in o.primary : m = n
    /\ engine = "sqlite" => SqliteAuto(o) = o.auto
    /\ \A i \in o.indexes :
        /\ i.include = <<>>
        /\ \A n \in o.columns : i.kind # "plain" /\ IndexColumns(i.key) = <<n>> => i.key = <<n>>
    /\ \A fk \in o.foreign_keys : fk.referenced # Implicit
    /\ o.kind = "view" => o.primary = {} /\ o.auto = {} /\ o.indexes = {}

\* DDL elsewhere does not disturb a description: a name that meant the same
\* object from the first query to the last is described exactly as that object
\* (and as nothing else), whatever was created, dropped, renamed or turned into
\* a view meanwhile.  With no DDL at all the Database is exactly the catalog.  An
\* object with something the drivers misread is listed, if not exact.
UntouchedObjectsAreExact ==
    pc = "done" => \A k \in Scope(engine) : Untouched(k) =>
        LET o == (CHOOSE c \in window : TRUE)[k]
        IN  /\ k \in DOMAIN result.tables <=> o.kind = "table"
            /\ k \in DOMAIN result.views <=> o.kind = "view"
            /\ Legible(o) /\ o.kind = "table" => result.tables[k] = TableImage(o)
            /\ Legible(o) /\ o.kind = "view" => result.views[k] = ViewImage(o)

\* What a Database says, fact by fact.  SQLite finds the columns of an index by
\* its name, so there they are a fact about the index, not about the table, and
\* that a column is unique is none: the index and its columns are.
TableFacts(k, t) ==
    {<<"table", k>>, <<"info", k, t.info>>}
    \cup {<<"column", k, c>> : c \in t.is.columns}
    \cup {<<"primary", k, c>> : c \in t.is.primary}
    \cup {<<"unique", k, c>> : c \in IF engine = "sqlite" THEN {} ELSE t.is.unique}
    \cup {<<"auto", k, c>> : c \in t.is.auto}
    \cup {<<"foreign key", k, fk>> : fk \in t.foreign_keys}
    \cup {<<"index", k, i.name, i.unique>> : i \in t.indexes}
    \cup {<<"parts", IF engine = "sqlite" THEN k[1] ELSE k, i.name, i.columns>> : i \in t.indexes}

ViewFacts(k, v) == {<<"view", k>>} \cup {<<"column", k, c>> : c \in v.columns}

ResultFacts ==
    UNION ({TableFacts(k, result.tables[k]) : k \in DOMAIN result.tables}
           \cup {ViewFacts(k, result.views[k]) : k \in DOMAIN result.views})

\* An index of nothing but expressions has a name too, which SQLite lists.
CatalogFacts(c) ==
    UNION ({TableFacts(k, TableImage(c[k]))
            \cup {<<"index", k, i.name, i.kind # "plain">> : i \in c[k].indexes} :
                k \in {n \in KeySet : c[n].kind # "none"}}
           \cup {ViewFacts(k, ViewImage(c[k])) : k \in {n \in KeySet : c[n].kind = "view"}})

\* The columns of an index, with those it includes.
Covered(i) ==
    {IndexColumns(i.key), IndexColumns(i.key) \o i.include, i.include \o IndexColumns(i.key)}

\* A column of the key, or included in its index.
Covers(o) == o.primary \cup UNION {ToSet(i.include) : i \in {j \in o.indexes : j.kind = "primary"}}

\* What drivers are known to get wrong of an object: included columns are taken
\* for columns of the index, and of the key; a column of the key for unique, or
\* one that is the only column among the parts of a unique index; on SQLite all
\* integers of the key for automatic; and a foreign key that does not say what
\* it references for one to columns without a name.
Misreadings(k, o) ==
    (UNION {{<<"parts", k, i.name, columns>> : columns \in Covered(i)} : i \in o.indexes})
    \cup {<<"primary", k, n>> : n \in Covers(o)}
    \cup {<<"unique", k, n>> : n \in Covers(o) \cup {m \in o.columns :
                \E i \in o.indexes : i.kind # "plain" /\ <<m>> \in Covered(i)}}
    \cup {<<"auto", k, n>> : n \in IF engine = "sqlite" THEN o.primary \cap o.integer ELSE {}}
    \cup {<<"foreign key", k, [fk EXCEPT !.referenced = [i \in DOMAIN fk.columns |-> ""]]>> :
            fk \in {f \in o.foreign_keys : f.referenced = Implicit}}

\* Each fact of the Database was a fact of the live catalog at some moment of
\* the inspection, or is what the driver is known to make of one: a torn
\* inspection mixes moments, it invents nothing.  A table gone before its own
\* queries has no info, and that is no fact.
EveryFactWasTrue ==
    pc = "done" =>
        \A f \in ResultFacts :
            \/ f[1] = "info" /\ f[3] = Nothing
            \/ \E c \in window : f \in CatalogFacts(c) \/ \E k \in KeySet : f \in Misreadings(k, c[k])

\* "Indexed columns, in index order, which is significant" (model.rs:257).
IndexOrderIsKept ==
    pc = "done" /\ window = {catalog} =>
        \A k \in DOMAIN result.tables : \A i \in result.tables[k].indexes :
            \E j \in catalog[k].indexes :
                i.name = j.name /\ IsPrefix(IndexColumns(j.key), i.columns)

\* "Whether a unique constraint covers the column on its own" (model.rs:236).
UniqueMeansAlone ==
    pc = "done" /\ window = {catalog} =>
        \A k \in DOMAIN result.tables : result.tables[k].is.unique \subseteq UniqueAlone(catalog[k])

-----------------------------------------------------------------------------
(* What every server sees to. *)

\* A name nobody has means nothing; the parts of an index are columns of its
\* table, those of the primary key the columns of the key; a key has an index,
\* which SQLite alone may do without; and what a table has of each kind are
\* columns of its own.
WellFormed(o) ==
    /\ o.kind = "none" =>
        /\ o.columns = {} /\ o.primary = {} /\ o.auto = {}
        /\ o.indexes = {} /\ o.foreign_keys = {} /\ o.info = Nothing
    /\ Expr \notin o.columns /\ o.primary \subseteq o.columns /\ o.auto \subseteq o.columns
    /\ \A i \in o.indexes :
        /\ i.key \in Seq(o.columns \cup {Expr}) /\ i.include \in Seq(o.columns)
        /\ i.kind = "primary" => ToSet(i.key) = o.primary /\ o.primary # {}
    /\ (\E e \in Engines : e # "sqlite") /\ o.primary # {} => \E i \in o.indexes : i.kind = "primary"
    /\ \A fk \in o.foreign_keys :
        /\ fk = [columns |-> fk.columns, table |-> fk.table, referenced |-> fk.referenced]
        /\ fk.columns \in Seq(o.columns)

\* On SQLite an index has a name of its own among those of its schema.
OwnIndexNames(c) ==
    "sqlite" \in Engines =>
        \A k, n \in KeySet : \A i \in c[k].indexes, j \in c[n].indexes :
            k[1] = n[1] /\ i.name = j.name => k = n /\ i = j

AllWellFormed(catalogs) ==
    \A c \in catalogs : OwnIndexNames(c) /\ \A k \in KeySet : WellFormed(c[k])

=============================================================================
