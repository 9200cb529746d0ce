-------------------------------- MODULE Drift --------------------------------
(***************************************************************************)
(* `dbctx diff previous/schema.json current/schema.json`: the catalogs two *)
(* exports described, the documents they left, and the report and the exit *)
(* code for them (diff_files() of src/src/diff.rs, diff() of main.rs).     *)
(*                                                                         *)
(* A catalog is a set of tables and a set of views.  A table has columns   *)
(* and foreign keys in the order of their declaration; a column also has   *)
(* the number it was given when it was added, which none that is added     *)
(* after it ever has.                                                      *)
(***************************************************************************)
EXTENDS Diff, SequencesExt

CONSTANTS
    Catalogs,       \* the catalogs the database goes through
    Engines,        \* the engines it may run on
    Absent,         \* no such file
    Partial         \* a document that is not whole: an export was killed there

AllEngines == {"mysql", "postgres", "sqlserver", "sqlite"}

ASSUME DriftEngines == Engines \subseteq AllEngines

\* What an engine sees to: in a table no two columns, indexes or keys have one
\* name, in a schema no two tables and no two views; columns are numbered in
\* their order.  (The name of a key of SQLite is seen by nobody.)
IsColumns(columns) ==
    /\ columns \in Seq(ToSet(columns))
    /\ \A i, j \in DOMAIN columns :
        /\ columns[i].number \in Nat
        /\ i < j => columns[i].number < columns[j].number
        /\ columns[i].name = columns[j].name => i = j

IsTable(t) ==
    /\ t = [schema |-> t.schema, name |-> t.name, columns |-> t.columns,
            indexes |-> t.indexes, foreign_keys |-> t.foreign_keys]
    /\ IsColumns(t.columns)
    /\ IsFiniteSet(t.indexes) /\ \A i, j \in t.indexes : i.name = j.name => i = j
    /\ t.foreign_keys \in Seq(ToSet(t.foreign_keys))
    /\ \A i, j \in DOMAIN t.foreign_keys :
        /\ t.foreign_keys[i] = [name |-> t.foreign_keys[i].name,
                                columns |-> t.foreign_keys[i].columns,
                                table |-> t.foreign_keys[i].table]
        /\ t.foreign_keys[i].name = t.foreign_keys[j].name => i = j

IsView(v) ==
    /\ v = [schema |-> v.schema, name |-> v.name, columns |-> v.columns]
    /\ IsColumns(v.columns)

FullName(x) == <<x.schema, x.name>>
IsSchema(objects) == IsFiniteSet(objects) /\ \A x, y \in objects : FullName(x) = FullName(y) => x = y

ASSUME CatalogsAssumption ==
    /\ Absent # Partial /\ {Absent, Partial} \cap Catalogs = {}
    /\ \A c \in Catalogs :
        /\ IsSchema(c.tables) /\ \A t \in c.tables : IsTable(t)
        /\ IsSchema(c.views) /\ \A v \in c.views : IsView(v)

Paths == {"previous", "current"}

VARIABLES
    engine,     \* the engine of the database
    files,      \* files[p]: the catalog its document describes
    pc,         \* where `dbctx diff` stands
    old, new,   \* what it has read
    report,     \* the report it printed
    exit        \* its exit code

vars == <<engine, files, pc, old, new, report, exit>>

-----------------------------------------------------------------------------
(* The document of a catalog. *)

\* attnum of PostgreSQL numbers every column the table ever had; cid of SQLite
\* and ORDINAL_POSITION of MySQL and SQL Server count the columns it has.
ordinal_position(columns, i) ==
    IF engine = "postgres" THEN columns[i].number ELSE i

\* Mutant: the keys of every engine are named by their position.
key_name_by_position(keys, i) == <<keys[i].table[2], Len(keys) - i>>

\* foreign_key_list of SQLite has no names.  It numbers the keys from 0, the
\* last one declared first, and the name is made of the referenced table and
\* this number.
key_name(keys, i) ==
    IF engine = "sqlite" THEN <<keys[i].table[2], Len(keys) - i>> ELSE <<keys[i].name>>

Columns(columns) ==
    [i \in DOMAIN columns |->
        [name |-> columns[i].name, full_type |-> columns[i].type,
         ordinal_position |-> ordinal_position(columns, i)]]

ForeignKeys(keys) == [i \in DOMAIN keys |-> [keys[i] EXCEPT !.name = key_name(keys, i)]]

TableDocument(t) ==
    [schema |-> t.schema, name |-> t.name, columns |-> Columns(t.columns),
     indexes |-> SetToSeq(t.indexes), foreign_keys |-> ForeignKeys(t.foreign_keys)]

ViewDocument(v) == [v EXCEPT !.columns = Columns(@)]

Document(c) ==
    [tables |-> SetToSeq({TableDocument(t) : t \in c.tables}),
     views |-> SetToSeq({ViewDocument(v) : v \in c.views})]

-----------------------------------------------------------------------------
NoChanges == diff([tables |-> <<>>, views |-> <<>>], [tables |-> <<>>, views |-> <<>>])

Init ==
    /\ engine \in Engines
    /\ files = [p \in Paths |-> Absent]
    /\ pc = "idle"
    /\ old = Absent
    /\ new = Absent
    /\ report = NoChanges
    /\ exit = 0

\* `dbctx inspect --overwrite`, after any DDL; it may be killed half way, or be
\* at work still.  Once both files are read it changes nothing for the command.
Export(p) ==
    /\ pc \in {"idle", "read_new"}
    /\ \E content \in Catalogs \cup {Partial} : files' = [files EXCEPT ![p] = content]
    /\ UNCHANGED <<engine, pc, old, new, report, exit>>

\* Both files are read before either is parsed.
ReadOld ==
    /\ pc = "idle" /\ files["previous"] # Absent
    /\ old' = files["previous"]
    /\ pc' = "read_new"
    /\ UNCHANGED <<engine, files, new, report, exit>>

ReadNew ==
    /\ pc = "read_new" /\ files["current"] # Absent
    /\ new' = files["current"]
    /\ pc' = "parse"
    /\ UNCHANGED <<engine, files, old, report, exit>>

\* Mutant: a document that is not there or not whole counts as no difference.
DiffFailsQuietly ==
    /\ \/ pc = "idle" /\ files["previous"] = Absent
       \/ pc = "read_new" /\ files["current"] = Absent
       \/ pc = "parse" /\ Partial \in {old, new}
    /\ exit' = 0
    /\ pc' = "done"
    /\ UNCHANGED <<engine, files, old, new, report>>

\* DiffError: a file that is not there, a document that does not parse.
DiffFails ==
    /\ \/ pc = "idle" /\ files["previous"] = Absent
       \/ pc = "read_new" /\ files["current"] = Absent
       \/ pc = "parse" /\ Partial \in {old, new}
    /\ exit' = 1
    /\ pc' = "done"
    /\ UNCHANGED <<engine, files, old, new, report>>

Compare ==
    /\ pc = "parse" /\ Partial \notin {old, new}
    /\ report' = diff(Document(old), Document(new))
    /\ exit' = IF report'.total_changes > 0 THEN 10 ELSE 0
    /\ pc' = "done"
    /\ UNCHANGED <<engine, files, old, new>>

\* The next command line.
Again ==
    /\ pc = "done"
    /\ pc' = "idle"
    /\ old' = Absent /\ new' = Absent
    /\ report' = NoChanges
    /\ exit' = 0
    /\ UNCHANGED <<engine, files>>

Next ==
    \/ \E p \in Paths : Export(p)
    \/ ReadOld \/ ReadNew \/ DiffFails \/ Compare \/ Again

Spec == Init /\ [][Next]_vars

-----------------------------------------------------------------------------
(* Properties. *)

TypeOK ==
    /\ engine \in Engines
    /\ files \in [Paths -> Catalogs \cup {Absent, Partial}]
    /\ pc \in {"idle", "read_new", "parse", "done"}
    /\ {old, new} \subseteq Catalogs \cup {Absent, Partial}
    /\ exit \in {0, 1, 10}
    /\ pc = "done" /\ exit # 1 => {old, new} \subseteq Catalogs
    /\ exit # 10 => report = NoChanges

Compared == pc = "done" /\ exit # 1

Items(t) ==
    [schema |-> t.schema, name |-> t.name, columns |-> ToSet(t.columns),
     indexes |-> ToSet(t.indexes), foreign_keys |-> ToSet(t.foreign_keys)]

ViewItems(v) == [schema |-> v.schema, name |-> v.name, columns |-> ToSet(v.columns)]

DiffsOf(changes, t) ==
    {d \in changes.modified : FullName(d) = FullName(t)}

PatchedTable(t) ==
    LET found == DiffsOf(report.tables, t)
        d == CHOOSE x \in found : TRUE
    IN  IF found = {} THEN Items(t)
        ELSE [schema |-> t.schema, name |-> t.name,
              columns |-> Patched(t.columns, d.columns),
              indexes |-> Patched(t.indexes, d.indexes),
              foreign_keys |-> Patched(t.foreign_keys, d.foreign_keys)]

PatchedView(v) ==
    LET found == DiffsOf(report.views, v)
        d == CHOOSE x \in found : TRUE
    IN  IF found = {} THEN ViewItems(v)
        ELSE [schema |-> v.schema, name |-> v.name, columns |-> Patched(v.columns, d.columns)]

FullNames(objects) == {FullName(x) : x \in objects}
ItemNames(items) == {x.name : x \in items}

\* "Present only in the new schema", "only in the old schema", "in both schemas
\* but with different columns" (diff.rs:67-78): tables, or views.
ObjectsListedOnce(changes, from, to) ==
    /\ changes.added \subseteq to /\ FullNames(changes.added) \cap FullNames(from) = {}
    /\ changes.removed \subseteq from /\ FullNames(changes.removed) \cap FullNames(to) = {}
    /\ FullNames(changes.modified) \subseteq FullNames(from) \cap FullNames(to)
    /\ \A c, d \in changes.modified : FullName(c) = FullName(d) => c = d

\* "Added in the new schema", "removed in the new schema", "exist in both schemas
\* but differ" (diff.rs:112-128): columns, indexes, or foreign keys.
ItemsListedOnce(changes, from, to) ==
    /\ changes.added \subseteq ToSet(to)
    /\ ItemNames(changes.added) \cap ItemNames(ToSet(from)) = {}
    /\ changes.removed \subseteq ToSet(from)
    /\ ItemNames(changes.removed) \cap ItemNames(ToSet(to)) = {}
    /\ \A c \in changes.changed :
        c.old \in ToSet(from) /\ c.new \in ToSet(to) /\ c.old.name = c.new.name /\ c.old # c.new

TableListedOnce(d, t, u) ==
    /\ ItemsListedOnce(d.columns, t.columns, u.columns)
    /\ ItemsListedOnce(d.indexes, t.indexes, u.indexes)
    /\ ItemsListedOnce(d.foreign_keys, t.foreign_keys, u.foreign_keys)
    /\ ~(IsEmpty(d.columns) /\ IsEmpty(d.indexes) /\ IsEmpty(d.foreign_keys))

ViewListedOnce(d, v, w) ==
    ItemsListedOnce(d.columns, v.columns, w.columns) /\ ~IsEmpty(d.columns)

\* Every table, view, column, index and key is in the one list it belongs to and
\* in no other, and nothing is listed as modified without a change.
EverythingListedOnce(from, to) ==
    /\ ObjectsListedOnce(report.tables, ToSet(from.tables), ToSet(to.tables))
    /\ ObjectsListedOnce(report.views, ToSet(from.views), ToSet(to.views))
    /\ \A t \in ToSet(from.tables), u \in ToSet(to.tables) : FullName(t) = FullName(u) =>
            \A d \in DiffsOf(report.tables, t) : TableListedOnce(d, t, u)
    /\ \A v \in ToSet(from.views), w \in ToSet(to.views) : FullName(v) = FullName(w) =>
            \A d \in DiffsOf(report.views, v) : ViewListedOnce(d, v, w)

\* The report is complete and consistent: applied to the old document it yields
\* every column, index and key of the new one; no table, view, column, index or
\* key is in two of its lists or in one it does not belong to; and the counts add
\* up to the exit code (CLI.md:199-207).
ReportRebuildsNew ==
    Compared =>
        LET from == Document(old)
            to == Document(new)
            tables == {PatchedTable(t) : t \in ToSet(from.tables) \ report.tables.removed}
            views == {PatchedView(v) : v \in ToSet(from.views) \ report.views.removed}
        IN  /\ tables \cup {Items(t) : t \in report.tables.added}
                    = {Items(t) : t \in ToSet(to.tables)}
            /\ views \cup {ViewItems(v) : v \in report.views.added}
                    = {ViewItems(v) : v \in ToSet(to.views)}
            /\ EverythingListedOnce(from, to)
            /\ exit = 0 <=> tables = {Items(t) : t \in ToSet(from.tables)}
                            /\ views = {ViewItems(v) : v \in ToSet(from.views)}
                            /\ report.tables.added = {} /\ report.views.added = {}

\* A foreign key by what it says; SQLite does not tell its name.
KeyFact(fk) == [fk EXCEPT !.name = IF engine = "sqlite" THEN "" ELSE @]

TableFacts(t) ==
    [schema |-> t.schema, name |-> t.name, indexes |-> t.indexes,
     columns |-> [i \in DOMAIN t.columns |-> <<t.columns[i].name, t.columns[i].type>>],
     foreign_keys |-> {KeyFact(fk) : fk \in ToSet(t.foreign_keys)}]

ViewFacts(v) ==
    [schema |-> v.schema, name |-> v.name,
     columns |-> [i \in DOMAIN v.columns |-> <<v.columns[i].name, v.columns[i].type>>]]

\* No drift goes unseen: where the two exports described catalogs that differ in
\* a table, a view, a column, its place or its type, an index or a foreign key,
\* the exit code is 10 ("Diff detected", CLI.md:207).
NoDriftUnseen ==
    Compared /\ exit = 0 =>
        /\ {TableFacts(t) : t \in old.tables} = {TableFacts(t) : t \in new.tables}
        /\ {ViewFacts(v) : v \in old.views} = {ViewFacts(v) : v \in new.views}

Says(fk) == [columns |-> fk.columns, table |-> fk.table]

\* The keys that a modified table had before and after, as the documents say it,
\* and that no other key of the table repeats.
KeptKeys(d) ==
    LET keys(c) == UNION {{KeyFact(fk) : fk \in ToSet(t.foreign_keys)} :
                          t \in {u \in c.tables : FullName(u) = FullName(d)}}
    IN  {k \in keys(old) \cap keys(new) :
            \A other \in keys(old) \cup keys(new) : Says(other) = Says(k) => other = k}

\* "Foreign keys added in the new schema", "removed in the new schema", "that
\* exist in both schemas but differ" (diff.rs:124-128): a key that is there
\* before and after, and says the same as no other key, is in none of these lists.
KeptKeysAreQuiet ==
    Compared =>
        \A d \in report.tables.modified : \A kept \in KeptKeys(d) :
            \A fk \in d.foreign_keys.added \cup d.foreign_keys.removed
                      \cup {c.new : c \in d.foreign_keys.changed} :
                Says(fk) # Says(kept)

\* It holds where the engine knows the names of its keys.
NamedKeysAreQuiet == engine # "sqlite" => KeptKeysAreQuiet

=============================================================================
