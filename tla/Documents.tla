------------------------------- MODULE Documents -------------------------------
(***************************************************************************)
(* What dbctx makes of a Database besides a report: sort() and             *)
(* relationships() of src/src/model.rs, the classifications of             *)
(* analysis.rs, the notes of ai.rs, the counts of stats.rs, and the        *)
(* diagram, the Markdown and the smaller documents of export.rs.           *)
(*                                                                         *)
(* A document is the record of what it says, in its order; its wording and *)
(* the escaping of names are left out.  A foreign key has a name, the      *)
(* columns, the Id of the table and the columns it references.             *)
(***************************************************************************)
EXTENDS Validation, TLC, FiniteSets

CONSTANTS
    Rank,           \* the position of each name in the order of bytes
    Lowercase,      \* names with capitals, each with its lower case
    AuditNames,     \* the names that contain "audit", in lower case
    TimestampTypes  \* timestamp, datetime and their like, in lower case

ASSUME RankIsAnOrder ==
    \A m, n \in DOMAIN Rank : Rank[n] \in Nat /\ (Rank[m] = Rank[n] => m = n)

to_lowercase(name) == IF name \in DOMAIN Lowercase THEN Lowercase[name] ELSE name

-----------------------------------------------------------------------------
(* Order. *)

\* The comparison of two tuples of names.
Precedes(p, q) ==
    \E i \in DOMAIN p : Rank[p[i]] < Rank[q[i]] /\ \A j \in 1 .. (i - 1) : p[j] = q[j]

\* A stable sort: what neither precedes nor follows an item stays on its side.
sort_by(s, before(_, _)) ==
    LET place == [i \in DOMAIN s |-> 1 + Cardinality({j \in DOMAIN s :
                    before(s[j], s[i]) \/ (~before(s[i], s[j]) /\ j < i)})]
    IN  [k \in DOMAIN s |-> s[CHOOSE i \in DOMAIN s : place[i] = k]]

ByName(s) == sort_by(s, LAMBDA a, b : Rank[a.name] < Rank[b.name])
ById(s) == sort_by(s, LAMBDA a, b : Precedes(Id(a), Id(b)))
ByOrdinal(s) == sort_by(s, LAMBDA a, b : a.ordinal_position < b.ordinal_position)

\* Mutant: the foreign keys of a table stay as the catalog listed them.
SortedWithoutKeys(t) == [t EXCEPT !.columns = ByOrdinal(@), !.indexes = ByName(@)]

SortedTable(t) ==
    [t EXCEPT !.columns = ByOrdinal(@), !.indexes = ByName(@), !.foreign_keys = ByName(@)]
SortedView(v) == [v EXCEPT !.columns = ByOrdinal(@)]

sort(d) ==
    [d EXCEPT !.tables = ById([i \in DOMAIN d.tables |-> SortedTable(d.tables[i])]),
              !.views = ById([i \in DOMAIN d.views |-> SortedView(d.views[i])])]

\* Every foreign key of every table; the sort is by where it leads from and to
\* and by its name.
relationships(d) ==
    sort_by(ForEach(d.tables, LAMBDA t :
               [i \in DOMAIN t.foreign_keys |->
                   LET fk == t.foreign_keys[i]
                   IN  [from |-> Id(t), from_columns |-> fk.columns,
                        to |-> fk.table, to_columns |-> fk.referenced,
                        constraint |-> fk.name]]),
           LAMBDA a, b : Precedes(a.from \o a.to \o <<a.constraint>>,
                                  b.from \o b.to \o <<b.constraint>>))

-----------------------------------------------------------------------------
(* analysis.rs.  A classification is its kind and the facts it names. *)

PrimaryKey(t) == ForEach(t.columns, LAMBDA c : If(c.primary_key, c.name))
LowerNames(t) == {to_lowercase(c) : c \in ColumnNames(t)}
KeyColumns(t) == ForEach(t.foreign_keys, LAMBDA fk : fk.columns)

\* The referenced tables are compared without their schemas.
junction_table(t) ==
    If(/\ Len(t.foreign_keys) = 2
       /\ t.foreign_keys[1].table[2] # t.foreign_keys[2].table[2]
       /\ HasPrimaryKey(t)
       /\ Sorted(PrimaryKey(t)) = Sorted(KeyColumns(t)),
       [kind |-> "JunctionTable",
        evidence |-> [i \in DOMAIN t.foreign_keys |-> t.foreign_keys[i].table[2]]])

NameLike == {"name", "label", "value", "code", "title", "description"}
lookup_table(t) ==
    If(/\ t.foreign_keys = <<>>
       /\ HasPrimaryKey(t)
       /\ Len(t.columns) <= 3
       /\ LowerNames(t) \cap NameLike # {},
       [kind |-> "LookupTable", evidence |-> <<Len(t.columns)>>])

is_timestamp_type(data_type) == to_lowercase(data_type) \in TimestampTypes

\* The name decides; columns that look like a time are only named as evidence.
audit_table(t) ==
    LET timed == \E c \in ToSet(t.columns) :
            is_timestamp_type(c.data_type) \/ is_timestamp_type(c.name)
    IN  If(to_lowercase(t.name) \in AuditNames, [kind |-> "AuditTable", evidence |-> <<timed>>])

\* The first deleted_at counts, or else the first is_deleted.  Whether the
\* column is nullable, as the evidence says it is, is not looked at.
soft_deletes(t) ==
    LET called(name) == SelectSeq(t.columns, LAMBDA c : to_lowercase(c.name) = name)
        marks == called("deleted_at") \o called("is_deleted")
    IN  If(marks # <<>>, [kind |-> "SoftDeletes", evidence |-> <<marks[1].data_type>>])

timestamp_conventions(t) ==
    If(/\ LowerNames(t) \cap {"created_at", "created", "create_time", "created_on"} # {}
       /\ LowerNames(t) \cap {"updated_at", "updated", "update_time", "updated_on"} # {},
       [kind |-> "TimestampConventions", evidence |-> <<>>])

\* The findings of each table, sorted by the names of their kinds.
analyze(d) ==
    [i \in DOMAIN d.tables |->
        LET t == d.tables[i]
        IN  audit_table(t) \o junction_table(t) \o lookup_table(t)
            \o soft_deletes(t) \o timestamp_conventions(t)]

-----------------------------------------------------------------------------
(* ai.rs: the notes of each table and its summary, after analyze() or without. *)

table_reference(d, id) == IF d.engine = "sqlserver" THEN id ELSE <<id[2]>>

Note(kind, table, columns) == [kind |-> kind, table |-> table, columns |-> columns]

\* Mutant: to a table of this name, whatever its schema.
RefersByName(r, t) == r.to[2] = t.name

\* The key of another table, or of its own, that leads to this one.
Refers(r, t) == r.to = Id(t)

table_context(d, t, related, findings) ==
    LET own(kind) == [i \in DOMAIN t.foreign_keys |->
                        Note(kind, table_reference(d, t.foreign_keys[i].table),
                             t.foreign_keys[i].columns)]
    IN  [notes |-> own("References")
                   \o ForEach(related, LAMBDA r :
                        If(Refers(r, t),
                           Note("Referenced by", table_reference(d, r.from), r.from_columns)))
                   \o If(HasPrimaryKey(t), Note("Start queries from", <<>>, PrimaryKey(t)))
                   \o own("Join from"),
         summary |-> [columns |-> Len(t.columns), indexes |-> Len(t.indexes),
                      foreign_keys |-> Len(t.foreign_keys),
                      suggests |-> [i \in DOMAIN findings |-> findings[i].kind]]]

generate(d, findings) ==
    LET related == relationships(d)
    IN  [i \in DOMAIN d.tables |-> table_context(d, d.tables[i], related, findings[i])]

-----------------------------------------------------------------------------
(* stats.rs and export.rs. *)

sum(counts) ==
    LET total[i \in 0 .. Len(counts)] == IF i = 0 THEN 0 ELSE total[i - 1] + counts[i]
    IN  total[Len(counts)]

Total(items, count(_)) == sum([i \in DOMAIN items |-> count(items[i])])
Columns(o) == Len(o.columns)

Statistics(d) ==
    [tables |-> Len(d.tables), views |-> Len(d.views),
     columns |-> Total(d.tables, Columns) + Total(d.views, Columns),
     indexes |-> Total(d.tables, LAMBDA t : Len(t.indexes)),
     foreign_keys |-> Total(d.tables, LAMBDA t : Len(t.foreign_keys))]

\* MetadataDocument, which counts for itself.
Metadata(d) ==
    [table_count |-> Len(d.tables), view_count |-> Len(d.views),
     foreign_key_count |-> Total(d.tables, LAMBDA t : Len(t.foreign_keys))]

schema_qualified(d) == d.engine \in {"sqlserver", "postgres", "sqlite"}
display_name(d, id) == IF schema_qualified(d) THEN id ELSE <<id[2]>>

\* A column is of the primary key, of a foreign key, or of both.
Labels(t, c) ==
    (IF c.primary_key THEN {"PK"} ELSE {})
    \cup (IF c.name \in ToSet(KeyColumns(t)) THEN {"FK"} ELSE {})

\* An entity for each table, a line for each relationship.
render_mermaid(d) ==
    LET edges == relationships(d)
    IN  [entities |-> [i \in DOMAIN d.tables |->
            LET t == d.tables[i]
            IN  [name |-> display_name(d, Id(t)),
                 attributes |-> [j \in DOMAIN t.columns |->
                    [name |-> t.columns[j].name, labels |-> Labels(t, t.columns[j])]]]],
         edges |-> [i \in DOMAIN edges |->
            [one |-> display_name(d, edges[i].to), many |-> display_name(d, edges[i].from),
             label |-> edges[i].constraint]]]

column_attributes(c) ==
    If(c.primary_key, "PK") \o If(c.auto_increment, "AI")
    \o If(c.unique, "Unique") \o If(c.generated, "Generated")

RenderColumns(o) ==
    [i \in DOMAIN o.columns |-> [name |-> o.columns[i].name, nullable |-> o.columns[i].nullable,
                                 attributes |-> column_attributes(o.columns[i])]]

render_table_markdown(d, t, findings, context) ==
    [heading |-> display_name(d, Id(t)), columns |-> RenderColumns(t), indexes |-> t.indexes,
     foreign_keys |-> [i \in DOMAIN t.foreign_keys |->
        [t.foreign_keys[i] EXCEPT !.table = display_name(d, @)]],
     analysis |-> findings, ai |-> context]

render_markdown(d, findings, contexts) ==
    [foreign_keys |-> Len(relationships(d)),
     tables |-> [i \in DOMAIN d.tables |->
        render_table_markdown(d, d.tables[i], findings[i], contexts[i])],
     views |-> [i \in DOMAIN d.views |->
        [heading |-> display_name(d, Id(d.views[i])), columns |-> RenderColumns(d.views[i])]]]

\* Everything `dbctx inspect --analyze --llm`, `dbctx graph` and `dbctx stats`
\* write of one Database.
Documented(d) ==
    LET findings == analyze(d)
        contexts == generate(d, findings)
    IN  [schema |-> d, analysis |-> findings, ai |-> contexts,
         relationships |-> relationships(d), metadata |-> Metadata(d),
         markdown |-> render_markdown(d, findings, contexts),
         graph |-> render_mermaid(d), statistics |-> Statistics(d)]

=============================================================================
