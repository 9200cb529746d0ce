--------------------------------- MODULE Diff ---------------------------------
(***************************************************************************)
(* diff() of src/src/diff.rs: the changes between two canonical databases. *)
(*                                                                         *)
(* A database is a record of two sequences, tables and views.  The items   *)
(* of a table (columns, indexes, foreign keys) are sequences of records    *)
(* with a name.  What the code puts in lists sorted by name or key, each   *)
(* name once, is a set here.                                               *)
(***************************************************************************)
EXTENDS Naturals, Sequences, FiniteSets

\* Collecting into a BTreeMap: of two items with one key the last one stays.
LastWith(keys, k) ==
    CHOOSE i \in DOMAIN keys : keys[i] = k /\ \A j \in DOMAIN keys : keys[j] = k => j <= i

Collected(items, keys) ==
    [k \in {keys[i] : i \in DOMAIN keys} |-> items[LastWith(keys, k)]]

ByName(items) == Collected(items, [i \in DOMAIN items |-> items[i].name])
ByKey(objects) ==
    Collected(objects, [i \in DOMAIN objects |-> <<objects[i].schema, objects[i].name>>])

\* The three loops over two maps: what only the new one has, what only the old
\* one has, and what differs under one name.
ItemChanges(old, new) ==
    [added |-> {new[n] : n \in DOMAIN new \ DOMAIN old},
     removed |-> {old[n] : n \in DOMAIN old \ DOMAIN new},
     changed |-> {[old |-> old[n], new |-> new[n]] :
                    n \in {m \in DOMAIN old \cap DOMAIN new : old[m] # new[m]}}]

IsEmpty(changes) == changes.added = {} /\ changes.removed = {} /\ changes.changed = {}

\* What the new items are, if the changes say it and nothing else changed.
Patched(items, changes) ==
    ({items[i] : i \in DOMAIN items} \ (changes.removed \cup {c.old : c \in changes.changed}))
    \cup changes.added \cup {c.new : c \in changes.changed}

\* Mutant: a column is compared by its position only.
diff_positions(old, new) ==
    LET changes == ItemChanges(ByName(old), ByName(new))
    IN  [changes EXCEPT !.changed =
            {c \in @ : c.old.ordinal_position # c.new.ordinal_position}]

diff_columns(old, new) == ItemChanges(ByName(old), ByName(new))
diff_indexes(old, new) == ItemChanges(ByName(old), ByName(new))
diff_foreign_keys(old, new) == ItemChanges(ByName(old), ByName(new))

\* Nothing but columns, indexes and foreign keys is compared.
diff_table(old, new) ==
    [schema |-> new.schema, name |-> new.name,
     columns |-> diff_columns(old.columns, new.columns),
     indexes |-> diff_indexes(old.indexes, new.indexes),
     foreign_keys |-> diff_foreign_keys(old.foreign_keys, new.foreign_keys)]

diff_view(old, new) ==
    [schema |-> new.schema, name |-> new.name,
     columns |-> diff_columns(old.columns, new.columns)]

\* diff_table and diff_view are not None.
table_differs(old, new) ==
    LET d == diff_table(old, new)
    IN  ~(IsEmpty(d.columns) /\ IsEmpty(d.indexes) /\ IsEmpty(d.foreign_keys))

view_differs(old, new) == ~IsEmpty(diff_view(old, new).columns)

diff_tables(old, new) ==
    [added |-> {new[k] : k \in DOMAIN new \ DOMAIN old},
     removed |-> {old[k] : k \in DOMAIN old \ DOMAIN new},
     modified |-> {diff_table(old[k], new[k]) :
                    k \in {m \in DOMAIN old \cap DOMAIN new : table_differs(old[m], new[m])}}]

\* Mutant: a view that differs is listed as added too.
diff_views_anew(old, new) ==
    [added |-> {new[k] : k \in {m \in DOMAIN new : m \in DOMAIN old => view_differs(old[m], new[m])}},
     removed |-> {old[k] : k \in DOMAIN old \ DOMAIN new},
     modified |-> {diff_view(old[k], new[k]) :
                    k \in {m \in DOMAIN old \cap DOMAIN new : view_differs(old[m], new[m])}}]

diff_views(old, new) ==
    [added |-> {new[k] : k \in DOMAIN new \ DOMAIN old},
     removed |-> {old[k] : k \in DOMAIN old \ DOMAIN new},
     modified |-> {diff_view(old[k], new[k]) :
                    k \in {m \in DOMAIN old \cap DOMAIN new : view_differs(old[m], new[m])}}]

Count(changes) ==
    Cardinality(changes.added) + Cardinality(changes.removed) + Cardinality(changes.modified)

diff(old, new) ==
    LET tables == diff_tables(ByKey(old.tables), ByKey(new.tables))
        views == diff_views(ByKey(old.views), ByKey(new.views))
    IN  [tables |-> tables, views |-> views, total_changes |-> Count(tables) + Count(views)]

=============================================================================
