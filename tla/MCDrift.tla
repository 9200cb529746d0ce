------------------------------- MODULE MCDrift -------------------------------
(* Documents of small catalogs. *)
EXTENDS Drift

Column(name, type, number) == [name |-> name, type |-> type, number |-> number]
A == Column("a", "int", 1)
LongA == Column("a", "bigint", 1)
B == Column("b", "int", 2)
LaterB == Column("b", "int", 3)

Users == <<"main", "users">>
Groups == <<"main", "groups">>
Key(name, column, table) == [name |-> name, columns |-> <<column>>, table |-> table]
UserKey == Key("by_user", "a", Users)
GroupKey == Key("by_group", "b", Groups)
SecondUserKey == Key("by_second", "b", Users)
TwinUserKey == Key("by_twin", "a", Users)

IndexOn(column) == [name |-> "i", columns |-> <<column>>]

Table(name, columns, indexes, keys) ==
    [schema |-> "main", name |-> name, columns |-> columns,
     indexes |-> indexes, foreign_keys |-> keys]
View(name, columns) == [schema |-> "main", name |-> name, columns |-> columns]

\* Columns are added, dropped, retyped, and dropped and added again; a key is
\* added after another, before it, in its place; two keys say the same.
ColumnLists == {<<A>>, <<A, B>>, <<B>>, <<LongA, B>>, <<A, LaterB>>}
KeyLists == {<<>>, <<UserKey>>, <<UserKey, GroupKey>>, <<SecondUserKey, UserKey>>,
             <<UserKey, TwinUserKey>>,
             <<[UserKey EXCEPT !.columns = <<"b">>]>>}
IndexLists == {{}, {IndexOn("a")}, {IndexOn("b")}}

CatalogOf(tables, views) == [tables |-> tables, views |-> views]

\* Three tables that change, alone and beside others; views, and a name that is
\* a view and then a table.
SomeCatalogs ==
    {CatalogOf({Table("t", c, i, k)}, {}) :
        c \in {<<A, B>>}, i \in {{IndexOn("a")}}, k \in KeyLists}
    \cup {CatalogOf({Table("t", c, i, <<UserKey>>)}, {}) : c \in ColumnLists, i \in IndexLists}
    \cup {CatalogOf({}, {}),
          CatalogOf({Table("u", <<A>>, {}, <<>>)}, {}),
          CatalogOf({Table("t", <<A, B>>, {}, <<UserKey>>), Table("u", <<A>>, {}, <<>>)}, {}),
          CatalogOf({Table("t", <<A, B>>, {}, <<>>), Table("u", <<B>>, {}, <<>>)},
                    {View("v", <<A>>)}),
          CatalogOf({}, {View("u", <<A>>), View("v", <<LongA>>)})}

\* One table: a key, and the same with another declared after it.
TwoKeyCatalogs ==
    {CatalogOf({Table("t", <<A, B>>, {}, k)}, {}) : k \in {<<UserKey>>, <<UserKey, GroupKey>>}}

EveryEngine == AllEngines
OnlySqlite == {"sqlite"}
=============================================================================
