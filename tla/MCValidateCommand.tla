-------------------------- MODULE MCValidateCommand --------------------------
(* Small databases to validate and to document. *)
EXTENDS ValidateCommand

Column(name, key, null, default, auto) ==
    [name |-> name, ordinal_position |-> 1, primary_key |-> key, nullable |-> null,
     has_default |-> default, auto_increment |-> auto, unique |-> key, generated |-> FALSE,
     data_type |-> "int"]
IdColumn == Column("id", TRUE, FALSE, FALSE, TRUE)

\* The names in the order of their bytes, and what to_lowercase makes of them.
Bytes == <<"", "Created_At", "Deleted_At", "a", "audit_log", "b", "code", "created_at",
             "deleted_at", "gone", "i", "id", "is_deleted", "j", "k1", "k2", "l", "m", "main",
             "t", "timestamp", "u", "updated_on", "v", "x", "y">>
BytesRank == [n \in ToSet(Bytes) |-> CHOOSE i \in DOMAIN Bytes : Bytes[i] = n]
Lowered == [n \in {"Created_At", "Deleted_At"} |->
                IF n = "Created_At" THEN "created_at" ELSE "deleted_at"]
Audits == {"audit_log"}
Times == {"timestamp", "datetime"}

\* Columns and keys get the positions and names they are listed by.
Numbered(columns) == [i \in DOMAIN columns |-> [columns[i] EXCEPT !.ordinal_position = i * @]]
KeyNames == <<"k1", "k2">>

TableNamed(id, columns, indexes, foreign_keys) ==
    [schema |-> id[1], name |-> id[2], columns |-> Numbered(columns), indexes |-> indexes,
     foreign_keys |-> [i \in DOMAIN foreign_keys |->
                          [foreign_keys[i] EXCEPT !.name = KeyNames[i]]],
     without_rowid |-> FALSE, strict |-> FALSE]

Key(columns, id, referenced) ==
    [name |-> "", columns |-> columns, table |-> id, referenced |-> referenced]
KeyTo(id) == Key(<<"id">>, id, <<"id">>)

DatabaseOf(engine, tables) ==
    [database |-> "shop", engine |-> engine, engine_version |-> "1",
     tables |-> tables, views |-> <<>>]

\* Four tables, each with at most two foreign keys to any of the four.
Ids == << <<"a", "t">>, <<"a", "u">>, <<"a", "v">>, <<"b", "t">> >>
SortedLists == {<<>>} \cup {<<i>> : i \in 1 .. 4} \cup {l \in (1 .. 4) \X (1 .. 4) : l[1] < l[2]}
Graph(engine, g) ==
    DatabaseOf(engine, [i \in 1 .. 4 |->
        TableNamed(Ids[i], <<IdColumn>>, <<>>, [j \in DOMAIN g[i] |-> KeyTo(Ids[g[i][j]])])])
GraphDatabases == {Graph("sqlserver", g) : g \in [1 .. 4 -> SortedLists]}
SmallGraphs == {Graph("postgres", g) : g \in [1 .. 4 -> {<<>>, <<1>>, <<2>>, <<1, 4>>}]}

\* Two tables with or without a key, a column, a duplicate index, a broken key.
ColumnLists == {<<>>, <<IdColumn>>,
                <<Column("id", FALSE, FALSE, FALSE, FALSE)>>,
                <<Column("", FALSE, TRUE, FALSE, FALSE)>>,
                <<[IdColumn EXCEPT !.ordinal_position = 0]>>,
                <<IdColumn, Column("x", FALSE, FALSE, TRUE, FALSE)>>}
IndexOn(name, columns, unique) == [name |-> name, columns |-> columns, unique |-> unique]
IndexLists == {<<>>,
               <<IndexOn("i", <<"id", "x">>, TRUE), IndexOn("j", <<"x", "id">>, TRUE)>>,
               <<IndexOn("j", <<"id">>, TRUE), IndexOn("i", <<"id">>, FALSE)>>,
               <<IndexOn("i", <<"id">>, TRUE), IndexOn("j", <<"x">>, TRUE),
                 IndexOn("l", <<"id">>, TRUE)>>}
T == <<"main", "t">>
U == <<"main", "u">>
KeyLists == {<<>>, <<KeyTo(T)>>, <<KeyTo(U)>>, <<KeyTo(U), KeyTo(<<"main", "gone">>)>>,
             <<Key(<<"id">>, U, <<"id", "x">>)>>, <<Key(<<"id", "x">>, U, <<"x", "id">>)>>}
Variants(id) ==
    {[TableNamed(id, c, i, k) EXCEPT !.without_rowid = w, !.strict = w] :
        c \in ColumnLists, i \in IndexLists, k \in KeyLists, w \in BOOLEAN}
RuleDatabases ==
    {DatabaseOf(e, <<t, TableNamed(U, c, <<>>, <<>>)>>) :
        e \in {"sqlite", "mysql"}, t \in Variants(T), c \in ColumnLists}

\* A table m with two columns, in the key or not, and up to two foreign keys, to
\* tables two of which have one name; the tables are not listed in their order.
MemberKeys == {Key(c, <<"a", "t">>, c) : c \in {<<"x">>, <<"y">>, <<"x", "y">>}}
              \cup {Key(<<"y">>, id, <<"id">>) : id \in {<<"b", "t">>, <<"a", "u">>}}
JoinDatabases ==
    {DatabaseOf(e, <<TableNamed(<<"b", "t">>, <<IdColumn>>, <<>>, <<>>),
                     TableNamed(<<"a", "t">>, <<IdColumn, Column("x", FALSE, TRUE, FALSE, FALSE),
                                               Column("y", FALSE, TRUE, FALSE, FALSE)>>, <<>>, <<>>),
                     TableNamed(<<"a", "m">>, <<Column("x", k[1], FALSE, FALSE, FALSE),
                                               Column("y", k[2], FALSE, FALSE, FALSE)>>, <<>>, f),
                     TableNamed(<<"a", "u">>, <<IdColumn>>, <<>>, <<>>)>>) :
        e \in {"postgres", "sqlserver", "mysql"}, k \in BOOLEAN \X BOOLEAN,
        f \in {<<>>} \cup {<<g>> : g \in MemberKeys} \cup (MemberKeys \X MemberKeys)}

\* Tables with columns a heuristic looks for.
Words == <<"code", "deleted_at", "Created_At", "is_deleted", "Deleted_At", "timestamp", "updated_on">>
WordColumns(words) ==
    LET s == SelectSeq(Words, LAMBDA w : w \in words)
    IN  [i \in DOMAIN s |-> [Column(s[i], FALSE, TRUE, FALSE, FALSE) EXCEPT !.data_type =
                                IF s[i] = "deleted_at" THEN "datetime" ELSE "int"]]
WordDatabases ==
    {DatabaseOf("sqlite", <<TableNamed(<<"main", name>>, key \o WordColumns(words), <<>>, <<>>)>>) :
        name \in {"audit_log", "t"}, key \in {<<>>, <<IdColumn>>}, words \in SUBSET ToSet(Words)}

AllDatabases ==
    GraphDatabases \cup SmallGraphs \cup RuleDatabases \cup JoinDatabases \cup WordDatabases
=============================================================================
